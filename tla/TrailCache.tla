----------------------------- MODULE TrailCache -----------------------------
(***************************************************************************)
(* The canonical store of zmem: how repository synchronizations publish    *)
(* trails, how finalization keeps the store within max_entries, and what   *)
(* the synchronizations read back.                                         *)
(*                                                                         *)
(* A trail is an immutable selection of commits under one identity.  All   *)
(* writes go through the one publication writer: publish_trail is one      *)
(* transaction, finalize_store is three (alias, trails, commits), with     *)
(* readers and crashes in between.  A synchronization reads without the    *)
(* writer.  Trail and commit identifiers are numbers: their order is the   *)
(* one that breaks ties.  Repositories are not told apart.                 *)
(***************************************************************************)
EXTENDS Integers, FiniteSets, Sequences, FiniteSetsExt

CONSTANTS
    Syncs,       \* threads that may be in sync_repository_with_selection
    Trails,      \* trail identities
    Commits,     \* commits of the history
    Branches,    \* local branches named by a request
    Selected,    \* [Trails -> SUBSET Commits]: what the trail's policy selects
    CommitTime,  \* [Commits -> Nat]: committer time
    Entries,     \* [Commits -> Nat]: memory entries of a commit
    Linked,      \* commits with a relationship or a diagnostic
    MaxEntries,  \* max_entries
    Protect,     \* protect_recent_days; 0 protects nothing
    WriterCap,   \* 8: commands waiting for the writer
    MaxClock,    \* bound on the clock
    MaxRows,     \* bound on the count of equal relationship rows
    NoTrail, NoBranch, NoSync

ASSUME CacheAssumption ==
    /\ Trails \subseteq Nat /\ Commits \subseteq Nat
    /\ IsFiniteSet(Commits)
    /\ Selected \in [Trails -> SUBSET Commits]
    /\ CommitTime \in [Commits -> Nat]
    /\ Entries \in [Commits -> Nat]
    /\ Linked \subseteq Commits
    /\ {MaxEntries, WriterCap, MaxRows} \subseteq Nat \ {0}
    /\ {Protect, MaxClock} \subseteq Nat
    /\ NoTrail \notin Trails /\ NoBranch \notin Branches /\ NoSync \notin Syncs

VARIABLES
    trails,   \* rows of trails
    member,   \* rows of trail_membership and trail_entry_state, by trail
    alias,    \* rows of ref_aliases: the trail of a branch
    commits,  \* rows of commits and of what hangs off them by foreign key
    rows,     \* rows of relationships and diagnostics, by trail and commit
    sync,     \* where each synchronization is
    commands, \* the queue of the writer
    phase,    \* how far the writer is with its first command
    clock     \* wall-clock time

store == <<trails, member, alias, commits, rows>>
vars == <<trails, member, alias, commits, rows, sync, commands, phase, clock>>

-----------------------------------------------------------------------------
Stages == {"idle", "collecting", "publishing", "published", "finalizing",
           "finalized", "reading", "done"}
Idle == [at |-> "idle", trail |-> NoTrail, branch |-> NoBranch,
         read |-> {}, over |-> FALSE]
Command == [kind : {"publish", "finalize"}, sync : Syncs \cup {NoSync},
            trail : Trails, branch : Branches \cup {NoBranch}, now : 0..MaxClock]

\* source_time of a trail is the latest committer time it selects.
SourceTime(t) == IF Selected[t] = {} THEN 0 ELSE Max({CommitTime[c] : c \in Selected[t]})

Init ==
    /\ trails = {}
    /\ member = [t \in Trails |-> {}]
    /\ alias = [b \in Branches |-> NoTrail]
    /\ commits = {}
    /\ rows = [t \in Trails |-> [c \in Commits |-> 0]]
    /\ sync = [s \in Syncs |-> Idle]
    /\ commands = <<>>
    /\ phase = "ready"
    /\ clock = 0

-----------------------------------------------------------------------------
(***************************************************************************)
(* A synchronization: sync_repository_with_selection                       *)
(***************************************************************************)
Goto(s, at) == sync' = [sync EXCEPT ![s].at = at]

\* The selection names a trail; it is published already or has to be.
Begin(s, t, b) ==
    /\ sync[s].at = "idle"
    /\ sync' = [sync EXCEPT ![s] = [Idle EXCEPT
          !.at = IF t \in trails THEN "published" ELSE "collecting",
          !.trail = t, !.branch = b]]
    /\ UNCHANGED <<store, commands, phase, clock>>

\* try_send to the writer; a full queue is answered busy.
Submit(s, at, m) ==
    \/ /\ Len(commands) < WriterCap
       /\ commands' = Append(commands, m)
       /\ sync' = [sync EXCEPT ![s].at = at]
    \/ sync' = [sync EXCEPT ![s] = Idle] /\ UNCHANGED commands

\* The extensions are run and the projection is computed, or that fails.
Publish(s) ==
    /\ sync[s].at = "collecting"
    /\ Submit(s, "publishing", [kind |-> "publish", sync |-> s,
              trail |-> sync[s].trail, branch |-> NoBranch, now |-> 0])
    /\ UNCHANGED <<store, phase, clock>>

Finalize(s) ==
    /\ sync[s].at = "published"
    /\ Submit(s, "finalizing", [kind |-> "finalize", sync |-> s,
              trail |-> sync[s].trail, branch |-> sync[s].branch, now |-> clock])
    /\ UNCHANGED <<store, phase, clock>>

\* recv_timeout: the synchronization fails, its command stays.
GiveUp(s) ==
    /\ sync[s].at \in {"publishing", "finalizing"}
    /\ sync' = [sync EXCEPT ![s] = Idle]
    /\ commands' = [n \in DOMAIN commands |->
                      IF commands[n].sync = s
                      THEN [commands[n] EXCEPT !.sync = NoSync] ELSE commands[n]]
    /\ UNCHANGED <<store, phase, clock>>

\* Two more reads of the store, each a transaction of its own.
ReadEntries(s) ==
    /\ sync[s].at = "finalized"
    /\ sync' = [sync EXCEPT ![s].at = "reading", ![s].over = FALSE,
                               ![s].read = member[sync[s].trail]]
    /\ UNCHANGED <<store, commands, phase, clock>>
ReadRelationships(s) ==
    /\ sync[s].at = "reading"
    /\ Goto(s, "done")
    /\ UNCHANGED <<store, commands, phase, clock>>
Respond(s) ==
    /\ sync[s].at = "done"
    /\ sync' = [sync EXCEPT ![s] = Idle]
    /\ UNCHANGED <<store, commands, phase, clock>>

-----------------------------------------------------------------------------
(***************************************************************************)
(* The writer: publish_trail                                               *)
(***************************************************************************)
Answer(m, at, over) ==
    sync' = IF m.sync = NoSync THEN sync
            ELSE [sync EXCEPT ![m.sync] = IF at = "idle" THEN Idle
                                          ELSE [@ EXCEPT !.at = at, !.over = over]]
Done == commands' = Tail(commands) /\ phase' = "ready"

Added(n) == IF n < MaxRows THEN n + 1 ELSE n

\* Faulty variant, to show that the properties notice it: commits the store
\* knows already are left out of the membership.
InsertNewOnly(t) ==
    /\ trails' = trails \cup {t}
    /\ member' = [member EXCEPT ![t] = Selected[t] \ commits]
    /\ commits' = commits \cup Selected[t]
    /\ rows' = [rows EXCEPT ![t] = [c \in Commits |->
                  IF c \in Selected[t] \cap Linked THEN Added(@[c]) ELSE @[c]]]
\* Shared facts are inserted or already there; the rows of the trail are new.
InsertTrail(t) ==
    /\ trails' = trails \cup {t}
    /\ member' = [member EXCEPT ![t] = Selected[t]]
    /\ commits' = commits \cup Selected[t]
    /\ rows' = [rows EXCEPT ![t] = [c \in Commits |->
                  IF c \in Selected[t] \cap Linked THEN Added(@[c]) ELSE @[c]]]

\* The primary key refuses a trail that was published in the meantime.
WriterPublishes ==
    /\ commands # <<>> /\ Head(commands).kind = "publish"
    /\ Head(commands).trail \notin trails
    /\ InsertTrail(Head(commands).trail)
    /\ Answer(Head(commands), "published", FALSE)
    /\ Done
    /\ UNCHANGED <<alias, clock>>

\* The command fails: a constraint, its deadline, a disconnected client.  What
\* finalization has committed before stays.
WriterFails ==
    /\ commands # <<>>
    /\ Answer(Head(commands), "idle", FALSE)
    /\ Done
    /\ UNCHANGED <<store, clock>>

-----------------------------------------------------------------------------
(***************************************************************************)
(* The writer: finalize_store                                              *)
(***************************************************************************)
Finalizing == commands # <<>> /\ Head(commands).kind = "finalize"

\* set_ref_alias, refused by the foreign key when the trail has gone.
WriterAliases ==
    /\ Finalizing /\ phase = "ready"
    /\ LET m == Head(commands) IN
         /\ m.branch # NoBranch => m.trail \in trails
         /\ alias' = IF m.branch = NoBranch THEN alias
                     ELSE [alias EXCEPT ![m.branch] = m.trail]
    /\ phase' = "trails"
    /\ UNCHANGED <<trails, member, commits, rows, sync, commands, clock>>

EntriesOf(C) == MapThenSumSet(LAMBDA c : Entries[c], C)
\* COUNT over trail_entry_state: a commit counts once for every trail it is in.
TrailEntries(T) == MapThenSumSet(LAMBDA t : EntriesOf(member[t]), T)

Recent(time, now) == Protect > 0 /\ time > now - Protect
Referenced(t) == \E b \in Branches : alias[b] = t
Older(t, u) == \/ SourceTime(t) < SourceTime(u)
               \/ SourceTime(t) = SourceTime(u) /\ t < u

\* Faulty variant, to show that the properties notice it: aliases do not protect.
EvictableIfReferenced(t, m) == t # m.trail /\ ~Recent(SourceTime(t), m.now)
\* Faulty variant, to show that the properties notice it: the setting is forgotten.
EvictableIfRecent(t, m) == t # m.trail /\ ~Referenced(t)
\* select_trail_evictions, and the active trail that finalize_store skips.
Evictable(t, m) ==
    /\ t # m.trail
    /\ ~Referenced(t)
    /\ ~Recent(SourceTime(t), m.now)

\* Faulty variant, to show that the properties notice it: stops too late.
TrailVictimsAtLimit(m) ==
    LET eligible == {t \in trails : Evictable(t, m)} IN
    {t \in eligible :
        TrailEntries(trails \ {u \in eligible : Older(u, t)}) >= MaxEntries}
\* From the oldest on, as long as the trails that remain are over the limit.
TrailVictims(m) ==
    LET eligible == {t \in trails : Evictable(t, m)} IN
    {t \in eligible :
        TrailEntries(trails \ {u \in eligible : Older(u, t)}) > MaxEntries}

\* evict_trails: membership and entry state go with the trail; relationships
\* and diagnostics have no foreign key to it and stay.
WriterEvictsTrails ==
    /\ Finalizing /\ phase = "trails"
    /\ LET victims == TrailVictims(Head(commands)) IN
         /\ trails' = trails \ victims
         /\ member' = [t \in Trails |-> IF t \in victims THEN {} ELSE member[t]]
         /\ alias' = [b \in Branches |-> IF alias[b] \in victims THEN NoTrail
                                         ELSE alias[b]]
    /\ phase' = "commits"
    /\ UNCHANGED <<commits, rows, sync, commands, clock>>

\* cohorts(): commits with entries that no trail has.
Cohorts == {c \in commits : Entries[c] > 0 /\ \A t \in trails : c \notin member[t]}
OlderCommit(c, d) == \/ CommitTime[c] < CommitTime[d]
                     \/ CommitTime[c] = CommitTime[d] /\ c < d

\* select_evictions
CommitVictims(now) ==
    LET eligible == {c \in Cohorts : ~Recent(CommitTime[c], now)} IN
    {c \in eligible :
        EntriesOf(Cohorts \ {d \in eligible : OlderCommit(d, c)}) > MaxEntries}

\* Faulty variant, to show that the properties notice it: the cohorts are measured before eviction.
OverCapacityBefore(victims) ==
    TrailEntries(trails) > MaxEntries \/ EntriesOf(Cohorts) > MaxEntries
OverCapacity(victims) ==
    TrailEntries(trails) > MaxEntries \/ EntriesOf(Cohorts \ victims) > MaxEntries

\* evict, and the answer: everything that names the commit goes with it.
WriterEvictsCommits ==
    /\ Finalizing /\ phase = "commits"
    /\ LET victims == CommitVictims(Head(commands).now) IN
         /\ commits' = commits \ victims
         /\ member' = [t \in Trails |-> member[t] \ victims]
         /\ rows' = [t \in Trails |-> [c \in Commits |->
                       IF c \in victims THEN 0 ELSE rows[t][c]]]
         /\ Answer(Head(commands), "finalized", OverCapacity(victims))
    /\ Done
    /\ UNCHANGED <<trails, alias, clock>>

-----------------------------------------------------------------------------
\* The service crashes or is stopped and started again: the store remains.
Restart ==
    /\ sync' = [s \in Syncs |-> Idle]
    /\ commands' = <<>> /\ phase' = "ready"
    /\ UNCHANGED <<store, clock>>

Tick ==
    /\ clock < MaxClock
    /\ clock' = clock + 1
    /\ UNCHANGED <<store, sync, commands, phase>>

SyncStep(s) ==
    \/ \E t \in Trails, b \in Branches \cup {NoBranch} : Begin(s, t, b)
    \/ Publish(s) \/ Finalize(s) \/ GiveUp(s)
    \/ ReadEntries(s) \/ ReadRelationships(s) \/ Respond(s)
WriterStep == WriterPublishes \/ WriterFails \/ WriterAliases
                \/ WriterEvictsTrails \/ WriterEvictsCommits

Next == (\E s \in Syncs : SyncStep(s)) \/ WriterStep \/ Restart \/ Tick

Spec == Init /\ [][Next]_vars

-----------------------------------------------------------------------------
(* Properties *)

\* Every variable keeps its type.
TypeOK ==
    /\ trails \subseteq Trails
    /\ member \in [Trails -> SUBSET Commits]
    /\ alias \in [Branches -> Trails \cup {NoTrail}]
    /\ commits \subseteq Commits
    /\ rows \in [Trails -> [Commits -> 0..MaxRows]]
    /\ sync \in [Syncs -> [at : Stages, trail : Trails \cup {NoTrail},
                           branch : Branches \cup {NoBranch},
                           read : SUBSET Commits, over : BOOLEAN]]
    /\ commands \in Seq(Command) /\ Len(commands) <= WriterCap
    /\ phase \in {"ready", "trails", "commits"}
    /\ clock \in 0..MaxClock

\* Eviction of other trails and of commits, and publications that share its
\* commits, never change a retained trail: it keeps every commit it selects,
\* with the shared facts, and its relationships.
RetainedComplete ==
    \A t \in trails :
        /\ member[t] = Selected[t]
        /\ Selected[t] \subseteq commits
        /\ \A c \in Selected[t] \cap Linked : rows[t][c] > 0

\* A synchronization has at most one command with the writer, and it waits for it.
OneCommandEach ==
    /\ \A s \in Syncs : sync[s].at # "idle" => sync[s].trail \in Trails
    /\ \A n \in DOMAIN commands : commands[n].sync # NoSync =>
          /\ sync[commands[n].sync].at \in {"publishing", "finalizing"}
          /\ \A m \in DOMAIN commands : commands[m].sync = commands[n].sync => m = n

\* What the foreign keys on trails keep.
ForeignKeys ==
    /\ \A b \in Branches : alias[b] # NoTrail => alias[b] \in trails
    /\ \A t \in Trails \ trails : member[t] = {}

\* The inductive invariant: what is published is complete, aliases name what is
\* published, and an answer of the writer goes to who asked for it.
IInv == TypeOK /\ OneCommandEach /\ ForeignKeys /\ RetainedComplete

\* A branch that was resolved once keeps its alias, and the alias its trail,
\* through every eviction.
AliasesKept ==
    [][\A b \in Branches : alias[b] # NoTrail =>
          alias'[b] # NoTrail /\ alias'[b] \in trails']_vars

\* No trail or commit is evicted while it is recent by the clock, though the
\* clock was read before the request waited for the writer.
RecentKept ==
    [][/\ \A t \in trails \ trails' : ~Recent(SourceTime(t), clock)
       /\ \A c \in commits \ commits' : ~Recent(CommitTime[c], clock)]_vars

\* Trails are evicted oldest first and no more of them than needed: to keep the
\* newest victim would leave the trails over the limit, and an older trail that
\* stays is aliased, recent or the one just published.
EvictionMinimal ==
    [][\A t \in trails \ trails' :
          /\ TrailEntries(trails' \cup {u \in trails : u = t \/ Older(t, u)}) > MaxEntries
          /\ \A u \in trails' : Older(u, t) =>
                \/ Referenced(u)
                \/ Recent(SourceTime(u), Head(commands).now)
                \/ u = Head(commands).trail]_vars

\* over_capacity of a synchronization is what its finalization left behind.
ReportExact ==
    [][\A s \in Syncs :
          sync[s].at = "finalizing" /\ sync'[s].at = "finalized" =>
             sync'[s].over <=> \/ TrailEntries(trails)' > MaxEntries
                               \/ EntriesOf(Cohorts)' > MaxEntries]_vars

\* openspec/specs/cache-retention/spec.md:49: a response reads "one coherent
\* published snapshot across summary, entries, relationships, and diagnostics
\* even if retention runs concurrently".
ResponseComplete ==
    \A s \in Syncs : sync[s].at = "done" => sync[s].read = Selected[sync[s].trail]
=============================================================================

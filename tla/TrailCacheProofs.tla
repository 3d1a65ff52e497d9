-------------------------- MODULE TrailCacheProofs --------------------------
(***************************************************************************)
(* For every history, every selection of trails and every number of        *)
(* synchronizations: a retained trail stays complete and an alias keeps    *)
(* its trail.  The inductive invariant IInv of TrailCache falls into what  *)
(* it says of the store and what it says of the synchronizations and their *)
(* commands; each action touches the one, the other, or both.              *)
(***************************************************************************)
EXTENDS TrailCache, SequenceTheorems, Lemmas

StoreTypes ==
    /\ trails \subseteq Trails
    /\ member \in [Trails -> SUBSET Commits]
    /\ alias \in [Branches -> Trails \cup {NoTrail}]
    /\ commits \subseteq Commits
    /\ rows \in [Trails -> [Commits -> 0..MaxRows]]
StoreOK == StoreTypes /\ ForeignKeys /\ RetainedComplete

SyncRecord == [at : Stages, trail : Trails \cup {NoTrail},
               branch : Branches \cup {NoBranch},
               read : SUBSET Commits, over : BOOLEAN]
ControlTypes ==
    /\ sync \in [Syncs -> SyncRecord]
    /\ commands \in Seq(Command) /\ Len(commands) <= WriterCap
    /\ phase \in {"ready", "trails", "commits"}
    /\ clock \in 0..MaxClock
ControlOK == ControlTypes /\ OneCommandEach

LEMMA Halves == IInv <=> StoreOK /\ ControlOK
BY DEF IInv, TypeOK, StoreOK, StoreTypes, ControlOK, ControlTypes, SyncRecord

LEMMA HalvesNext == IInv' <=> StoreOK' /\ ControlOK'
BY DEF IInv, TypeOK, StoreOK, StoreTypes, ControlOK, ControlTypes, SyncRecord

-----------------------------------------------------------------------------
(* The store *)

LEMMA SameStore ==
    ASSUME StoreOK, UNCHANGED store
    PROVE  StoreOK'
BY DEF StoreOK, StoreTypes, ForeignKeys, RetainedComplete, store

\* Publication writes a trail with all it selects, and takes nothing away.
LEMMA PublishStore ==
    ASSUME StoreOK, NEW t \in Trails, InsertTrail(t), UNCHANGED alias
    PROVE  StoreOK'
<1> USE DEF StoreOK
<1>1. /\ trails' = trails \cup {t}
      /\ member' = [member EXCEPT ![t] = Selected[t]]
      /\ commits' = commits \cup Selected[t]
      /\ alias' = alias
  BY DEF InsertTrail
<1>2. Selected \in [Trails -> SUBSET Commits] /\ MaxRows \in Nat \ {0}
  BY CacheAssumption DEF CacheAssumption
<1>3. /\ rows' \in [Trails -> [Commits -> 0..MaxRows]]
      /\ \A u \in Trails, c \in Commits : rows[u][c] > 0 => rows'[u][c] > 0
      /\ \A c \in Selected[t] \cap Linked : rows'[t][c] > 0
  <2> DEFINE row == [c \in Commits |->
                IF c \in Selected[t] \cap Linked THEN Added(rows[t][c]) ELSE rows[t][c]]
  <2>1. rows' = [rows EXCEPT ![t] = row]
    BY DEF InsertTrail
  <2>2. \A n \in 0..MaxRows : Added(n) \in 0..MaxRows /\ Added(n) > 0
    BY <1>2 DEF Added
  <2>3. rows \in [Trails -> [Commits -> 0..MaxRows]]
    BY DEF StoreTypes
  <2>4. /\ row \in [Commits -> 0..MaxRows]
        /\ \A c \in Commits : rows[t][c] > 0 => row[c] > 0
        /\ \A c \in Selected[t] \cap Linked : row[c] > 0
    BY <2>2, <2>3, <1>2
  <2> HIDE DEF row
  <2> QED BY <2>1, <2>3, <2>4
<1>4. StoreTypes'
  BY <1>1, <1>2, <1>3 DEF StoreTypes
<1>5. ForeignKeys'
  BY <1>1 DEF ForeignKeys, StoreTypes
<1>6. RetainedComplete'
  BY <1>1, <1>2, <1>3 DEF RetainedComplete, StoreTypes
<1> QED BY <1>4, <1>5, <1>6

\* Deleting trails deletes their membership and their aliases with them.
LEMMA EvictTrailsStore ==
    ASSUME StoreOK, WriterEvictsTrails
    PROVE  StoreOK'
<1> USE DEF StoreOK
<1> DEFINE victims == TrailVictims(Head(commands))
<1>1. /\ trails' = trails \ victims
      /\ member' = [t \in Trails |-> IF t \in victims THEN {} ELSE member[t]]
      /\ alias' = [b \in Branches |-> IF alias[b] \in victims THEN NoTrail ELSE alias[b]]
      /\ commits' = commits /\ rows' = rows
  BY DEF WriterEvictsTrails
<1> HIDE DEF victims
<1>2. StoreTypes'
  BY <1>1 DEF StoreTypes
<1>3. ForeignKeys'
  BY <1>1 DEF ForeignKeys, StoreTypes
<1>4. RetainedComplete'
  BY <1>1 DEF RetainedComplete, StoreTypes
<1> QED BY <1>2, <1>3, <1>4

\* The commits that finalization deletes belong to no trail.
LEMMA EvictCommitsStore ==
    ASSUME StoreOK, WriterEvictsCommits
    PROVE  StoreOK'
<1> USE DEF StoreOK
<1> DEFINE victims == CommitVictims(Head(commands).now)
<1>1. /\ trails' = trails /\ alias' = alias
      /\ commits' = commits \ victims
      /\ member' = [t \in Trails |-> member[t] \ victims]
      /\ rows' = [t \in Trails |-> [c \in Commits |-> IF c \in victims THEN 0 ELSE rows[t][c]]]
  BY DEF WriterEvictsCommits
<1>2. \A t \in trails : victims \cap member[t] = {}
  BY DEF CommitVictims, Cohorts
<1> HIDE DEF victims
<1>3. Selected \in [Trails -> SUBSET Commits] /\ MaxRows \in Nat \ {0}
  BY CacheAssumption DEF CacheAssumption
<1>4. StoreTypes'
  BY <1>1, <1>3 DEF StoreTypes
<1>5. ForeignKeys'
  BY <1>1 DEF ForeignKeys, StoreTypes
<1>6. ASSUME NEW t \in trails
      PROVE  /\ member'[t] = Selected[t] /\ Selected[t] \subseteq commits'
             /\ \A c \in Selected[t] \cap Linked : rows'[t][c] > 0
  <2>1. t \in Trails /\ member[t] = Selected[t] /\ Selected[t] \subseteq commits
    BY DEF StoreTypes, RetainedComplete
  <2>2. \A c \in Selected[t] : c \notin victims /\ c \in Commits
    BY <1>2, <1>3, <2>1
  <2>3. \A c \in Selected[t] : rows'[t][c] = rows[t][c]
    BY <1>1, <2>1, <2>2
  <2> QED BY <1>1, <2>1, <2>2, <2>3 DEF RetainedComplete
<1>7. RetainedComplete'
  BY <1>1, <1>6 DEF RetainedComplete
<1> QED BY <1>4, <1>5, <1>7

\* An alias is only set to a trail that is there.
LEMMA AliasStore ==
    ASSUME StoreOK, ControlOK, WriterAliases
    PROVE  StoreOK'
<1> USE DEF StoreOK
<1> DEFINE m == Head(commands)
<1>1. m \in Command
  BY DEF ControlOK, ControlTypes, WriterAliases, Finalizing
<1>2. /\ m.branch # NoBranch => m.trail \in trails
      /\ alias' = IF m.branch = NoBranch THEN alias ELSE [alias EXCEPT ![m.branch] = m.trail]
      /\ trails' = trails /\ member' = member /\ commits' = commits /\ rows' = rows
  BY DEF WriterAliases
<1>3. m.branch \in Branches \cup {NoBranch} /\ m.trail \in Trails
  BY <1>1 DEF Command
<1> HIDE DEF m
<1>4. StoreTypes'
  BY <1>2, <1>3 DEF StoreTypes
<1>5. ForeignKeys'
  BY <1>2, <1>3 DEF ForeignKeys, StoreTypes
<1>6. RetainedComplete'
  BY <1>2 DEF RetainedComplete
<1> QED BY <1>4, <1>5, <1>6

-----------------------------------------------------------------------------
(* The synchronizations and their commands *)

LEMMA SameControl ==
    ASSUME ControlOK, UNCHANGED <<sync, commands, phase, clock>>
    PROVE  ControlOK'
BY DEF ControlOK, ControlTypes, OneCommandEach

\* What the writer takes from the queue is a command, and whoever waits for it
\* waits for no other.
LEMMA TakeCommand ==
    ASSUME ControlOK, commands # <<>>, commands' = Tail(commands)
    PROVE  /\ Head(commands) \in Command
           /\ commands' \in Seq(Command) /\ Len(commands') <= WriterCap
           /\ Head(commands).sync # NoSync =>
                 /\ Head(commands).sync \in Syncs
                 /\ sync[Head(commands).sync].at \in {"publishing", "finalizing"}
           /\ \A n \in DOMAIN commands' :
                 /\ n + 1 \in DOMAIN commands /\ commands'[n] = commands[n + 1]
                 /\ commands'[n].sync # NoSync =>
                       /\ commands'[n].sync # Head(commands).sync
                       /\ commands'[n].sync \in Syncs
                       /\ sync[commands'[n].sync].at \in {"publishing", "finalizing"}
                       /\ \A m \in DOMAIN commands' :
                             commands'[m].sync = commands'[n].sync => m = n
<1> USE DEF ControlOK
<1>1. commands \in Seq(Command) /\ Len(commands) <= WriterCap /\ WriterCap \in Nat
  BY CacheAssumption DEF ControlTypes, CacheAssumption
<1>2. /\ Head(commands) \in Command /\ Head(commands) = commands[1]
      /\ 1 \in DOMAIN commands
      /\ commands' \in Seq(Command) /\ Len(commands') <= WriterCap
      /\ DOMAIN commands = 1 .. Len(commands)
      /\ DOMAIN commands' = 1 .. (Len(commands) - 1)
      /\ \A n \in DOMAIN commands' : commands'[n] = commands[n + 1]
      /\ Len(commands) \in Nat \ {0}
  BY <1>1, HeadTailProperties
<1>3. \A n \in DOMAIN commands' : n + 1 \in DOMAIN commands /\ n + 1 # 1
  BY <1>2
<1>4. \A n \in DOMAIN commands : commands[n].sync \in Syncs \cup {NoSync}
  <2>1. \A n \in DOMAIN commands : commands[n] \in Command
    BY <1>1
  <2> QED BY <2>1 DEF Command
<1>5. Head(commands).sync # NoSync =>
         /\ Head(commands).sync \in Syncs
         /\ sync[Head(commands).sync].at \in {"publishing", "finalizing"}
  BY <1>2, <1>4 DEF OneCommandEach
<1>6. ASSUME NEW n \in DOMAIN commands', commands'[n].sync # NoSync
      PROVE  /\ commands'[n].sync # Head(commands).sync
             /\ commands'[n].sync \in Syncs
             /\ sync[commands'[n].sync].at \in {"publishing", "finalizing"}
             /\ \A m \in DOMAIN commands' :
                   commands'[m].sync = commands'[n].sync => m = n
  <2>1. n + 1 \in DOMAIN commands /\ n + 1 # 1 /\ commands'[n] = commands[n + 1]
    BY <1>2, <1>3
  <2>2. commands[n + 1].sync # NoSync
    BY <1>6, <2>1
  <2>3. \A k \in DOMAIN commands : commands[k].sync = commands[n + 1].sync => k = n + 1
    BY <2>1, <2>2 DEF OneCommandEach
  <2>4. \A m \in DOMAIN commands' : commands'[m].sync = commands'[n].sync => m + 1 = n + 1
    BY <1>2, <1>3, <2>1, <2>3
  <2>5. \A m \in DOMAIN commands' : commands'[m].sync = commands'[n].sync => m = n
    BY <1>2, <2>4
  <2>6. commands'[n].sync # Head(commands).sync
    BY <1>2, <2>1, <2>3
  <2> QED BY <1>4, <2>1, <2>2, <2>5, <2>6 DEF OneCommandEach
<1> QED BY <1>2, <1>3, <1>5, <1>6

\* An answer of the writer reaches the one that waits for it, if it still does.
LEMMA AnswerControl ==
    ASSUME ControlOK, commands # <<>>, UNCHANGED clock, Done,
           NEW at \in {"idle", "published", "finalized"}, NEW over \in BOOLEAN,
           Answer(Head(commands), at, over)
    PROVE  ControlOK'
<1> USE DEF ControlOK
<1> DEFINE h == Head(commands)
<1>1. commands' = Tail(commands) /\ phase' = "ready" /\ clock' = clock
  BY DEF Done
<1>2. /\ h \in Command
      /\ commands' \in Seq(Command) /\ Len(commands') <= WriterCap
      /\ h.sync # NoSync =>
            /\ h.sync \in Syncs
            /\ sync[h.sync].at \in {"publishing", "finalizing"}
      /\ \A n \in DOMAIN commands' : commands'[n].sync # NoSync =>
            /\ commands'[n].sync # h.sync
            /\ commands'[n].sync \in Syncs
            /\ sync[commands'[n].sync].at \in {"publishing", "finalizing"}
            /\ \A m \in DOMAIN commands' : commands'[m].sync = commands'[n].sync => m = n
  BY <1>1, TakeCommand
<1>3. PICK w : w = h.sync
  OBVIOUS
<1>4. sync' = IF w = NoSync THEN sync
              ELSE [sync EXCEPT ![w] = IF at = "idle" THEN Idle
                                       ELSE [sync[w] EXCEPT !.at = at, !.over = over]]
  BY <1>3 DEF Answer
<1>5. sync \in [Syncs -> SyncRecord]
  BY DEF ControlTypes
<1>6. w # NoSync => w \in Syncs /\ sync[w].at # "idle"
  BY <1>2, <1>3
<1>7. Idle \in SyncRecord /\ Idle.at = "idle"
  BY DEF Idle, SyncRecord, Stages
<1>8. w # NoSync =>
         /\ [sync[w] EXCEPT !.at = at, !.over = over] \in SyncRecord
         /\ [sync[w] EXCEPT !.at = at, !.over = over].trail = sync[w].trail
  BY <1>5, <1>6 DEF SyncRecord, Stages
<1>9. sync' \in [Syncs -> SyncRecord]
  BY <1>4, <1>5, <1>6, <1>7, <1>8
<1>10. \A s \in Syncs : s # w => sync'[s] = sync[s]
  BY <1>4, <1>5
<1>11. \A s \in Syncs : sync'[s].at # "idle" => sync'[s].trail \in Trails
  <2>1. SUFFICES ASSUME w # NoSync, sync'[w].at # "idle" PROVE sync'[w].trail \in Trails
    BY <1>4, <1>10 DEF OneCommandEach
  <2>2. sync[w].trail \in Trails
    BY <1>6, <2>1 DEF OneCommandEach
  <2> QED BY <1>4, <1>5, <1>6, <1>7, <1>8, <2>1, <2>2
<1>12. ControlTypes'
  BY <1>1, <1>2, <1>9 DEF ControlTypes
<1>13. \A n \in DOMAIN commands' : commands'[n].sync # NoSync =>
          /\ sync'[commands'[n].sync].at \in {"publishing", "finalizing"}
          /\ \A m \in DOMAIN commands' : commands'[m].sync = commands'[n].sync => m = n
  BY <1>2, <1>3, <1>10
<1> QED BY <1>11, <1>12, <1>13 DEF OneCommandEach

\* A submission adds the one command of a synchronization that had none.
LEMMA SubmitControl ==
    ASSUME ControlOK, UNCHANGED <<phase, clock>>, NEW s \in Syncs,
           sync[s].at \in {"collecting", "published"},
           NEW at \in {"publishing", "finalizing"},
           NEW m \in Command, m.sync = s,
           Submit(s, at, m)
    PROVE  ControlOK'
<1> USE DEF ControlOK
<1>1. /\ sync \in [Syncs -> SyncRecord]
      /\ commands \in Seq(Command) /\ Len(commands) <= WriterCap
      /\ WriterCap \in Nat
  BY CacheAssumption DEF ControlTypes, CacheAssumption
<1>2. /\ Len(commands) \in Nat
      /\ DOMAIN commands = 1 .. Len(commands)
      /\ \A n \in DOMAIN commands : commands[n] \in Command
  BY <1>1
<1>3. s # NoSync
  BY CacheAssumption DEF CacheAssumption
<1>4. \A n \in DOMAIN commands : commands[n].sync # s
  BY <1>3 DEF OneCommandEach
<1>5. sync[s].trail \in Trails
  BY DEF OneCommandEach
<1>6. CASE /\ Len(commands) < WriterCap
           /\ commands' = Append(commands, m)
           /\ sync' = [sync EXCEPT ![s].at = at]
  <2>1. /\ sync' \in [Syncs -> SyncRecord]
        /\ \A r \in Syncs \ {s} : sync'[r] = sync[r]
        /\ sync'[s].at = at /\ sync'[s].trail = sync[s].trail
    BY <1>1, <1>6 DEF SyncRecord, Stages
  <2>2. /\ commands' \in Seq(Command) /\ Len(commands') <= WriterCap
        /\ DOMAIN commands' = 1 .. (Len(commands) + 1)
        /\ \A n \in DOMAIN commands : commands'[n] = commands[n]
        /\ commands'[Len(commands) + 1] = m
    BY <1>1, <1>2, <1>6
  <2>3. ControlTypes'
    BY <2>1, <2>2 DEF ControlTypes
  <2>4. \A r \in Syncs : sync'[r].at # "idle" => sync'[r].trail \in Trails
    BY <1>5, <2>1 DEF OneCommandEach
  <2>5. ASSUME NEW n \in DOMAIN commands', commands'[n].sync # NoSync
        PROVE  /\ sync'[commands'[n].sync].at \in {"publishing", "finalizing"}
               /\ \A k \in DOMAIN commands' : commands'[k].sync = commands'[n].sync => k = n
    <3>1. CASE n = Len(commands) + 1
      <4>1. commands'[n].sync = s
        BY <2>2, <3>1
      <4>2. \A k \in DOMAIN commands' : k # n => k \in DOMAIN commands
        BY <1>2, <2>2, <3>1
      <4> QED BY <1>4, <2>1, <2>2, <4>1, <4>2
    <3>2. CASE n # Len(commands) + 1
      <4>1. n \in DOMAIN commands /\ commands'[n] = commands[n]
        BY <1>2, <2>2, <3>2
      <4>2. commands[n].sync \in Syncs \ {s}
        BY <1>2, <1>4, <2>5, <4>1 DEF Command
      <4>3. \A k \in DOMAIN commands' :
               (k \in DOMAIN commands /\ commands'[k] = commands[k]) \/ commands'[k].sync = s
        BY <1>2, <2>2
      <4> QED BY <2>1, <2>5, <4>1, <4>2, <4>3 DEF OneCommandEach
    <3> QED BY <3>1, <3>2
  <2> QED BY <2>3, <2>4, <2>5 DEF OneCommandEach
<1>7. CASE sync' = [sync EXCEPT ![s] = Idle] /\ commands' = commands
  <2>1. /\ sync' \in [Syncs -> SyncRecord]
        /\ \A r \in Syncs \ {s} : sync'[r] = sync[r]
        /\ sync'[s].at = "idle"
    BY <1>1, <1>7 DEF SyncRecord, Stages, Idle
  <2>2. ControlTypes'
    BY <1>7, <2>1 DEF ControlTypes
  <2>3. \A n \in DOMAIN commands : commands[n].sync # NoSync => commands[n].sync \in Syncs \ {s}
    BY <1>2, <1>4 DEF Command
  <2> QED BY <1>7, <2>1, <2>2, <2>3 DEF OneCommandEach
<1> QED BY <1>6, <1>7 DEF Submit

\* A synchronization that waits for no answer may move on its own.
LEMMA OwnControl ==
    ASSUME ControlOK, UNCHANGED <<commands, phase, clock>>, NEW s \in Syncs,
           sync[s].at \notin {"publishing", "finalizing"},
           NEW r \in SyncRecord, r.at # "idle" => r.trail \in Trails,
           sync' = [sync EXCEPT ![s] = r]
    PROVE  ControlOK'
<1> USE DEF ControlOK
<1>1. /\ sync \in [Syncs -> SyncRecord]
      /\ \A n \in DOMAIN commands : commands[n] \in Command
  BY DEF ControlTypes
<1>2. /\ sync' \in [Syncs -> SyncRecord]
      /\ \A q \in Syncs \ {s} : sync'[q] = sync[q]
      /\ sync'[s] = r
  BY <1>1
<1>3. ControlTypes'
  BY <1>2 DEF ControlTypes
<1>4. \A n \in DOMAIN commands : commands[n].sync # NoSync => commands[n].sync \in Syncs \ {s}
  BY <1>1 DEF Command, OneCommandEach
<1> QED BY <1>2, <1>3, <1>4 DEF OneCommandEach

\* One that gives up leaves its command to nobody.
LEMMA GiveUpControl ==
    ASSUME ControlOK, NEW s \in Syncs, GiveUp(s)
    PROVE  ControlOK'
<1> USE DEF ControlOK
<1>1. /\ sync \in [Syncs -> SyncRecord]
      /\ commands \in Seq(Command) /\ Len(commands) <= WriterCap
  BY DEF ControlTypes
<1>2. /\ sync' = [sync EXCEPT ![s] = Idle]
      /\ commands' = [n \in DOMAIN commands |->
                        IF commands[n].sync = s
                        THEN [commands[n] EXCEPT !.sync = NoSync] ELSE commands[n]]
      /\ phase' = phase /\ clock' = clock
  BY DEF GiveUp
<1>3. /\ \A n \in DOMAIN commands : commands[n] \in Command
      /\ DOMAIN commands = 1 .. Len(commands) /\ Len(commands) \in Nat
  BY <1>1
<1>4. /\ DOMAIN commands' = DOMAIN commands
      /\ \A n \in DOMAIN commands :
            /\ commands'[n] \in Command
            /\ commands[n].sync = s => commands'[n].sync = NoSync
            /\ commands[n].sync # s => commands'[n] = commands[n]
  BY <1>2, <1>3 DEF Command
<1>5. commands' \in Seq(Command) /\ Len(commands') = Len(commands)
  BY <1>2, <1>3, <1>4
<1>6. /\ sync' \in [Syncs -> SyncRecord]
      /\ \A q \in Syncs \ {s} : sync'[q] = sync[q]
      /\ sync'[s].at = "idle"
  BY <1>1, <1>2 DEF SyncRecord, Stages, Idle
<1>7. ControlTypes'
  BY <1>1, <1>2, <1>5, <1>6 DEF ControlTypes
<1>8. ASSUME NEW n \in DOMAIN commands', commands'[n].sync # NoSync
      PROVE  /\ sync'[commands'[n].sync].at \in {"publishing", "finalizing"}
             /\ \A m \in DOMAIN commands' : commands'[m].sync = commands'[n].sync => m = n
  <2>1. /\ n \in DOMAIN commands /\ commands'[n] = commands[n]
        /\ commands[n].sync # s /\ commands[n].sync # NoSync
    BY <1>4, <1>8
  <2>2. commands[n].sync \in Syncs \ {s}
    BY <1>3, <2>1 DEF Command
  <2>3. \A m \in DOMAIN commands' :
           commands'[m].sync = commands'[n].sync => commands[m].sync = commands[n].sync
    BY <1>4, <1>8, <2>1
  <2> QED BY <1>4, <1>6, <2>1, <2>2, <2>3 DEF OneCommandEach
<1> QED BY <1>6, <1>7, <1>8 DEF OneCommandEach

-----------------------------------------------------------------------------
(* The steps *)

LEMMA InitHolds == Init => IInv
<1> SUFFICES ASSUME Init PROVE IInv
  OBVIOUS
<1> USE CacheAssumption DEF CacheAssumption, Init
<1>1. StoreOK
  BY DEF StoreOK, StoreTypes, ForeignKeys, RetainedComplete
<1>2. ControlOK
  <2>1. Idle \in SyncRecord /\ Idle.at = "idle"
    BY DEF Idle, SyncRecord, Stages
  <2>2. <<>> \in Seq(Command) /\ Len(<<>>) = 0 /\ DOMAIN <<>> = {}
    OBVIOUS
  <2> QED BY <2>1, <2>2 DEF ControlOK, ControlTypes, OneCommandEach
<1> QED BY <1>1, <1>2, Halves

LEMMA SyncHolds ==
    ASSUME IInv, NEW s \in Syncs, SyncStep(s)
    PROVE  IInv'
<1>1. StoreOK /\ ControlOK
  BY Halves
<1>2. UNCHANGED store
  BY DEF SyncStep, Begin, Publish, Finalize, GiveUp, ReadEntries, ReadRelationships, Respond
<1>3. StoreOK'
  BY <1>1, <1>2, SameStore
<1>4. sync \in [Syncs -> SyncRecord] /\ sync[s] \in SyncRecord /\ clock \in 0..MaxClock
  BY <1>1 DEF ControlOK, ControlTypes
<1>5. sync[s].at # "idle" => sync[s].trail \in Trails
  BY <1>1 DEF ControlOK, OneCommandEach
<1>6. ASSUME NEW t \in Trails, NEW b \in Branches \cup {NoBranch}, Begin(s, t, b)
      PROVE  ControlOK'
  <2>1. PICK r : r = [Idle EXCEPT !.at = IF t \in trails THEN "published" ELSE "collecting",
                                  !.trail = t, !.branch = b]
    OBVIOUS
  <2>2. r \in SyncRecord /\ r.trail \in Trails
    BY <2>1 DEF SyncRecord, Stages, Idle
  <2>3. sync' = [sync EXCEPT ![s] = r]
    BY <1>6, <2>1 DEF Begin
  <2> QED BY <1>1, <1>6, <2>2, <2>3, OwnControl DEF Begin
<1>7. ASSUME Publish(s) PROVE ControlOK'
  <2>1. PICK m : m = [kind |-> "publish", sync |-> s, trail |-> sync[s].trail,
                      branch |-> NoBranch, now |-> 0]
    OBVIOUS
  <2>2. m \in Command /\ m.sync = s
    BY <1>5, <1>7, <2>1, CacheAssumption DEF Command, CacheAssumption, Publish
  <2> QED BY <1>1, <1>7, <2>1, <2>2, SubmitControl DEF Publish
<1>8. ASSUME Finalize(s) PROVE ControlOK'
  <2>1. PICK m : m = [kind |-> "finalize", sync |-> s, trail |-> sync[s].trail,
                      branch |-> sync[s].branch, now |-> clock]
    OBVIOUS
  <2>2. m \in Command /\ m.sync = s
    BY <1>4, <1>5, <1>8, <2>1 DEF Command, SyncRecord, Finalize
  <2> QED BY <1>1, <1>8, <2>1, <2>2, SubmitControl DEF Finalize
<1>9. ASSUME GiveUp(s) PROVE ControlOK'
  BY <1>1, <1>9, GiveUpControl
<1>10. ASSUME ReadEntries(s) PROVE ControlOK'
  <2>1. PICK r : r = [sync[s] EXCEPT !.at = "reading", !.over = FALSE,
                                     !.read = member[sync[s].trail]]
    OBVIOUS
  <2>2. sync[s].trail \in Trails /\ member[sync[s].trail] \in SUBSET Commits
    BY <1>1, <1>5, <1>10 DEF ReadEntries, StoreOK, StoreTypes
  <2>3. r \in SyncRecord /\ r.trail \in Trails
    BY <1>4, <2>1, <2>2 DEF SyncRecord, Stages
  <2>4. sync' = [sync EXCEPT ![s] = r]
    BY <1>4, <1>10, <2>1 DEF ReadEntries
  <2> QED BY <1>1, <1>10, <2>3, <2>4, OwnControl DEF ReadEntries
<1>11. ASSUME ReadRelationships(s) PROVE ControlOK'
  <2>1. PICK r : r = [sync[s] EXCEPT !.at = "done"]
    OBVIOUS
  <2>2. r \in SyncRecord /\ r.trail \in Trails
    BY <1>4, <1>5, <1>11, <2>1 DEF SyncRecord, Stages, ReadRelationships
  <2>3. sync' = [sync EXCEPT ![s] = r]
    BY <1>4, <1>11, <2>1 DEF ReadRelationships, Goto
  <2> QED BY <1>1, <1>11, <2>2, <2>3, OwnControl DEF ReadRelationships
<1>12. ASSUME Respond(s) PROVE ControlOK'
  <2>1. Idle \in SyncRecord /\ Idle.at = "idle"
    BY DEF Idle, SyncRecord, Stages
  <2> QED BY <1>1, <1>12, <2>1, OwnControl DEF Respond
<1>13. ControlOK'
  BY <1>6, <1>7, <1>8, <1>9, <1>10, <1>11, <1>12 DEF SyncStep
<1> QED BY <1>3, <1>13, HalvesNext

\* Between its transactions the writer keeps its command.
LEMMA PhaseControl ==
    ASSUME ControlOK, UNCHANGED <<sync, commands, clock>>,
           phase' \in {"ready", "trails", "commits"}
    PROVE  ControlOK'
BY DEF ControlOK, ControlTypes, OneCommandEach

LEMMA WriterHolds ==
    ASSUME IInv, WriterStep
    PROVE  IInv'
<1>1. StoreOK /\ ControlOK
  BY Halves
<1>2. ASSUME WriterPublishes PROVE IInv'
  <2>1. commands # <<>> /\ commands' = Tail(commands)
    BY <1>2 DEF WriterPublishes, Done
  <2>2. PICK t : t = Head(commands).trail
    OBVIOUS
  <2>3. t \in Trails
    BY <1>1, <2>1, <2>2, TakeCommand DEF Command
  <2>4. StoreOK'
    BY <1>1, <1>2, <2>2, <2>3, PublishStore DEF WriterPublishes
  <2>5. ControlOK'
    BY <1>1, <1>2, AnswerControl DEF WriterPublishes
  <2> QED BY <2>4, <2>5, HalvesNext
<1>3. ASSUME WriterFails PROVE IInv'
  <2>1. StoreOK'
    BY <1>1, <1>3, SameStore DEF WriterFails
  <2>2. ControlOK'
    BY <1>1, <1>3, AnswerControl DEF WriterFails
  <2> QED BY <2>1, <2>2, HalvesNext
<1>4. ASSUME WriterAliases PROVE IInv'
  <2>1. StoreOK'
    BY <1>1, <1>4, AliasStore
  <2>2. ControlOK'
    BY <1>1, <1>4, PhaseControl DEF WriterAliases
  <2> QED BY <2>1, <2>2, HalvesNext
<1>5. ASSUME WriterEvictsTrails PROVE IInv'
  <2>1. StoreOK'
    BY <1>1, <1>5, EvictTrailsStore
  <2>2. ControlOK'
    BY <1>1, <1>5, PhaseControl DEF WriterEvictsTrails
  <2> QED BY <2>1, <2>2, HalvesNext
<1>6. ASSUME WriterEvictsCommits PROVE IInv'
  <2>1. StoreOK'
    BY <1>1, <1>6, EvictCommitsStore
  <2>2. PICK over \in BOOLEAN : over = OverCapacity(CommitVictims(Head(commands).now))
    BY DEF OverCapacity
  <2>3. Answer(Head(commands), "finalized", over)
    BY <1>6, <2>2 DEF WriterEvictsCommits
  <2>4. commands # <<>> /\ Done /\ UNCHANGED clock
    BY <1>6 DEF WriterEvictsCommits, Finalizing
  <2>5. ControlOK'
    BY <1>1, <2>3, <2>4, AnswerControl
  <2> QED BY <2>1, <2>5, HalvesNext
<1> QED BY <1>2, <1>3, <1>4, <1>5, <1>6 DEF WriterStep

\* A crash leaves the store, which is complete between any two transactions.
LEMMA RestartHolds ==
    ASSUME IInv, Restart
    PROVE  IInv'
<1>1. StoreOK /\ ControlOK
  BY Halves
<1>2. StoreOK'
  BY <1>1, SameStore DEF Restart
<1>3. Idle \in SyncRecord /\ Idle.at = "idle"
  BY DEF Idle, SyncRecord, Stages
<1>4. <<>> \in Seq(Command) /\ Len(<<>>) = 0 /\ DOMAIN <<>> = {}
  OBVIOUS
<1>5. WriterCap \in Nat
  BY CacheAssumption DEF CacheAssumption
<1>6. ControlOK'
  BY <1>1, <1>3, <1>4, <1>5 DEF Restart, ControlOK, ControlTypes, OneCommandEach
<1> QED BY <1>2, <1>6, HalvesNext

LEMMA TickHolds ==
    ASSUME IInv, Tick
    PROVE  IInv'
<1>1. StoreOK /\ ControlOK
  BY Halves
<1>2. StoreOK'
  BY <1>1, SameStore DEF Tick
<1>3. MaxClock \in Nat
  BY CacheAssumption DEF CacheAssumption
<1>4. ControlOK'
  BY <1>1, <1>3 DEF Tick, ControlOK, ControlTypes, OneCommandEach
<1> QED BY <1>2, <1>4, HalvesNext

LEMMA StepHolds == IInv /\ [Next]_vars => IInv'
<1> SUFFICES ASSUME IInv, [Next]_vars PROVE IInv'
  OBVIOUS
<1>1. CASE \E s \in Syncs : SyncStep(s)
  BY <1>1, SyncHolds
<1>2. CASE WriterStep
  BY <1>2, WriterHolds
<1>3. CASE Restart
  BY <1>3, RestartHolds
<1>4. CASE Tick
  BY <1>4, TickHolds
<1>5. CASE UNCHANGED vars
  <2>1. StoreOK /\ ControlOK
    BY Halves
  <2>2. StoreOK' /\ ControlOK'
    BY <1>5, <2>1, SameStore, SameControl DEF vars, store
  <2> QED BY <2>2, HalvesNext
<1> QED BY <1>1, <1>2, <1>3, <1>4, <1>5 DEF Next

-----------------------------------------------------------------------------
(* What holds in every state, and of every step *)

\* IInv is an invariant, for any number of synchronizations, trails and commits:
\* it holds at first and every step keeps it.
THEOREM InductiveInvariant == Spec => []IInv
BY InitHolds, StepHolds, PTL DEF Spec

\* Every variable of the cache keeps its type; the queue of the writer stays
\* within its bound.
THEOREM TypeCorrect == Spec => []TypeOK
<1>1. IInv => TypeOK
  BY DEF IInv
<1> QED BY <1>1, InductiveInvariant, PTL

\* A trail that publish_trail wrote keeps all it selects until evict_trails
\* takes it: no eviction of others, no publication and no crash between the
\* transactions of finalize_store changes it.
THEOREM RetainedTrailsComplete == Spec => []RetainedComplete
<1>1. IInv => RetainedComplete
  BY DEF IInv
<1> QED BY <1>1, InductiveInvariant, PTL

\* evict_trails would delete the alias of a trail it evicts, by the foreign
\* key.  It evicts no trail with an alias, so no branch loses its own.
LEMMA AliasStep ==
    ASSUME IInv, [Next]_vars, NEW b \in Branches, alias[b] # NoTrail
    PROVE  alias'[b] # NoTrail /\ alias'[b] \in trails'
<1>1. StoreOK /\ ControlOK
  BY Halves
<1>2. /\ alias[b] \in trails /\ alias[b] \in Trails
      /\ trails \subseteq Trails /\ NoTrail \notin Trails
      /\ alias \in [Branches -> Trails \cup {NoTrail}]
  BY <1>1, CacheAssumption DEF StoreOK, StoreTypes, ForeignKeys, CacheAssumption
<1>3. ASSUME WriterAliases PROVE alias'[b] # NoTrail /\ alias'[b] \in trails'
  <2>1. PICK m : m = Head(commands)
    OBVIOUS
  <2>2. /\ m.branch # NoBranch => m.trail \in trails
        /\ alias' = IF m.branch = NoBranch THEN alias ELSE [alias EXCEPT ![m.branch] = m.trail]
        /\ trails' = trails
    BY <1>3, <2>1 DEF WriterAliases
  <2> QED BY <1>2, <2>2
<1>4. ASSUME WriterEvictsTrails PROVE alias'[b] # NoTrail /\ alias'[b] \in trails'
  <2>1. PICK victims : victims = TrailVictims(Head(commands))
    OBVIOUS
  <2>2. \A t \in victims : ~Referenced(t)
    BY <2>1 DEF TrailVictims, Evictable
  <2>3. /\ trails' = trails \ victims
        /\ alias' = [a \in Branches |-> IF alias[a] \in victims THEN NoTrail ELSE alias[a]]
    BY <1>4, <2>1 DEF WriterEvictsTrails
  <2> QED BY <1>2, <2>2, <2>3 DEF Referenced
<1>5. ASSUME WriterPublishes PROVE alias'[b] # NoTrail /\ alias'[b] \in trails'
  BY <1>2, <1>5 DEF WriterPublishes, InsertTrail
<1>6. ASSUME UNCHANGED <<trails, alias>> PROVE alias'[b] # NoTrail /\ alias'[b] \in trails'
  BY <1>2, <1>6
<1>7. \/ WriterAliases \/ WriterEvictsTrails \/ WriterPublishes
      \/ UNCHANGED <<trails, alias>>
  <2>1. ASSUME NEW s \in Syncs, SyncStep(s) PROVE UNCHANGED <<trails, alias>>
    BY <2>1 DEF SyncStep, Begin, Publish, Finalize, GiveUp, ReadEntries,
                ReadRelationships, Respond, store
  <2>2. WriterFails \/ WriterEvictsCommits \/ Restart \/ Tick \/ UNCHANGED vars
           => UNCHANGED <<trails, alias>>
    BY DEF WriterFails, WriterEvictsCommits, Restart, Tick, vars, store
  <2> QED BY <2>1, <2>2 DEF Next, WriterStep
<1> QED BY <1>3, <1>4, <1>5, <1>6, <1>7

\* Once a branch is resolved it has an alias to a trail that is there, through
\* every eviction of finalize_store.
THEOREM AliasesAreKept == Spec => AliasesKept
<1>1. IInv /\ [Next]_vars =>
        [\A b \in Branches : alias[b] # NoTrail =>
            alias'[b] # NoTrail /\ alias'[b] \in trails']_vars
  BY AliasStep
<1> QED BY <1>1, InductiveInvariant, PTL DEF Spec, AliasesKept

-----------------------------------------------------------------------------
(* Entries *)

\* What MapThenSumSet leaves when its function is opened.
LEMMA EntriesSum ==
    ASSUME NEW g \in [SUBSET Commits -> Nat], Sums(g, Entries, Commits), NEW C \in SUBSET Commits
    PROVE  EntriesOf(C) = g[C]
<1> DEFINE iter[s \in SUBSET C] ==
             IF s = {} THEN 0
             ELSE LET x == CHOOSE x \in s : TRUE IN Entries[x] + iter[s \ {x}]
<1>1. EntriesOf(C) = iter[C]
  BY DEF EntriesOf, MapThenSumSet, MapThenFoldSet
<1> DEFINE Step(h) == [s \in SUBSET C |-> SumOver(Entries, h, s)]
<1>2. iter = CHOOSE h : h = Step(h)
  BY DEF SumOver
<1> HIDE DEF iter
<1>3. \E h : h = Step(h)
  <2> DEFINE h == [s \in SUBSET C |-> g[s]]
  <2>1. h = Step(h)
    BY DEF Sums, SumOver
  <2> QED
    BY <2>1
<1>4. iter = Step(iter)
  BY <1>2, <1>3
<1> HIDE DEF Step
<1> DEFINE Good == {s \in SUBSET C : iter[s] = g[s]}
<1>5. IsFiniteSet(C)
  BY CacheAssumption, FS_Subset
<1>6. ASSUME NEW s \in SUBSET C, \A x \in s : s \ {x} \in Good
      PROVE  s \in Good
  <2>1. iter[s] = SumOver(Entries, iter, s)
    BY <1>4 DEF Step
  <2>2. g[s] = SumOver(Entries, g, s)
    BY DEF Sums
  <2> QED
    BY <1>6, <2>1, <2>2 DEF SumOver
<1> HIDE DEF Good
<1>7. SUBSET C \subseteq Good
  BY <1>5, <1>6, SubsetInduction
<1> QED
  BY <1>1, <1>7 DEF Good

LEMMA TrailSum ==
    ASSUME NEW T, IsFiniteSet(T), NEW w \in [T -> Nat],
           \A t \in T : w[t] = EntriesOf(member[t]),
           NEW g \in [SUBSET T -> Nat], Sums(g, w, T), NEW S \in SUBSET T
    PROVE  TrailEntries(S) = g[S]
<1> DEFINE iter[s \in SUBSET S] ==
             IF s = {} THEN 0
             ELSE LET x == CHOOSE x \in s : TRUE IN EntriesOf(member[x]) + iter[s \ {x}]
<1>1. TrailEntries(S) = iter[S]
  BY DEF TrailEntries, MapThenSumSet, MapThenFoldSet
<1> DEFINE Step(h) == [s \in SUBSET S |->
             IF s = {} THEN 0
             ELSE LET x == CHOOSE x \in s : TRUE IN EntriesOf(member[x]) + h[s \ {x}]]
<1>2. iter = CHOOSE h : h = Step(h)
  OBVIOUS
<1> HIDE DEF iter
<1>3. \E h : h = Step(h)
  <2> DEFINE h == [s \in SUBSET S |-> g[s]]
  <2>1. h = Step(h)
    BY DEF Sums, SumOver
  <2> QED
    BY <2>1
<1>4. iter = Step(iter)
  BY <1>2, <1>3
<1> DEFINE Good == {s \in SUBSET S : iter[s] = g[s]}
<1>5. IsFiniteSet(S)
  BY FS_Subset
<1>6. ASSUME NEW s \in SUBSET S, \A x \in s : s \ {x} \in Good
      PROVE  s \in Good
  <2>1. iter[s] = IF s = {} THEN 0
             ELSE LET x == CHOOSE x \in s : TRUE IN EntriesOf(member[x]) + iter[s \ {x}]
    BY <1>4
  <2>2. g[s] = SumOver(w, g, s)
    BY DEF Sums
  <2> QED
    BY <1>6, <2>1, <2>2 DEF SumOver
<1> HIDE DEF Good
<1>7. SUBSET S \subseteq Good
  BY <1>5, <1>6, SubsetInduction
<1> QED
  BY <1>1, <1>7 DEF Good

\* Greater sets of trails have no fewer entries, whatever the trails share.
LEMMA EntriesGrow ==
    ASSUME IInv, NEW T, IsFiniteSet(T), T \subseteq Trails,
           NEW S \in SUBSET T
    PROVE  /\ TrailEntries(S) \in Nat /\ TrailEntries(T) \in Nat
           /\ TrailEntries(S) <= TrailEntries(T)
<1>1. PICK e \in [SUBSET Commits -> Nat] : Sums(e, Entries, Commits)
  BY CacheAssumption, SumsExist
<1>2. member \in [Trails -> SUBSET Commits]
  BY DEF IInv, TypeOK
<1> DEFINE w == [t \in T |-> EntriesOf(member[t])]
<1>3. w \in [T -> Nat]
  <2>1. \A C \in SUBSET Commits : EntriesOf(C) = e[C]
    BY <1>1, EntriesSum
  <2> QED
    BY <1>2, <2>1
<1>4. \A t \in T : w[t] = EntriesOf(member[t])
  OBVIOUS
<1> HIDE DEF w
<1>5. PICK g \in [SUBSET T -> Nat] : Sums(g, w, T)
  BY <1>3, SumsExist
<1>6. TrailEntries(S) = g[S] /\ TrailEntries(T) = g[T]
  BY <1>3, <1>4, <1>5, TrailSum
<1>7. Grows(g, T)
  BY <1>3, <1>5, SumsMonotone
<1> QED
  BY <1>5, <1>6, <1>7 DEF Grows

LEMMA SourceTimes == \A t \in Trails : SourceTime(t) \in Nat
<1> SUFFICES ASSUME NEW t \in Trails PROVE SourceTime(t) \in Nat
  OBVIOUS
<1> DEFINE times == {CommitTime[c] : c \in Selected[t]}
<1>1. times \in SUBSET Nat /\ IsFiniteSet(Selected[t])
  BY CacheAssumption, FS_Subset
<1>2. IsFiniteSet(times)
  <2>1. [c \in Selected[t] |-> CommitTime[c]] \in Surjection(Selected[t], times)
    BY DEF Surjection
  <2> HIDE DEF times
  <2> QED
    BY <1>1, <2>1, FS_Surjection
<1>3. CASE Selected[t] # {}
  <2>1. times # {}
    BY <1>3
  <2> HIDE DEF times
  <2>2. \E n \in times : \A m \in times : n >= m
    BY <1>1, <1>2, <2>1, Greatest
  <2>3. Max(times) \in times
    BY <2>2 DEF Max
  <2> QED
    BY <1>1, <1>3, <2>3 DEF SourceTime, times
<1> QED
  BY <1>3 DEF SourceTime
-----------------------------------------------------------------------------
(* What finalize_store evicts *)

\* The trails are finite in number, and a command was sent at an earlier time.
Past == /\ IsFiniteSet(trails)
        /\ \A n \in DOMAIN commands : commands[n].now <= clock

LEMMA PastStep ==
    ASSUME IInv, Past, [Next]_vars
    PROVE  Past'
<1>1. /\ commands \in Seq(Command) /\ clock \in 0..MaxClock /\ MaxClock \in Nat
      /\ \A n \in DOMAIN commands : commands[n].now \in 0..MaxClock
  <2>1. commands \in Seq(Command) /\ clock \in 0..MaxClock /\ MaxClock \in Nat
    BY CacheAssumption DEF IInv, TypeOK
  <2>2. \A n \in DOMAIN commands : commands[n] \in Command
    BY <2>1
  <2> QED
    BY <2>1, <2>2 DEF Command
<1>2. IsFiniteSet(trails')
  <2>1. CASE WriterPublishes
    <3>1. trails' = trails \cup {Head(commands).trail}
      BY <2>1 DEF WriterPublishes, InsertTrail
    <3> QED
      BY <3>1, FS_AddElement DEF Past
  <2>2. CASE WriterEvictsTrails
    <3>1. trails' \in SUBSET trails
      BY <2>2 DEF WriterEvictsTrails
    <3> QED
      BY <3>1, FS_Subset DEF Past
  <2>3. WriterPublishes \/ WriterEvictsTrails \/ UNCHANGED trails
    <3>1. ASSUME NEW s \in Syncs, SyncStep(s) PROVE UNCHANGED trails
      BY <3>1 DEF SyncStep, Begin, Publish, Finalize, GiveUp, ReadEntries,
                  ReadRelationships, Respond, store
    <3> QED
      BY <3>1 DEF Next, WriterStep, WriterFails, WriterAliases, WriterEvictsCommits,
                  Restart, Tick, vars, store
  <2> QED
    BY <2>1, <2>2, <2>3 DEF Past
<1>3. clock' \in Nat /\ clock <= clock'
  <2>1. ASSUME NEW s \in Syncs, SyncStep(s) PROVE UNCHANGED clock
    BY <2>1 DEF SyncStep, Begin, Publish, Finalize, GiveUp, ReadEntries,
                ReadRelationships, Respond
  <2>2. \/ UNCHANGED clock \/ clock' = clock + 1
    BY <2>1 DEF Next, WriterStep, WriterPublishes, WriterFails, WriterAliases,
                WriterEvictsTrails, WriterEvictsCommits, Restart, Tick, vars
  <2> QED
    BY <1>1, <2>2
<1>4. ASSUME NEW n \in DOMAIN commands' PROVE commands'[n].now <= clock'
  <2>1. CASE \E s \in Syncs, at \in Stages, m \in Command :
                m.now <= clock /\ Submit(s, at, m)
    <3>1. PICK m \in Command : /\ m.now <= clock
                               /\ commands' = Append(commands, m) \/ commands' = commands
      BY <2>1 DEF Submit
    <3>2. commands'[n] = m \/ (n \in DOMAIN commands /\ commands'[n] = commands[n])
      BY <1>1, <3>1
    <3>3. commands'[n].now <= clock /\ commands'[n].now \in Nat
      BY <1>1, <3>1, <3>2 DEF Past, Command
    <3> QED
      BY <1>1, <1>3, <3>3
  <2>2. CASE Done /\ commands # <<>>
    <3>1. n + 1 \in DOMAIN commands /\ commands'[n] = commands[n + 1]
      BY <1>1, <2>2, HeadTailProperties DEF Done
    <3>2. commands'[n].now <= clock /\ commands'[n].now \in Nat
      BY <1>1, <3>1 DEF Past
    <3> QED
      BY <1>1, <1>3, <3>2
  <2>3. CASE \E s \in Syncs : GiveUp(s)
    <3>1. n \in DOMAIN commands /\ commands'[n].now = commands[n].now
      <4>1. \A i \in DOMAIN commands : commands[i] \in Command
        BY <1>1
      <4> QED
        BY <2>3, <4>1 DEF GiveUp, Command
    <3>2. commands'[n].now <= clock /\ commands'[n].now \in Nat
      BY <1>1, <3>1 DEF Past
    <3> QED
      BY <1>1, <1>3, <3>2
  <2>4. CASE UNCHANGED commands
    <3>1. commands'[n].now <= clock /\ commands'[n].now \in Nat
      BY <1>1, <2>4 DEF Past
    <3> QED
      BY <1>1, <1>3, <3>1
  <2>5. CASE commands' = <<>>
    BY <2>5
  <2>6. ASSUME NEW s \in Syncs, Publish(s) \/ Finalize(s)
        PROVE  \E at \in Stages, m \in Command : m.now <= clock /\ Submit(s, at, m)
    <3>1. /\ sync[s].trail \in Trails
          /\ sync[s].branch \in Branches \cup {NoBranch}
      BY <2>6 DEF Publish, Finalize, IInv, TypeOK, OneCommandEach
    <3>2. CASE Publish(s)
      <4> DEFINE m == [kind |-> "publish", sync |-> s, trail |-> sync[s].trail,
                       branch |-> NoBranch, now |-> 0]
      <4>1. m \in Command /\ m.now <= clock
        BY <1>1, <3>1 DEF Command
      <4>2. Submit(s, "publishing", m)
        BY <3>2 DEF Publish
      <4> QED
        BY <4>1, <4>2 DEF Stages
    <3>3. CASE Finalize(s)
      <4> DEFINE m == [kind |-> "finalize", sync |-> s, trail |-> sync[s].trail,
                       branch |-> sync[s].branch, now |-> clock]
      <4>1. m \in Command /\ m.now <= clock
        BY <1>1, <3>1 DEF Command
      <4>2. Submit(s, "finalizing", m)
        BY <3>3 DEF Finalize
      <4> QED
        BY <4>1, <4>2 DEF Stages
    <3> QED
      BY <2>6, <3>2, <3>3
  <2>7. ASSUME NEW s \in Syncs, SyncStep(s)
        PROVE  Publish(s) \/ Finalize(s) \/ GiveUp(s) \/ UNCHANGED commands
    BY <2>7 DEF SyncStep, Begin, ReadEntries, ReadRelationships, Respond
  <2>8. WriterStep => (Done /\ commands # <<>>) \/ UNCHANGED commands
    BY DEF WriterStep, WriterPublishes, WriterFails, WriterAliases,
           WriterEvictsTrails, WriterEvictsCommits, Finalizing
  <2>9. Restart \/ Tick \/ UNCHANGED vars => commands' = <<>> \/ UNCHANGED commands
    BY DEF Restart, Tick, vars
  <2> QED
    BY <2>1, <2>2, <2>3, <2>4, <2>5, <2>6, <2>7, <2>8, <2>9 DEF Next
<1> QED
  BY <1>2, <1>4 DEF Past

LEMMA PastInvariant == Spec => []Past
<1>1. Init => Past
  <2>1. Init => commands = <<>> /\ trails = {}
    BY DEF Init
  <2> QED
    BY <2>1, FS_EmptySet DEF Past
<1>2. IInv /\ Past /\ [Next]_vars => Past'
  BY PastStep
<1> QED
  BY <1>1, <1>2, InductiveInvariant, PTL DEF Spec

\* Which step takes trails and which takes commits, and which they take.
LEMMA WhoEvicts ==
    ASSUME [Next]_vars
    PROVE  /\ WriterEvictsTrails \/ trails \subseteq trails'
           /\ WriterEvictsCommits \/ commits \subseteq commits'
<1>1. ASSUME NEW s \in Syncs, SyncStep(s) PROVE UNCHANGED <<trails, commits>>
  BY <1>1 DEF SyncStep, Begin, Publish, Finalize, GiveUp, ReadEntries,
              ReadRelationships, Respond, store
<1> QED
  BY <1>1 DEF Next, WriterStep, WriterPublishes, InsertTrail, WriterFails, WriterAliases,
              WriterEvictsTrails, WriterEvictsCommits, Restart, Tick, vars, store

LEMMA OneLater ==
    ASSUME IInv, Past, Finalizing
    PROVE  /\ \A time \in Nat : ~Recent(time, Head(commands).now) => ~Recent(time, clock)
           /\ Head(commands).now \in Nat
<1>1. /\ commands \in Seq(Command) /\ clock \in Nat /\ commands # <<>> /\ Protect \in Nat
  BY CacheAssumption DEF IInv, TypeOK, Finalizing
<1>2. /\ Head(commands) \in Command /\ Head(commands) = commands[1] /\ 1 \in DOMAIN commands
  BY <1>1, HeadTailProperties
<1>3. Head(commands).now \in Nat /\ Head(commands).now <= clock
  BY <1>1, <1>2, CacheAssumption DEF Command, Past
<1> QED
  BY <1>1, <1>3 DEF Recent

\* finalize_store protects by the clock of the request, which is no later than
\* the clock that has gone on while the command waited.
LEMMA RecentStep ==
    ASSUME IInv, Past, [Next]_vars
    PROVE  /\ \A t \in trails \ trails' : ~Recent(SourceTime(t), clock)
           /\ \A c \in commits \ commits' : ~Recent(CommitTime[c], clock)
<1>1. ASSUME NEW t \in trails \ trails' PROVE ~Recent(SourceTime(t), clock)
  <2>1. WriterEvictsTrails
    BY <1>1, WhoEvicts
  <2>2. t \in TrailVictims(Head(commands)) /\ Finalizing
    BY <1>1, <2>1 DEF WriterEvictsTrails
  <2>3. ~Recent(SourceTime(t), Head(commands).now) /\ SourceTime(t) \in Nat
    BY <2>2, SourceTimes DEF TrailVictims, Evictable, IInv, TypeOK
  <2> QED
    BY <2>2, <2>3, OneLater
<1>2. ASSUME NEW c \in commits \ commits' PROVE ~Recent(CommitTime[c], clock)
  <2>1. WriterEvictsCommits
    BY <1>2, WhoEvicts
  <2>2. c \in CommitVictims(Head(commands).now) /\ Finalizing
    BY <1>2, <2>1 DEF WriterEvictsCommits
  <2>3. ~Recent(CommitTime[c], Head(commands).now) /\ CommitTime[c] \in Nat
    BY <2>2, CacheAssumption DEF CommitVictims, IInv, TypeOK
  <2> QED
    BY <2>2, <2>3, OneLater
<1> QED
  BY <1>1, <1>2

\* Nothing recent is evicted, though the clock was read before the request
\* waited for the writer (finalize_store, select_trail_evictions).
THEOREM RecentIsKept == Spec => RecentKept
<1>1. IInv /\ Past /\ [Next]_vars =>
        [/\ \A t \in trails \ trails' : ~Recent(SourceTime(t), clock)
         /\ \A c \in commits \ commits' : ~Recent(CommitTime[c], clock)]_vars
  BY RecentStep
<1> QED
  BY <1>1, InductiveInvariant, PastInvariant, PTL DEF Spec, RecentKept
\* Older is an order of the trails, whatever their times.
LEMMA OlderOrder ==
    \A t, u, v \in Trails :
        /\ u = t \/ Older(t, u) \/ Older(u, t)
        /\ Older(t, u) /\ Older(u, v) => Older(t, v)
<1>1. \A t \in Trails : t \in Nat /\ SourceTime(t) \in Nat
  BY CacheAssumption, SourceTimes
<1> QED
  BY <1>1 DEF Older

\* A victim that stayed would leave too much, because all that is not older
\* than it stays.  An older trail that stays was not eligible: if it were, then
\* what remained when its turn came was within the limit, and so was the less
\* that remained when the turn of the victim came.
LEMMA MinimalStep ==
    ASSUME IInv, Past, [Next]_vars, NEW t \in trails \ trails'
    PROVE  /\ TrailEntries(trails' \cup {u \in trails : u = t \/ Older(t, u)}) > MaxEntries
           /\ \A u \in trails' : Older(u, t) =>
                 \/ Referenced(u)
                 \/ Recent(SourceTime(u), Head(commands).now)
                 \/ u = Head(commands).trail
<1> DEFINE m == Head(commands)
           eligible == {u \in trails : Evictable(u, m)}
           Left(x) == trails \ {u \in eligible : Older(u, x)}
<1>1. WriterEvictsTrails /\ MaxEntries \in Nat
  BY WhoEvicts, CacheAssumption
<1>2. /\ trails \subseteq Trails /\ IsFiniteSet(trails)
      /\ trails' = trails \ TrailVictims(m)
  BY <1>1 DEF IInv, TypeOK, Past, WriterEvictsTrails
<1>3. t \in eligible /\ TrailEntries(Left(t)) > MaxEntries
  BY <1>2 DEF TrailVictims
<1>4. \A x \in eligible : TrailEntries(Left(x)) > MaxEntries => x \notin trails'
  BY <1>2 DEF TrailVictims
<1>5. \A S \in SUBSET trails : TrailEntries(S) \in Nat
  BY <1>2, EntriesGrow
<1>6. \A T \in SUBSET trails, S \in SUBSET trails :
         S \subseteq T /\ TrailEntries(S) > MaxEntries => TrailEntries(T) > MaxEntries
  <2> SUFFICES ASSUME NEW T \in SUBSET trails, NEW S \in SUBSET trails, S \subseteq T,
                      TrailEntries(S) > MaxEntries
               PROVE  TrailEntries(T) > MaxEntries
    OBVIOUS
  <2>1. IsFiniteSet(T) /\ T \subseteq Trails
    BY <1>2, FS_Subset
  <2>2. TrailEntries(S) \in Nat /\ TrailEntries(T) \in Nat /\ TrailEntries(S) <= TrailEntries(T)
    BY <2>1, EntriesGrow
  <2> QED
    BY <1>1, <2>2
<1> DEFINE stays == trails' \cup {u \in trails : u = t \/ Older(t, u)}
<1>7. Left(t) \subseteq stays /\ stays \in SUBSET trails /\ Left(t) \in SUBSET trails
  <2>1. \A u \in trails : u \in trails' \/ u \in eligible
    BY <1>2 DEF TrailVictims
  <2>2. \A u \in trails : u = t \/ Older(t, u) \/ Older(u, t)
    BY <1>2, OlderOrder
  <2> QED
    BY <1>2, <2>1, <2>2
<1>8. TrailEntries(stays) > MaxEntries
  BY <1>3, <1>6, <1>7
<1>9. ASSUME NEW u \in trails', Older(u, t) PROVE ~Evictable(u, m)
  <2>1. SUFFICES ASSUME u \in eligible PROVE FALSE
    BY <1>2
  <2>2. \A x \in trails : Older(x, u) => Older(x, t)
    BY <1>2, <1>9, OlderOrder
  <2>3. Left(t) \subseteq Left(u) /\ Left(t) \in SUBSET trails /\ Left(u) \in SUBSET trails
    BY <2>2
  <2> HIDE DEF Left
  <2>4. TrailEntries(Left(u)) > MaxEntries
    BY <1>3, <1>6, <2>3
  <2> QED
    BY <1>4, <2>1, <2>4
<1> QED
  BY <1>8, <1>9 DEF Evictable

\* select_trail_evictions takes the oldest it may, and no more than it has to.
THEOREM EvictionIsMinimal == Spec => EvictionMinimal
<1>1. IInv /\ Past /\ [Next]_vars =>
        [\A t \in trails \ trails' :
          /\ TrailEntries(trails' \cup {u \in trails : u = t \/ Older(t, u)}) > MaxEntries
          /\ \A u \in trails' : Older(u, t) =>
                \/ Referenced(u)
                \/ Recent(SourceTime(u), Head(commands).now)
                \/ u = Head(commands).trail]_vars
  BY MinimalStep
<1> QED
  BY <1>1, InductiveInvariant, PastInvariant, PTL DEF Spec, EvictionMinimal

\* Only an answer of the commit eviction says finalized.
LEMMA WhoFinalizes ==
    ASSUME IInv, [Next]_vars, NEW s \in Syncs,
           sync[s].at = "finalizing", sync'[s].at = "finalized"
    PROVE  WriterEvictsCommits
<1>1. sync \in [Syncs -> SyncRecord]
  BY DEF IInv, TypeOK, SyncRecord
<1>2. ASSUME NEW r \in Syncs, SyncStep(r) PROVE FALSE
  <2>1. \/ sync' = [sync EXCEPT ![r] = Idle]
        \/ /\ sync[r].at # "finalizing"
           /\ \E x : sync' = [sync EXCEPT ![r] = x]
    <3>1. CASE \E t \in Trails, b \in Branches \cup {NoBranch} : Begin(r, t, b)
      BY <3>1 DEF Begin
    <3>2. CASE Publish(r) \/ Finalize(r)
      BY <3>2 DEF Publish, Finalize, Submit
    <3>3. CASE GiveUp(r) \/ ReadEntries(r) \/ ReadRelationships(r) \/ Respond(r)
      BY <3>3 DEF GiveUp, ReadEntries, ReadRelationships, Respond, Goto
    <3> QED
      BY <1>2, <3>1, <3>2, <3>3 DEF SyncStep
  <2> QED
    BY <1>1, <2>1 DEF Idle
<1>3. ASSUME WriterPublishes \/ WriterFails PROVE FALSE
  <2>1. \/ sync' = sync
        \/ \E r : sync' = [sync EXCEPT ![r] = Idle]
        \/ \E r : sync' = [sync EXCEPT ![r] = [sync[r] EXCEPT !.at = "published", !.over = FALSE]]
    BY <1>3 DEF WriterPublishes, WriterFails, Answer
  <2>2. ASSUME NEW r, sync' = [sync EXCEPT ![r] = Idle] PROVE FALSE
    BY <1>1, <2>2 DEF Idle
  <2>3. ASSUME NEW r,
               sync' = [sync EXCEPT ![r] = [sync[r] EXCEPT !.at = "published", !.over = FALSE]]
        PROVE  FALSE
    BY <1>1, <2>3 DEF SyncRecord
  <2> QED
    BY <2>1, <2>2, <2>3
<1>4. WriterAliases \/ WriterEvictsTrails \/ Restart \/ Tick \/ UNCHANGED vars => FALSE
  BY DEF WriterAliases, WriterEvictsTrails, Restart, Tick, vars, Idle
<1> QED
  BY <1>2, <1>3, <1>4 DEF Next, WriterStep

LEMMA ReportStep ==
    ASSUME IInv, [Next]_vars, NEW s \in Syncs,
           sync[s].at = "finalizing", sync'[s].at = "finalized"
    PROVE  sync'[s].over <=> \/ TrailEntries(trails)' > MaxEntries
                             \/ EntriesOf(Cohorts)' > MaxEntries
<1> DEFINE victims == CommitVictims(Head(commands).now)
<1>1. WriterEvictsCommits
  BY WhoFinalizes
<1>2. sync'[s].over = OverCapacity(victims)
  <2>1. PICK over : over = OverCapacity(victims)
    OBVIOUS
  <2>2. PICK r : r = Head(commands).sync
    OBVIOUS
  <2>3. sync' = IF r = NoSync THEN sync
                ELSE [sync EXCEPT ![r] = [sync[r] EXCEPT !.at = "finalized", !.over = over]]
    BY <1>1, <2>1, <2>2 DEF WriterEvictsCommits, Answer
  <2>4. sync \in [Syncs -> SyncRecord]
    BY DEF IInv, TypeOK, SyncRecord
  <2> HIDE DEF victims
  <2> QED
    BY <2>1, <2>3, <2>4 DEF SyncRecord
<1>3. trails' = trails /\ member' = member
  <2>1. /\ trails' = trails /\ member \in [Trails -> SUBSET Commits]
        /\ member' = [t \in Trails |-> member[t] \ victims]
        /\ \A t \in Trails \ trails : member[t] = {}
    BY <1>1 DEF WriterEvictsCommits, IInv, TypeOK, ForeignKeys
  <2>2. \A t \in trails : member[t] \ victims = member[t]
    BY DEF CommitVictims, Cohorts
  <2> HIDE DEF victims
  <2>3. \A t \in Trails : member[t] \ victims = member[t]
    BY <2>1, <2>2
  <2> QED
    BY <2>1, <2>3
<1>4. Cohorts' = Cohorts \ victims
  BY <1>1, <1>3 DEF WriterEvictsCommits, Cohorts
<1>5. TrailEntries(trails)' = TrailEntries(trails)
  BY <1>3 DEF TrailEntries, EntriesOf, MapThenSumSet, MapThenFoldSet
<1>6. EntriesOf(Cohorts)' = EntriesOf(Cohorts \ victims)
  BY <1>4 DEF EntriesOf, MapThenSumSet, MapThenFoldSet
<1> QED
  BY <1>2, <1>5, <1>6 DEF OverCapacity

\* What a synchronization reports of the capacity is what its own eviction left
\* behind (over_capacity).
THEOREM ReportIsExact == Spec => ReportExact
<1>1. IInv /\ [Next]_vars =>
        [\A s \in Syncs :
            sync[s].at = "finalizing" /\ sync'[s].at = "finalized" =>
               sync'[s].over <=> \/ TrailEntries(trails)' > MaxEntries
                                 \/ EntriesOf(Cohorts)' > MaxEntries]_vars
  BY ReportStep
<1> QED
  BY <1>1, InductiveInvariant, PTL DEF Spec, ReportExact
=============================================================================

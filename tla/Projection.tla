----------------------------- MODULE Projection -----------------------------
(***************************************************************************)
(* How a synchronization turns a history into a trail: the newest commits  *)
(* are walked and selected under the attention policy, and replayed into a *)
(* temporary store one by one, parents first (replace_projection).  The    *)
(* journal of a commit adds an entry, decays or cancels entries of other   *)
(* commits, and patches the metadata of a range of commits.  Only the      *)
(* commits replayed so far can be seen, and the answers of the ancestry    *)
(* queries are kept for the whole replay (ReachabilityCache).              *)
(*                                                                         *)
(* An abbreviated commit name is the set of the commits it may stand for.  *)
(* A commit has at most one entry.  A score is the number of times it was  *)
(* decayed; relationships and diagnostics play no part in the replay.  A   *)
(* patch of several operations is one action for each of them: they have   *)
(* the same range, and to look it up again changes nothing.                *)
(***************************************************************************)
EXTENDS Integers, Sequences, FiniteSets, SequencesExt, FiniteSetsExt

CONSTANTS
    Histories,  \* records: parents and journal of each commit, head
    Policies,   \* records: commits and nodes, the two attention limits
    Unlimited,
    Null        \* no value

ASSUME PoliciesAssumption ==
    \A p \in Policies : {p.commits, p.nodes} \subseteq Nat \cup {Unlimited}

Keys == {"affected_areas", "owner", "tags"}

\* What validation lets an extension ask for.
IsAction(act) ==
    CASE act.do = "entry" -> act.decision \in BOOLEAN
      [] act.do = "meta"  -> act.key \in Keys
      [] OTHER -> act.do \in {"decay", "cancel"}

\* A history is finite, and no parent is missing.
ASSUME HistoriesAssumption ==
    \A hs \in Histories :
        LET known == DOMAIN hs.parents
        IN  /\ IsFiniteSet(known) /\ hs.head \in known
            /\ \A c \in known :
                  /\ hs.parents[c] \subseteq known
                  /\ hs.journal[c] \in Seq(Range(hs.journal[c]))
                  /\ \A act \in Range(hs.journal[c]) : IsAction(act)

VARIABLES
    history,    \* what git says
    policy,
    phase,      \* walk, select, replay, then done or failed
    commits,    \* the commits of the trail: newest first, and then replayed
    truncated,  \* history was left out
    next,       \* position of the commit to replay
    tables      \* the temporary store and its ReachabilityCache

vars == <<history, policy, phase, commits, truncated, next, tables>>

All == DOMAIN history.parents
Within(n, limit) == limit = Unlimited \/ n <= limit

\* Commits that can be reached from c by the edges of the given commits.
Reach(known, c) ==
    LET step[n \in 0..Cardinality(known)] ==
          IF n = 0 THEN {c}
          ELSE LET near == step[n-1]
               IN  near \cup UNION {history.parents[d] : d \in near \cap known}
    IN  step[Cardinality(known)]

EmptyTables ==
    [stored   |-> {},          \* commits, with their parents
     entry    |-> <<>>,        \* entries: decision, decays, valid
     assigned |-> {},          \* metadata_assignments
     column   |-> <<>>,        \* commit_metadata, by commit and key
     conflicts |-> {},
     reach    |-> <<>>,        \* cache of is_ancestor
     ranges   |-> <<>>,        \* cache of metadata_targets
     ok       |-> TRUE]        \* no statement failed

Init ==
    /\ history \in Histories /\ policy \in Policies
    /\ phase = "walk" /\ commits = <<>> /\ truncated = FALSE
    /\ next = 1 /\ tables = EmptyTables
-----------------------------------------------------------------------------
(* Selection *)

\* Faulty variant, to show that the properties notice it: sorted by date, which
\* may be any order.
NewestFirstByDate(s) == Len(s) > 0

\* rev-list --topo-order: no parent before all its children.
NewestFirst(s) ==
    \A i, j \in DOMAIN s : s[j] \in history.parents[s[i]] => i < j

\* Faulty variant, to show that the properties notice it: no extra commit.
ListedExactly(s) ==
    IF policy.commits = Unlimited THEN s
    ELSE SubSeq(s, 1, Min({Len(s), policy.commits}))

\* walk_newest asks for one commit more than the limit, to learn whether it
\* leaves history out.
Listed(s) ==
    IF policy.commits = Unlimited THEN s
    ELSE SubSeq(s, 1, Min({Len(s), policy.commits + 1}))

Walk ==
    /\ phase = "walk"
    /\ \E s \in SetToSeqs(Reach(All, history.head)) :
          /\ NewestFirst(s)
          /\ LET shas == Listed(s)
             IN  /\ truncated' = ~Within(Len(shas), policy.commits)
                 /\ commits' = IF truncated' THEN SubSeq(shas, 1, policy.commits) ELSE shas
    /\ phase' = "select"
    /\ UNCHANGED <<history, policy, next, tables>>

\* annotation_count of inspect_commits: every annotation of the message.
Annotations(c) == Len(history.journal[c])
Nodes(n) == FoldLeft(LAMBDA sum, c : sum + Annotations(c), 0, SubSeq(commits, 1, n))

\* Faulty variant, to show that the properties notice it: newest first.
SelectNewestFirst ==
    /\ phase = "select"
    /\ LET n == Max({k \in 0..Len(commits) : Within(Nodes(k), policy.nodes)})
       IN  /\ commits' = SubSeq(commits, 1, n)
           /\ truncated' = (truncated \/ n < Len(commits))
    /\ phase' = "replay"
    /\ UNCHANGED <<history, policy, next, tables>>

\* select_attention: whole commits, until the first that exceeds the limit.
Select ==
    /\ phase = "select"
    /\ LET n == Max({k \in 0..Len(commits) : Within(Nodes(k), policy.nodes)})
       IN  /\ commits' = Reverse(SubSeq(commits, 1, n))
           /\ truncated' = (truncated \/ n < Len(commits))
    /\ phase' = "replay"
    /\ UNCHANGED <<history, policy, next, tables>>
-----------------------------------------------------------------------------
(* Effects on entries *)

\* resolve_target: the one entry of another commit that the name stands for.
Target(t, c, name) == (name \cap DOMAIN t.entry) \ {c}

Decay(t, c, act) ==
    IF Cardinality(Target(t, c, act.of)) # 1 THEN t
    ELSE LET e == CHOOSE x \in Target(t, c, act.of) : TRUE
         IN  IF t.entry[e].valid THEN [t EXCEPT !.entry[e].decays = @ + 1] ELSE t

Cancel(t, c, act) ==
    IF Cardinality(Target(t, c, act.of)) # 1 THEN t
    ELSE LET e == CHOOSE x \in Target(t, c, act.of) : TRUE
         IN  IF t.entry[e].decision THEN [t EXCEPT !.entry[e].valid = FALSE] ELSE t

AddEntry(t, c, act) ==
    [t EXCEPT !.entry =
        [e \in DOMAIN @ \cup {c} |->
            IF e = c THEN [decision |-> act.decision, decays |-> 0, valid |-> TRUE] ELSE @[e]]]
-----------------------------------------------------------------------------
(* Metadata *)

IsAncestor(t, d, a) ==
    \/ d = a
    \/ IF <<d, a>> \in DOMAIN t.reach THEN t.reach[<<d, a>>]
       ELSE a \in Reach(t.stored, d)

\* The answers to the questions are kept.
Asked(t, pairs) ==
    LET known == {p \in pairs : p[1] # p[2]}
    IN  [t EXCEPT !.reach = [p \in DOMAIN @ \cup known |-> IsAncestor(t, p[1], p[2])]]

Failed(t) == [t EXCEPT !.ok = FALSE]

\* What an assignment leaves in the column of the key.
ColumnOf(key, values) ==
    IF Cardinality(values) = 1 /\ Null \notin values THEN values
    ELSE IF key = "tags" THEN {} ELSE Null

\* Faulty variants, to show that the properties notice them: the new source
\* descends from one of the others, or is the same.
ReplacesAny(t, c, rows)  == rows = {} \/ \E r \in rows : IsAncestor(t, c, r.source)
ReplacesSame(t, c, rows) == \A r \in rows : c = r.source

\* Previous assignments of the key of a commit are replaced when the source
\* of the new one descends from all of theirs, and kept otherwise.
Replaces(t, c, rows) == \A r \in rows : IsAncestor(t, c, r.source)

\* assign_metadata_value, for all targets of the patch
Assign(t, c, targets, act) ==
    LET rows(x)  == {r \in t.assigned : r.target = x /\ r.key = act.key}
        gone(x)  == IF Replaces(t, c, rows(x)) THEN rows(x)
                    ELSE {r \in rows(x) : r.source = c}
        fresh(x) == [target |-> x, key |-> act.key, source |-> c, value |-> act.value]
        kept(x)  == (rows(x) \ gone(x)) \cup {fresh(x)}
        values(x) == {r.value : r \in kept(x)}
        mixed    == {x \in targets : Cardinality(values(x)) > 1}
        asked    == UNION {{<<c, r.source>> : r \in rows(x)} : x \in targets}
    IN  [Asked(t, asked) EXCEPT
           !.assigned = (@ \ UNION {rows(x) : x \in targets}) \cup UNION {kept(x) : x \in targets},
           !.conflicts = (@ \ (targets \X {act.key})) \cup (mixed \X {act.key}),
           !.column = [x \in DOMAIN @ |->
                         IF x \in targets THEN [@[x] EXCEPT ![act.key] = ColumnOf(act.key, values(x))]
                         ELSE @[x]]]

\* add_metadata_value; unknown areas stay unknown, and owner is no set
AddValue(t, targets, act) ==
    IF act.key = "owner" THEN Failed(t)
    ELSE [t EXCEPT !.column = [x \in DOMAIN t.column |->
            IF x \in targets /\ t.column[x][act.key] # Null
            THEN [t.column[x] EXCEPT ![act.key] = @ \cup {act.value}] ELSE t.column[x]]]

\* Faulty variant, to show that the properties notice it: no lower end.
RangeUpTo(t, from, to) == {x \in t.stored : x \in Reach(t.stored, to)}

\* metadata_targets, the commits from from up to to
RangeOf(t, from, to) ==
    IF <<from, to>> \in DOMAIN t.ranges THEN t.ranges[<<from, to>>]
    ELSE {x \in t.stored : from \in Reach(t.stored, x) /\ x \in Reach(t.stored, to)}

Patch(t, c, act) ==
    LET froms == act.from \cap t.stored
        tos   == act.to \cap t.stored
        from  == CHOOSE x \in froms : TRUE
        to    == CHOOSE x \in tos : TRUE
        named == ~truncated /\ Cardinality(froms) = 1 /\ Cardinality(tos) = 1
        found == /\ IsAncestor(t, to, from)
                 /\ c \notin {from, to}
                 /\ IsAncestor(t, c, from) /\ IsAncestor(t, c, to)
        targets == RangeOf(t, from, to)
        ranges  == [p \in DOMAIN t.ranges \cup {<<from, to>>} |-> RangeOf(t, p[1], p[2])]
        asked   == Asked([t EXCEPT !.ranges = ranges], {<<to, from>>, <<c, from>>, <<c, to>>})
    IN  IF ~named \/ ~found THEN Failed(t)
        ELSE IF act.operator = "add" THEN AddValue(asked, targets, act)
        ELSE Assign(asked, c, targets, act)
-----------------------------------------------------------------------------
(* Replay *)

Perform(t, c, act) ==
    IF ~t.ok THEN t
    ELSE CASE act.do = "entry"  -> AddEntry(t, c, act)
           [] act.do = "decay"  -> Decay(t, c, act)
           [] act.do = "cancel" -> Cancel(t, c, act)
           [] act.do = "meta"   -> Patch(t, c, act)

\* The actions of the journal of c, in their order
Performed(t, c) ==
    LET after[n \in 0..Len(history.journal[c])] ==
          IF n = 0 THEN t ELSE Perform(after[n-1], c, history.journal[c][n])
    IN  after[Len(history.journal[c])]

\* The row of a commit, its parents and its own metadata come before the
\* actions of its journal.
Insert(t, c) ==
    [t EXCEPT !.stored = @ \cup {c},
              !.column =
                [x \in DOMAIN @ \cup {c} |->
                    IF x = c THEN [affected_areas |-> history.areas[c], owner |-> Null, tags |-> {}]
                    ELSE @[x]]]

\* evaluate_update; a failing patch takes the whole transaction with it
Replay ==
    /\ phase = "replay" /\ next <= Len(commits)
    /\ LET c == commits[next]
           t == Performed(Insert(tables, c), c)
       IN  /\ tables' = IF t.ok THEN t ELSE EmptyTables
           /\ phase' = IF t.ok THEN "replay" ELSE "failed"
    /\ next' = next + 1
    /\ UNCHANGED <<history, policy, commits, truncated>>

\* replace_projection commits, and the trail is made from its tables.
Publish ==
    /\ phase = "replay" /\ next > Len(commits)
    /\ phase' = "done"
    /\ UNCHANGED <<history, policy, commits, truncated, next, tables>>

Next == Walk \/ Select \/ Replay \/ Publish
Spec == Init /\ [][Next]_vars
-----------------------------------------------------------------------------
(* What the history says of the metadata *)

Ancestors(c) == Reach(All, c)
Replayed == {commits[i] : i \in 1..(next - 1)}

\* A successful patch names ancestors of its commit.
Named(c, name) == CHOOSE x \in name \cap Ancestors(c) : TRUE
Between(from, to) == {x \in Ancestors(to) : from \in Ancestors(x)}

\* The patches in the journal of c that assign to the key of x: the last of
\* them gives its value.
Assigning(c, x, key) ==
    {i \in DOMAIN history.journal[c] :
        LET act == history.journal[c][i]
        IN  /\ act.do = "meta" /\ act.key = key /\ act.operator # "add"
            /\ x \in Between(Named(c, act.from), Named(c, act.to))}
Values(c, x, key) ==
    {history.journal[c][i].value :
        i \in {j \in Assigning(c, x, key) : \A k \in Assigning(c, x, key) : k <= j}}
Sources(x, key) == {c \in Replayed : Values(c, x, key) # {}}

\* Assignments that no other one descends from.
Maximal(x, key) ==
    {c \in Sources(x, key) : \A d \in Sources(x, key) \ {c} : c \notin Ancestors(d)}
Effective(x, key) == UNION {Values(c, x, key) : c \in Maximal(x, key)}
-----------------------------------------------------------------------------
(* Properties *)

\* META commits whose histories do not contain each other and that assign
\* different values leave a conflict, whatever the order of the replay
\* (assign_metadata_value).  The converse is not so: an assignment that
\* descends from only some of the kept ones replaces none of them, and a
\* conflict may stay that resolve_metadata_assignments does not see.
NoFalseResolution ==
    \A x \in tables.stored, key \in Keys :
        Cardinality(Effective(x, key)) > 1 => <<x, key>> \in tables.conflicts

\* A META commit that descends from all other assignments of a key resolves
\* it: no conflict is left, and its value is the one shown.
DescendantResolves ==
    \A x \in tables.stored, key \in Keys : \A c \in Sources(x, key) :
        Sources(x, key) \subseteq Ancestors(c) =>
            /\ <<x, key>> \notin tables.conflicts
            /\ Values(c, x, key) \ {Null} # {} => Values(c, x, key) \subseteq tables.column[x][key]

\* The kept assignments are those of patches whose range, in the whole
\* history, contains the commit, and each replayed assignment is kept or has
\* been replaced by that of a descendant.
FrontierKept ==
    /\ \A r \in tables.assigned : r.value \in Values(r.source, r.target, r.key)
    /\ \A x \in tables.stored, key \in Keys : \A c \in Sources(x, key) :
           \E r \in tables.assigned : r.target = x /\ r.key = key /\ c \in Ancestors(r.source)

\* Answers of the ReachabilityCache stay true while commits are added, those
\* about ancestors and those about ranges.
CacheTrue ==
    /\ \A p \in DOMAIN tables.reach : tables.reach[p] <=> p[2] \in Ancestors(p[1])
    /\ \A p \in DOMAIN tables.ranges : tables.ranges[p] = Between(p[1], p[2])

\* A CANCEL reaches every decision in the history of its commit that it names
\* without doubt, and a DECAY every entry that is still valid: their targets
\* have always been replayed (resolve_target).
EffectsReach ==
    \A c \in Replayed, e \in DOMAIN tables.entry :
        LET acts(do) == {i \in DOMAIN history.journal[c] :
                           /\ history.journal[c][i].do = do
                           /\ e \in Ancestors(c) \ {c}
                           /\ (history.journal[c][i].of \cap All) \ {c} = {e}}
        IN  /\ acts("cancel") # {} /\ tables.entry[e].decision => ~tables.entry[e].valid
            /\ tables.entry[e].valid => tables.entry[e].decays >= Cardinality(acts("decay"))

\* History that is not said to be truncated is whole, and otherwise something
\* was left out (walk_newest, select_attention): a patch of an incomplete
\* range is refused by this alone.
TruncationTold ==
    phase \in {"replay", "done"} =>
        (truncated <=> Range(commits) # Ancestors(history.head))
=============================================================================

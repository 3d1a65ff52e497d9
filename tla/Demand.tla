------------------------------- MODULE Demand -------------------------------
(***************************************************************************)
(* The demand tracker (zmem-core demand.rs, zmem-svc demand.rs), the one   *)
(* advisory slot it shares with the publication writer (zmem-svc lib.rs)   *)
(* and what the writer makes durable (zmem-store demand.rs), over the      *)
(* lives of the service process and any movement of the wall clock between *)
(* them.  A lookup that finds the tracker locked records nothing: a        *)
(* stuttering step.                                                        *)
(***************************************************************************)
EXTENDS Integers, Sequences, FiniteSets, SequencesExt

CONSTANTS
    Routes,        \* (repository, route) keys, numbers in their order
    Trails,        \* trails a lookup may serve
    Lookups,       \* lookups that come: route, trail, selected commits and
                   \* length of the oid and the generation
    Window,        \* 500
    Sample,        \* 60 s
    Expiry,        \* 3600 s
    MaxSamples,    \* 60
    MaxRoutes,     \* 4096
    RouteBytes,    \* of a route: 512 + 3 * the length of its names
    SampleBytes,   \* 32
    Reserved,      \* 60, the samples that a route weighs at least
    MinRoom,       \* 4, the first capacity of a Vec
    UseBytes,      \* of a trail: 128 + the length of its id
    HalfBytes,     \* MAX_METADATA_BYTES / 2
    Ceiling,       \* background_commit_limit
    MaxTime        \* bound: the clock

ASSUME ConstantsAssumption ==
    /\ Routes \subseteq Nat /\ IsFiniteSet(Routes) /\ IsFiniteSet(Trails)
    /\ Lookups \subseteq Routes \X Trails \X Nat \X Nat
    /\ {Window, Sample, Expiry, MaxSamples, MaxRoutes, SampleBytes, Reserved,
        MinRoom, HalfBytes, Ceiling, MaxTime} \subseteq Nat \ {0}
    /\ RouteBytes \in [Routes -> Nat \ {0}] /\ UseBytes \in [Trails -> Nat \ {0}]

VARIABLES
    now,        \* epoch plus elapsed time of this life, from 1; 0 is never
    routes,     \* Tracker.routes: observations; none is not tracked
    ident,      \* length of the oid and the generation of a tracked route
    room,       \* capacity of the observations of a tracked route
    credited,   \* Tracker.credited: when the route last gave an observation
    uses,       \* Tracker.uses: when the trail was last served
    bytes,      \* Tracker.bytes
    slot,       \* ADVISORY_QUEUE
    locked,     \* the writer holds it and writes
    disk,       \* route_demand, and the last_demand that a trail gave
    asked,      \* history: all lookups deeper than the window
    served      \* history: accepted uses of this life

tracker == <<routes, ident, room, credited, uses, bytes>>
writer  == <<slot, locked, disk>>
vars    == <<now, tracker, writer, asked, served>>

Never == 0
NoUses == [t \in Trails |-> Never]
NoRoutes == [r \in Routes |-> <<>>]
NoBytes == [r \in Routes |-> 0]
Batch(rs, ids, us) == [full |-> TRUE, routes |-> rs, ident |-> ids, uses |-> us]
Empty == [full |-> FALSE, routes |-> NoRoutes, ident |-> NoBytes, uses |-> NoUses]
Later(a, b) == IF a < b THEN b ELSE a
Earlier(a, b) == IF a < b THEN a ELSE b

Init ==
    /\ now \in 1..MaxTime
    /\ routes = NoRoutes /\ ident = NoBytes /\ room = NoBytes
    /\ credited = [r \in Routes |-> Never]
    /\ uses = NoUses /\ bytes = 0
    /\ slot = Empty /\ locked = FALSE
    /\ disk = [routes |-> NoRoutes, ident |-> NoBytes, uses |-> NoUses]
    /\ asked = [r \in Routes |-> {}] /\ served = NoUses
-----------------------------------------------------------------------------
(* RouteDemand: observations are in the order of their times *)

Fresh(sample, t) == sample.at <= t /\ t - sample.at < Expiry

\* Fresh samples, each at least an interval after the last one kept; the last
\* MaxSamples of them.
Expire(obs, t) ==
    LET kept[n \in 0..Len(obs)] ==
          IF n = 0 THEN <<>>
          ELSE IF \/ ~Fresh(obs[n], t)
                  \/ kept[n - 1] # <<>> /\ obs[n].at - Last(kept[n - 1]).at < Sample
          THEN kept[n - 1] ELSE Append(kept[n - 1], obs[n])
        spaced == kept[Len(obs)]
    IN  SubSeq(spaced, Later(1, Len(spaced) - MaxSamples + 1), Len(spaced))

\* Faulty variant, to show that the properties notice it: every credited lookup
\* counts.
ObserveAlways(obs, t, depth) == Append(Expire(obs, t), [at |-> t, depth |-> depth])

Observe(obs, t, depth) ==
    LET kept == Expire(obs, t)
    IN  IF kept # <<>> /\ t - Last(kept).at < Sample THEN kept
        ELSE Append(kept, [at |-> t, depth |-> depth])

\* Two deep samples justify the deepest and a window more; 0 is no target.
Target(obs, t) ==
    LET deep == {i \in DOMAIN obs : Fresh(obs[i], t) /\ obs[i].depth > Window}
        depth == obs[CHOOSE i \in deep : \A j \in deep : obs[j].depth <= obs[i].depth].depth
    IN  IF Cardinality(deep) < 2 \/ Ceiling <= depth THEN 0
        ELSE Earlier(depth + Window, Ceiling)
-----------------------------------------------------------------------------
(* The tracker *)

Tracked(rs) == {r \in Routes : rs[r] # <<>>}
Pending(us) == {t \in Trails : us[t] # Never}
\* size: the room of the samples counts, never less than what is reserved.
RouteSize(r, id, capacity) ==
    RouteBytes[r] + id + SampleBytes * Later(capacity, Reserved)

Sizes(ids, rooms) == [r \in Routes |-> RouteSize(r, ids[r], rooms[r])]
Size(rs, ids, rooms, us) ==
    SumFunctionOnSet(Sizes(ids, rooms), Tracked(rs)) + SumFunctionOnSet(UseBytes, Pending(us))

\* A clone of a Vec has no room to spare, and a push into a full one doubles it.
Lengths(rs) == [r \in Routes |-> Len(rs[r])]
Pushed(length, capacity) ==
    IF length < capacity THEN capacity ELSE Later(2 * capacity, MinRoom)

\* The capacity of a Vec that is deserialized sample by sample.
Deserialized(length) ==
    LET capacity[n \in 0..length] ==
          IF n = 0 THEN 0 ELSE Pushed(n - 1, capacity[n - 1])
    IN  capacity[length]

\* Faulty variant, to show that the properties notice it: a route is counted
\* when it is new, as if its size were fixed.
AddedOnce(r, id, capacity) ==
    IF routes[r] = <<>> THEN RouteSize(r, id, capacity) ELSE 0

\* new_size - previous_size of a route that is recorded; negative when a clone
\* drops spare room, or the new oid and generation are shorter.
Added(r, id, capacity) ==
    RouteSize(r, id, capacity)
      - IF routes[r] = <<>> THEN 0 ELSE RouteSize(r, ident[r], room[r])

\* record: a lookup of the route was answered.  A clone of the route takes the
\* oid and the generation, and at most once an interval the observation; if it
\* does not fit it is dropped, with the use, also when the route is tracked.
\* The use of the trail has a bound of its own.
Record(r, t, depth, id) ==
    LET credit == credited[r] = Never \/ now - credited[r] >= Sample
        live == Expire(routes[r], now)
        obs == IF credit THEN Observe(routes[r], now, depth) ELSE routes[r]
        observed == credit /\ obs # live
        length == Len(routes[r])
        capacity == IF observed THEN Pushed(Len(live), length) ELSE length
        after == bytes + Added(r, id, capacity)
        fits == ~(routes[r] = <<>> /\ Cardinality(Tracked(routes)) >= MaxRoutes)
                /\ after <= HalfBytes
        known == uses[t] # Never
        taken == known \/ /\ Cardinality(Pending(uses)) < MaxRoutes
                          /\ after + UseBytes[t] <= HalfBytes
    IN  /\ asked' = IF depth > Window THEN [asked EXCEPT ![r] = @ \cup {now}] ELSE asked
        /\ IF fits
           THEN /\ routes' = [routes EXCEPT ![r] = obs]
                /\ ident' = [ident EXCEPT ![r] = id]
                /\ room' = [room EXCEPT ![r] = capacity]
                /\ credited' = IF observed THEN [credited EXCEPT ![r] = now] ELSE credited
                /\ bytes' = after + IF taken /\ ~known THEN UseBytes[t] ELSE 0
                /\ uses' = IF taken THEN [uses EXCEPT ![t] = now] ELSE uses
                /\ served' = IF taken THEN [served EXCEPT ![t] = now] ELSE served
           ELSE UNCHANGED <<tracker, served>>
        /\ UNCHANGED <<now, writer>>

\* Faulty variant, to show that the properties notice it: no offer without
\* observations.
AcceptedRoutes(due, live) == due /\ Tracked(live) # {} /\ ~locked /\ ~slot.full

\* enqueue_advisory: the slot is free of a batch and of the writer.
Accepted(due, live) == due /\ ~locked /\ ~slot.full

\* targets: the prefetch worker asks.  When the batching interval of 5 s is
\* over (due), a snapshot is offered to the slot, which the writer may hold or
\* not have emptied yet.
Poll(due) ==
    LET live == [r \in Routes |-> Expire(routes[r], now)]
        accepted == Accepted(due, live)
        kept(bs) == [r \in Routes |-> IF live[r] = <<>> THEN 0 ELSE bs[r]]
    IN  /\ UNCHANGED <<now, locked, disk, asked, served>>
        /\ routes' = live /\ ident' = kept(ident) /\ room' = kept(room)
        /\ credited' = [r \in Routes |-> IF live[r] = <<>> THEN Never ELSE credited[r]]
        /\ slot' = IF accepted THEN Batch(live, ident', uses) ELSE slot
        /\ uses' = IF accepted THEN NoUses ELSE uses
        /\ bytes' = Size(live, ident', room', uses')

Tick ==
    /\ now < MaxTime /\ now' = now + 1
    /\ UNCHANGED <<tracker, writer, asked, served>>
-----------------------------------------------------------------------------
(* The publication writer, when no command came for 25 ms *)

WriteBegins ==
    /\ slot.full /\ ~locked /\ locked' = TRUE
    /\ UNCHANGED <<now, tracker, slot, disk, asked, served>>

\* persist_advisory: the routes, expired when they were offered, replace all of
\* the table, and a use never makes the demand older.
WriteEnds ==
    /\ locked /\ locked' = FALSE
    /\ disk' = [routes |-> slot.routes, ident |-> slot.ident,
                uses |-> [t \in Trails |-> Later(disk.uses[t], slot.uses[t])]]
    /\ slot' = Empty
    /\ UNCHANGED <<now, tracker, asked, served>>

\* The deadline of 250 ms, a locked database: the batch stays for a retry.
WriteFails ==
    /\ locked /\ locked' = FALSE
    /\ UNCHANGED <<now, tracker, slot, disk, asked, served>>

\* initialize takes the rows in their order and skips what does not fit.
Fitting(loaded, rows, sizes) ==
    \A r \in rows :
        LET before == {q \in loaded : q < r}
        IN  r \in loaded <=> /\ Cardinality(before) < MaxRoutes
                             /\ SumFunctionOnSet(sizes, before) + sizes[r] <= HalfBytes

\* The process ends, stopped or killed, with what it holds; the next one loads
\* the table at whatever time the wall clock shows.
Restart ==
    /\ now' \in 1..MaxTime
    /\ LET fresh == [r \in Routes |-> Expire(disk.routes[r], now')]
           rooms == [r \in Routes |-> Deserialized(Len(disk.routes[r]))]
           sizes == Sizes(disk.ident, rooms)
       IN  \E loaded \in SUBSET Tracked(fresh) :
             /\ Fitting(loaded, Tracked(fresh), sizes)
             /\ routes' = [r \in Routes |-> IF r \in loaded THEN fresh[r] ELSE <<>>]
             /\ ident' = [r \in Routes |-> IF r \in loaded THEN disk.ident[r] ELSE 0]
             /\ room' = [r \in Routes |-> IF r \in loaded THEN rooms[r] ELSE 0]
             /\ bytes' = SumFunctionOnSet(sizes, loaded)
    /\ credited' = [r \in Routes |-> Never]
    /\ uses' = NoUses /\ served' = NoUses
    /\ slot' = Empty /\ locked' = FALSE
    /\ UNCHANGED <<disk, asked>>

Next ==
    \/ \E lookup \in Lookups : Record(lookup[1], lookup[2], lookup[3], lookup[4])
    \/ \E due \in BOOLEAN : Poll(due)
    \/ Tick
    \/ WriteBegins
    \/ WriteEnds
    \/ WriteFails
    \/ Restart

Spec == Init /\ [][Next]_vars

\* The prefetch worker polls in a loop, and not always while the writer writes;
\* the writer is idle now and then, and a write that is retried every 25 ms
\* succeeds at last.
FairSpec ==
    /\ Spec
    /\ SF_vars(~locked /\ Poll(TRUE))
    /\ WF_vars(WriteBegins) /\ SF_vars(WriteEnds)
-----------------------------------------------------------------------------
(* Properties *)

\* A poll gives a target only for two deep lookups that really came, in
\* different intervals and not expired: no burst, restart or retry makes one
\* lookup count twice.
TargetJustified ==
    \A r \in Routes :
        Target(routes[r], now) > 0 =>
            \E x, y \in asked[r] : y - x >= Sample /\ now - x < Expiry

\* The byte counter is what the tracker holds, and tracker and slot together
\* stay within the two halves.
BytesExact ==
    /\ bytes = Size(routes, ident, room, uses) /\ bytes <= HalfBytes
    /\ Cardinality(Tracked(routes)) <= MaxRoutes
    /\ Size(slot.routes, slot.ident, Lengths(slot.routes), slot.uses) <= HalfBytes

\* A use of a trail that the tracker took becomes durable, whatever writes fail
\* and however often the slot refuses it, unless the process ends first.
UsesDurable ==
    \A t \in Trails, k \in 1..MaxTime :
        served[t] = k ~> (disk.uses[t] >= k \/ served[t] < k)
=============================================================================

---------------------------- MODULE DemandProofs ----------------------------
(***************************************************************************)
(* For any routes, trails, lookups and bounds of module Demand: the byte   *)
(* counter is what the tracker holds, within its half of the budget,       *)
(* however the room of a route grows and shrinks, and a route has a target *)
(* only for two deep lookups that came a sampling interval apart.  The evidence is followed from the lookup through the   *)
(* tracker, the slot and the table back into the tracker of a later life:  *)
(* observations stay an interval apart, whatever the clock does between    *)
(* lives, because expire compares a sample with the last one it kept.      *)
(***************************************************************************)
EXTENDS Demand, Lemmas

Obs == [at : Nat, depth : Nat]

\* Observations an interval apart, and so in the order of their times.
Apart(obs) == \A i, j \in DOMAIN obs : i < j => obs[j].at - obs[i].at >= Sample

\* Observations that lookups gave: the deep ones came at the times in came.
Evidence(obs, came) ==
    /\ Apart(obs)
    /\ \A i \in DOMAIN obs : obs[i].depth > Window => obs[i].at \in came

Slot == [full : BOOLEAN, routes : [Routes -> Seq(Obs)],
         ident : [Routes -> Nat], uses : [Trails -> Nat]]
Table == [routes : [Routes -> Seq(Obs)], ident : [Routes -> Nat], uses : [Trails -> Nat]]

TypeInv ==
    /\ now \in 1..MaxTime
    /\ routes \in [Routes -> Seq(Obs)] /\ credited \in [Routes -> Nat]
    /\ ident \in [Routes -> Nat] /\ room \in [Routes -> Nat]
    /\ uses \in [Trails -> Nat] /\ bytes \in Int
    /\ slot \in Slot /\ disk \in Table
    /\ asked \in [Routes -> SUBSET Nat]

EvidenceInv ==
    \A r \in Routes : /\ Evidence(routes[r], asked[r])
                      /\ Evidence(slot.routes[r], asked[r])
                      /\ Evidence(disk.routes[r], asked[r])

\* A route whose interval runs has an observation: it is counted already.  And
\* the observations have room: a clone of them, in the slot, weighs no more.
CountInv ==
    /\ BytesExact
    /\ \A r \in Routes : /\ credited[r] # Never => routes[r] # <<>>
                         /\ Len(routes[r]) <= room[r]

IInv == TypeInv /\ EvidenceInv /\ CountInv

LEMMA Constants ==
    /\ Window \in Nat /\ Sample \in Nat \ {0} /\ Expiry \in Nat \ {0}
    /\ MaxSamples \in Nat \ {0} /\ MaxRoutes \in Nat \ {0} /\ Reserved \in Nat
    /\ SampleBytes \in Nat /\ MinRoom \in Nat \ {0}
    /\ RouteBytes \in [Routes -> Nat] /\ UseBytes \in [Trails -> Nat] /\ HalfBytes \in Nat \ {0} /\ MaxTime \in Nat \ {0}
    /\ IsFiniteSet(Routes) /\ IsFiniteSet(Trails) /\ Routes \subseteq Nat
    /\ \A lookup \in Lookups :
          lookup[1] \in Routes /\ lookup[2] \in Trails /\ lookup[3] \in Nat
          /\ lookup[4] \in Nat
BY ConstantsAssumption

-----------------------------------------------------------------------------
(* RouteDemand::expire *)

\* Sequences of the samples in E, an interval apart.
Samples(E) == {q \in Seq(E) : Apart(q)}

LEMMA LastIsLatest ==
    ASSUME NEW E \in SUBSET Obs, NEW q \in Samples(E), NEW i \in DOMAIN q
    PROVE  /\ Last(q) \in E /\ q[i] \in E
           /\ q[i].at <= Last(q).at
<1>1. /\ q \in Seq(E) /\ Len(q) \in Nat /\ DOMAIN q = 1..Len(q) /\ Last(q) = q[Len(q)]
      /\ \A m, n \in DOMAIN q : m < n => q[n].at - q[m].at >= Sample
  BY DEF Samples, Apart, Last
<1>2. i \in 1..Len(q) /\ Len(q) \in 1..Len(q)
  BY <1>1
<1>3. q[i] \in E /\ q[Len(q)] \in E
  BY <1>1, <1>2
<1>4. q[i].at \in Nat /\ q[Len(q)].at \in Nat /\ Sample \in Nat
  BY <1>3, Constants DEF Obs
<1> QED
  BY <1>1, <1>2, <1>3, <1>4

LEMMA NextSample ==
    ASSUME NEW E \in SUBSET Obs, NEW q \in Samples(E), NEW x \in E,
           q = <<>> \/ x.at - Last(q).at >= Sample
    PROVE  Append(q, x) \in Samples(E)
<1> DEFINE a == Append(q, x)
<1>1. /\ q \in Seq(E) /\ Len(q) \in Nat /\ DOMAIN q = 1..Len(q)
      /\ a \in Seq(E) /\ DOMAIN a = 1..(Len(q) + 1)
      /\ a[Len(q) + 1] = x /\ \A n \in 1..Len(q) : a[n] = q[n]
  BY DEF Samples
<1> HIDE DEF a
<1>2. ASSUME NEW i \in DOMAIN a, NEW j \in DOMAIN a, i < j
      PROVE  a[j].at - a[i].at >= Sample
  <2>1. CASE j \in 1..Len(q)
    <3>1. i \in 1..Len(q)
      BY <1>1, <1>2, <2>1
    <3> QED
      BY <1>1, <1>2, <2>1, <3>1 DEF Samples, Apart
  <2>2. CASE j = Len(q) + 1
    <3>1. i \in 1..Len(q) /\ q # <<>>
      BY <1>1, <1>2, <2>2
    <3>2. /\ q[i].at <= Last(q).at /\ q[i] \in E /\ Last(q) \in E
      BY <1>1, <3>1, LastIsLatest
    <3>3. q[i].at \in Nat /\ Last(q).at \in Nat /\ x.at \in Nat /\ Sample \in Nat
      BY <3>2, Constants DEF Obs
    <3>4. a[j] = x /\ a[i] = q[i]
      BY <1>1, <2>2, <3>1
    <3> QED
      BY <3>1, <3>2, <3>3, <3>4
  <2> QED
    BY <1>1, <2>1, <2>2
<1> QED
  BY <1>1, <1>2 DEF Samples, Apart, a

LEMMA LastSamples ==
    ASSUME NEW E \in SUBSET Obs, NEW q \in Samples(E), NEW m \in Nat \ {0}
    PROVE  SubSeq(q, m, Len(q)) \in Samples(E)
<1> DEFINE a == SubSeq(q, m, Len(q))
<1>1. /\ q \in Seq(E) /\ Len(q) \in Nat /\ DOMAIN q = 1..Len(q)
      /\ a \in Seq(E) /\ DOMAIN a = 1..Len(a)
  BY DEF Samples
<1>2. \A n \in DOMAIN a : a[n] = q[n + m - 1] /\ n + m - 1 \in DOMAIN q /\ n \in Nat
  BY <1>1
<1> HIDE DEF a
<1>3. ASSUME NEW i \in DOMAIN a, NEW j \in DOMAIN a, i < j
      PROVE  a[j].at - a[i].at >= Sample
  <2>1. i + m - 1 < j + m - 1
    BY <1>2, <1>3
  <2> QED
    BY <1>2, <2>1 DEF Samples, Apart
<1> QED
  BY <1>1, <1>3 DEF Samples, Apart, a

\* expire keeps some of the samples, fresh ones, an interval apart.
LEMMA Expired ==
    ASSUME NEW obs \in Seq(Obs), NEW t
    PROVE  /\ Expire(obs, t) \in Samples({x \in ToSet(obs) : Fresh(x, t)})
           /\ Len(Expire(obs, t)) <= Len(obs)
<1> DEFINE E == {x \in ToSet(obs) : Fresh(x, t)}
           N == Len(obs)
           V == Samples(E)
           Skipped(q, n) == \/ ~Fresh(obs[n], t)
                            \/ q # <<>> /\ obs[n].at - Last(q).at < Sample
           step == [x \in (1..N) \X V |->
                       IF Skipped(x[2], x[1]) THEN x[2] ELSE Append(x[2], obs[x[1]])]
<1>1. /\ N \in Nat /\ E \in SUBSET Obs
      /\ \A n \in 1..N : obs[n] \in ToSet(obs) /\ obs[n] \in Obs
  BY Items
<1>2. <<>> \in V
  BY DEF Samples, Apart
<1>3. ASSUME NEW n \in 1..N, NEW q \in V, ~Skipped(q, n)
      PROVE  Append(q, obs[n]) \in V
  <2>1. obs[n] \in E
    BY <1>1, <1>3
  <2>2. q = <<>> \/ obs[n].at - Last(q).at >= Sample
    <3>1. SUFFICES ASSUME q # <<>> PROVE obs[n].at - Last(q).at >= Sample
      OBVIOUS
    <3>2. /\ q \in Seq(E) /\ Len(q) \in Nat /\ DOMAIN q = 1..Len(q) /\ Len(q) # 0
      BY <3>1 DEF Samples
    <3>3. Last(q) \in E
      BY <1>1, <3>2 DEF Last
    <3>4. obs[n].at \in Nat /\ Last(q).at \in Nat /\ Sample \in Nat
      BY <1>1, <3>3, Constants DEF Obs
    <3> QED
      BY <1>3, <3>1, <3>4
  <2> HIDE DEF E
  <2> QED
    BY <1>1, <2>1, <2>2, NextSample
<1> HIDE DEF Skipped, V
<1>4. step \in [(1..N) \X V -> V]
  BY <1>3
<1>5. PICK f \in [0..N -> V] : Follows(f, N, <<>>, step)
  <2> HIDE DEF step, N
  <2> QED
    BY <1>1, <1>2, <1>4, Recursion
<1>6. f = [n \in 0..N |-> IF n = 0 THEN <<>>
                          ELSE IF Skipped(f[n - 1], n) THEN f[n - 1]
                               ELSE Append(f[n - 1], obs[n])]
  <2>1. ASSUME NEW n \in 0..N, n # 0
        PROVE  step[<<n, f[n - 1]>>] =
                  IF Skipped(f[n - 1], n) THEN f[n - 1] ELSE Append(f[n - 1], obs[n])
    <3>1. n \in 1..N /\ n - 1 \in 0..N
      BY <1>1, <2>1
    <3>2. <<n, f[n - 1]>> \in (1..N) \X V
      BY <3>1
    <3> QED
      BY <3>2
  <2> HIDE DEF step, N
  <2> QED
    BY <1>5, <2>1 DEF Follows
<1>7. PICK g : /\ g = [n \in 0..N |-> IF n = 0 THEN <<>>
                          ELSE IF Skipped(g[n - 1], n) THEN g[n - 1]
                               ELSE Append(g[n - 1], obs[n])]
               /\ Expire(obs, t) =
                     SubSeq(g[N], Later(1, Len(g[N]) - MaxSamples + 1), Len(g[N]))
  BY <1>6, Zenon DEF Expire, Skipped
<1> DEFINE T == {n \in 0..N : g[n] \in V /\ Len(g[n]) <= n}
<1>8. 0 \in T
  BY <1>1, <1>2, <1>7
<1>9. ASSUME NEW n \in 0..(N - 1), n \in T PROVE n + 1 \in T
  <2>1. n \in 0..N /\ n + 1 \in 1..N /\ n + 1 # 0 /\ (n + 1) - 1 = n /\ n + 1 \in 0..N
    BY <1>1
  <2>2. g[n + 1] = IF Skipped(g[n], n + 1) THEN g[n] ELSE Append(g[n], obs[n + 1])
    BY <1>7, <2>1
  <2>3. g[n] \in V /\ Len(g[n]) <= n /\ n \in Nat
    BY <1>9
  <2>4. g[n + 1] \in V
    BY <1>3, <2>1, <2>2, <2>3
  <2>5. Len(g[n + 1]) <= n + 1
    <3>1. /\ Len(g[n]) \in Nat
          /\ Len(Append(g[n], obs[n + 1])) = Len(g[n]) + 1
      <4>1. g[n] \in Seq(E)
        BY <2>3 DEF V, Samples
      <4> HIDE DEF E
      <4> QED
        BY <4>1
    <3> QED
      BY <2>2, <2>3, <3>1
  <2> QED
    BY <2>1, <2>4, <2>5
<1> HIDE DEF T
<1>10. g[N] \in V /\ Len(g[N]) <= N
  <2>1. N \in Nat /\ N \in 0..N
    BY <1>1
  <2> HIDE DEF N
  <2>2. 0..N \subseteq T
    BY <1>8, <1>9, <2>1, UpTo
  <2> QED
    BY <2>1, <2>2 DEF T
<1>11. Later(1, Len(g[N]) - MaxSamples + 1) \in Nat \ {0}
  <2>1. Len(g[N]) \in Nat
    BY <1>10 DEF V, Samples
  <2>2. MaxSamples \in Nat
    BY Constants
  <2> QED
    BY <2>1, <2>2 DEF Later
<1>12. Len(SubSeq(g[N], Later(1, Len(g[N]) - MaxSamples + 1), Len(g[N]))) <= N
  <2> DEFINE m == Later(1, Len(g[N]) - MaxSamples + 1)
  <2>1. g[N] \in Seq(E) /\ Len(g[N]) \in Nat
    BY <1>10 DEF V, Samples
  <2> HIDE DEF m, E
  <2>2. m \in Nat \ {0}
    BY <1>11 DEF m
  <2>3. Len(SubSeq(g[N], m, Len(g[N]))) <= Len(g[N])
           /\ Len(SubSeq(g[N], m, Len(g[N]))) \in Nat
    BY <2>1, <2>2
  <2> QED
    BY <1>1, <1>10, <2>1, <2>3 DEF m
<1> QED
  BY <1>1, <1>7, <1>10, <1>11, <1>12, LastSamples DEF V

\* Nothing is left of nothing.
LEMMA NothingExpired ==
    ASSUME NEW t
    PROVE  Expire(<<>>, t) = <<>>
<1>1. <<>> \in Seq(Obs) /\ ToSet(<<>>) = {}
  BY DEF ToSet
<1>2. Expire(<<>>, t) \in Samples({x \in ToSet(<<>>) : Fresh(x, t)})
  BY <1>1, Expired
<1>3. Expire(<<>>, t) \in Seq({})
  BY <1>1, <1>2 DEF Samples
<1> QED
  BY <1>3

LEMMA ExpiredEvidence ==
    ASSUME NEW obs \in Seq(Obs), NEW came, NEW t, Evidence(obs, came)
    PROVE  Expire(obs, t) \in Seq(Obs) /\ Evidence(Expire(obs, t), came)
<1> DEFINE E == {x \in ToSet(obs) : Fresh(x, t)}
<1>1. PICK q \in Samples(E) : q = Expire(obs, t)
  BY Expired
<1>2. \A x \in E : x \in Obs /\ (x.depth > Window => x.at \in came)
  <2> SUFFICES ASSUME NEW x \in E PROVE x \in Obs /\ (x.depth > Window => x.at \in came)
    OBVIOUS
  <2>1. PICK i \in DOMAIN obs : x = obs[i]
    BY DEF ToSet
  <2> QED
    BY <2>1 DEF Evidence
<1> HIDE DEF E
<1>3. q \in Seq(E) /\ Apart(q) /\ \A i \in DOMAIN q : q[i] \in E
  BY DEF Samples
<1>4. q \in Seq(Obs)
  BY <1>2, <1>3
<1> QED
  BY <1>1, <1>2, <1>3, <1>4 DEF Evidence

LEMMA MoreCame ==
    ASSUME NEW obs, NEW came, NEW more, Evidence(obs, came), came \subseteq more
    PROVE  Evidence(obs, more)
BY DEF Evidence

\* What observe does for a lookup that came now.
LEMMA Observed ==
    ASSUME NEW obs \in Seq(Obs), NEW came, NEW t \in Nat, NEW depth \in Nat,
           Evidence(obs, came), depth > Window => t \in came
    PROVE  /\ Observe(obs, t, depth) \in Seq(Obs) /\ Observe(obs, t, depth) # <<>>
           /\ Evidence(Observe(obs, t, depth), came)
           /\ Expire(obs, t) \in Seq(Obs)
           /\ \/ Observe(obs, t, depth) = Expire(obs, t)
              \/ Len(Observe(obs, t, depth)) = Len(Expire(obs, t)) + 1
<1> DEFINE x == [at |-> t, depth |-> depth]
<1>1. PICK q : q = Expire(obs, t) /\ q \in Seq(Obs) /\ Evidence(q, came)
  BY ExpiredEvidence
<1>2. Observe(obs, t, depth) =
         IF q # <<>> /\ t - Last(q).at < Sample THEN q ELSE Append(q, x)
  BY <1>1 DEF Observe
<1>3. CASE q # <<>> /\ t - Last(q).at < Sample
  <2>1. Observe(obs, t, depth) = q
    BY <1>2, <1>3, Zenon
  <2>2. q \in Seq(Obs) /\ Evidence(q, came) /\ q = Expire(obs, t) /\ q # <<>>
    BY <1>1, <1>3
  <2>3. Observe(obs, t, depth) \in Seq(Obs) /\ Observe(obs, t, depth) # <<>>
    BY <2>1, <2>2
  <2>4. Evidence(Observe(obs, t, depth), came) /\ Expire(obs, t) \in Seq(Obs)
    BY <2>1, <2>2
  <2>5. Observe(obs, t, depth) = Expire(obs, t)
    BY <2>1, <2>2
  <2> QED
    BY <2>3, <2>4, <2>5
<1>4. CASE ~(q # <<>> /\ t - Last(q).at < Sample)
  <2>1. q \in Samples(Obs) /\ x \in Obs
    BY <1>1 DEF Samples, Evidence, Obs
  <2>2. q = <<>> \/ x.at - Last(q).at >= Sample
    <3>1. SUFFICES ASSUME q # <<>> PROVE x.at - Last(q).at >= Sample
      OBVIOUS
    <3>2. /\ Len(q) \in Nat /\ DOMAIN q = 1..Len(q) /\ Len(q) # 0
      BY <1>1, <3>1
    <3>3. Last(q) \in Obs
      BY <1>1, <3>2 DEF Last
    <3>4. Last(q).at \in Nat /\ Sample \in Nat
      BY <3>3, Constants DEF Obs
    <3> QED
      BY <1>4, <3>1, <3>4
  <2>3. Append(q, x) \in Samples(Obs)
    BY <2>1, <2>2, NextSample
  <2>4. /\ Len(q) \in Nat /\ DOMAIN q = 1..Len(q)
        /\ DOMAIN Append(q, x) = 1..(Len(q) + 1)
        /\ Append(q, x)[Len(q) + 1] = x /\ \A n \in 1..Len(q) : Append(q, x)[n] = q[n]
        /\ Append(q, x) # <<>> /\ Append(q, x) \in Seq(Obs)
        /\ Len(Append(q, x)) = Len(q) + 1
    BY <1>1, <2>1
  <2>5. ASSUME NEW i \in DOMAIN Append(q, x), Append(q, x)[i].depth > Window
        PROVE  Append(q, x)[i].at \in came
    <3>1. i \in 1..Len(q) \/ i = Len(q) + 1
      BY <2>4
    <3>2. CASE i \in 1..Len(q)
      BY <1>1, <2>4, <2>5, <3>2 DEF Evidence
    <3>3. CASE i = Len(q) + 1
      BY <2>4, <2>5, <3>3
    <3> QED
      BY <3>1, <3>2, <3>3
  <2>6. Evidence(Append(q, x), came)
    BY <2>3, <2>5 DEF Evidence, Samples
  <2> QED
    BY <1>1, <1>2, <1>4, <2>4, <2>6
<1> QED
  BY <1>3, <1>4

-----------------------------------------------------------------------------
(* Capacities and sizes *)

LEMMA Products ==
    /\ \A k, m, n \in Nat : m <= n => k * m <= k * n
    /\ \A k, m \in Nat : k * m \in Nat
OBVIOUS

\* A push leaves room for what was pushed.
LEMMA PushedRoom ==
    ASSUME NEW length \in Nat, NEW capacity \in Nat, length <= capacity
    PROVE  Pushed(length, capacity) \in Nat /\ length + 1 <= Pushed(length, capacity)
BY Constants DEF Pushed, Later

\* So does the deserialization of as many samples.
LEMMA DeserializedRoom ==
    ASSUME NEW N \in Nat
    PROVE  Deserialized(N) \in Nat /\ N <= Deserialized(N)
<1> DEFINE step == [x \in (1..N) \X Nat |-> Pushed(x[1] - 1, x[2])]
<1>1. \A n \in 1..N, c \in Nat : Pushed(n - 1, c) \in Nat
  <2> SUFFICES ASSUME NEW n \in 1..N, NEW c \in Nat PROVE Pushed(n - 1, c) \in Nat
    OBVIOUS
  <2> QED
    BY Constants DEF Pushed, Later
<1>2. step \in [(1..N) \X Nat -> Nat]
  BY <1>1
<1>3. PICK f \in [0..N -> Nat] : Follows(f, N, 0, step)
  <2> HIDE DEF step
  <2> QED
    BY <1>2, Recursion
<1>4. f = [n \in 0..N |-> IF n = 0 THEN 0 ELSE Pushed(n - 1, f[n - 1])]
  <2>1. ASSUME NEW n \in 0..N, n # 0
        PROVE  step[<<n, f[n - 1]>>] = Pushed(n - 1, f[n - 1])
    <3>1. n \in 1..N /\ n - 1 \in 0..N
      BY <2>1
    <3>2. <<n, f[n - 1]>> \in (1..N) \X Nat
      BY <3>1
    <3> QED
      BY <3>2
  <2> HIDE DEF step
  <2> QED
    BY <1>3, <2>1 DEF Follows
<1>5. PICK g : /\ g = [n \in 0..N |-> IF n = 0 THEN 0 ELSE Pushed(n - 1, g[n - 1])]
               /\ Deserialized(N) = g[N]
  BY <1>4, Zenon DEF Deserialized
<1> DEFINE T == {n \in 0..N : g[n] \in Nat /\ n <= g[n]}
<1>6. 0 \in T
  BY <1>5
<1>7. ASSUME NEW n \in 0..(N - 1), n \in T PROVE n + 1 \in T
  <2>1. n \in Nat /\ n + 1 \in 0..N /\ n + 1 # 0 /\ (n + 1) - 1 = n
    OBVIOUS
  <2>2. g[n + 1] = Pushed(n, g[n])
    BY <1>5, <2>1
  <2>3. g[n] \in Nat /\ n <= g[n]
    BY <1>7
  <2>4. g[n + 1] \in Nat /\ n + 1 <= g[n + 1]
    BY <2>1, <2>2, <2>3, PushedRoom
  <2> QED
    BY <2>1, <2>4
<1> HIDE DEF T
<1>8. 0..N \subseteq T
  BY <1>6, <1>7, UpTo
<1> QED
  BY <1>5, <1>8 DEF T

LEMMA RouteSizeType ==
    ASSUME NEW r \in Routes, NEW id \in Nat, NEW capacity \in Nat
    PROVE  RouteSize(r, id, capacity) \in Nat
<1>1. /\ Later(capacity, Reserved) \in Nat /\ SampleBytes \in Nat /\ RouteBytes[r] \in Nat
  BY Constants DEF Later
<1>2. SampleBytes * Later(capacity, Reserved) \in Nat
  BY <1>1, Products
<1> QED
  BY <1>1, <1>2 DEF RouteSize

\* Sums of sizes follow the laws of sums; more room is not a smaller size.
LEMMA SizesType ==
    ASSUME NEW ids \in [Routes -> Nat], NEW rooms \in [Routes -> Nat]
    PROVE  /\ Sizes(ids, rooms) \in [Routes -> Nat]
           /\ SumLaws(Sizes(ids, rooms), Routes)
           /\ \A r \in Routes : Sizes(ids, rooms)[r] = RouteSize(r, ids[r], rooms[r])
<1>1. ASSUME NEW r \in Routes
      PROVE  RouteSize(r, ids[r], rooms[r]) \in Nat
  BY RouteSizeType
<1>2. Sizes(ids, rooms) \in [Routes -> Nat]
  BY <1>1 DEF Sizes
<1>3. SumLaws(Sizes(ids, rooms), Routes)
  BY <1>2, Constants, SumsAreLawful
<1> QED
  BY <1>2, <1>3 DEF Sizes

LEMMA MoreRoom ==
    ASSUME NEW r \in Routes, NEW id \in Nat, NEW c \in Nat, NEW d \in Nat, c <= d
    PROVE  RouteSize(r, id, c) <= RouteSize(r, id, d)
<1>1. /\ Later(c, Reserved) \in Nat /\ Later(d, Reserved) \in Nat
      /\ Later(c, Reserved) <= Later(d, Reserved)
      /\ SampleBytes \in Nat /\ RouteBytes[r] \in Nat
  BY Constants DEF Later
<1>2. /\ SampleBytes * Later(c, Reserved) <= SampleBytes * Later(d, Reserved)
      /\ SampleBytes * Later(c, Reserved) \in Nat /\ SampleBytes * Later(d, Reserved) \in Nat
  BY <1>1, Products
<1> QED
  BY <1>1, <1>2 DEF RouteSize

LEMMA SizeType ==
    ASSUME NEW rs, NEW us,
           NEW ids \in [Routes -> Nat], NEW rooms \in [Routes -> Nat]
    PROVE  /\ Tracked(rs) \in SUBSET Routes /\ Pending(us) \in SUBSET Trails
           /\ IsFiniteSet(Tracked(rs)) /\ IsFiniteSet(Pending(us))
           /\ Cardinality(Tracked(rs)) \in Nat /\ Cardinality(Pending(us)) \in Nat
           /\ SumFunctionOnSet(Sizes(ids, rooms), Tracked(rs)) \in Nat
           /\ SumFunctionOnSet(UseBytes, Pending(us)) \in Nat
           /\ Size(rs, ids, rooms, us) \in Nat
<1>1. Tracked(rs) \in SUBSET Routes /\ Pending(us) \in SUBSET Trails
  BY DEF Tracked, Pending
<1>2. IsFiniteSet(Tracked(rs)) /\ IsFiniteSet(Pending(us))
  BY <1>1, Constants, FS_Subset
<1>3. Cardinality(Tracked(rs)) \in Nat /\ Cardinality(Pending(us)) \in Nat
  BY <1>2, FS_CardinalityType
<1>4. SumLaws(Sizes(ids, rooms), Routes) /\ SumLaws(UseBytes, Trails)
  BY SizesType, Constants, SumsAreLawful
<1>5. /\ SumFunctionOnSet(Sizes(ids, rooms), Tracked(rs)) \in Nat
      /\ SumFunctionOnSet(UseBytes, Pending(us)) \in Nat
  BY <1>1, <1>4 DEF SumLaws
<1> QED
  BY <1>1, <1>2, <1>3, <1>5 DEF Size

-----------------------------------------------------------------------------
(* The evidence *)

\* What record does to the tracker, with the observations obs and their room.
Recording(r, t, id, obs, capacity) ==
    LET after == bytes + Added(r, id, capacity)
    IN  /\ ~(routes[r] = <<>> /\ Cardinality(Tracked(routes)) >= MaxRoutes)
        /\ after <= HalfBytes
        /\ routes' = [routes EXCEPT ![r] = obs]
        /\ ident' = [ident EXCEPT ![r] = id] /\ room' = [room EXCEPT ![r] = capacity]
        /\ credited' = credited \/ credited' = [credited EXCEPT ![r] = now]
        /\ \/ /\ bytes' = after
              /\ uses' = uses \/ (uses[t] # Never /\ uses' = [uses EXCEPT ![t] = now])
           \/ /\ bytes' = after + UseBytes[t] /\ after + UseBytes[t] <= HalfBytes
              /\ uses[t] = Never /\ uses' = [uses EXCEPT ![t] = now]

LEMMA Recorded ==
    ASSUME TypeInv, EvidenceInv, NEW r \in Routes, NEW t \in Trails, NEW depth \in Nat,
           NEW id \in Nat, Record(r, t, depth, id)
    PROVE  \E obs \in Seq(Obs), capacity \in Nat :
              /\ Evidence(obs, asked'[r]) /\ Len(obs) <= capacity
              /\ obs # <<>> \/ (credited[r] # Never /\ obs = routes[r])
              /\ UNCHANGED tracker \/ Recording(r, t, id, obs, capacity)
<1> DEFINE live == Expire(routes[r], now)
           length == Len(routes[r])
           credit == credited[r] = Never \/ now - credited[r] >= Sample
           seen == IF credit THEN Observe(routes[r], now, depth) ELSE routes[r]
           observed == credit /\ seen # live
           capacity == IF observed THEN Pushed(Len(live), length) ELSE length
<1>1. now \in Nat /\ asked[r] \in SUBSET Nat /\ routes[r] \in Seq(Obs) /\ length \in Nat
  BY DEF TypeInv
<1>2. asked[r] \subseteq asked'[r] /\ (depth > Window => now \in asked'[r])
  BY <1>1 DEF Record, TypeInv
<1>3. Evidence(routes[r], asked'[r])
  BY <1>2, MoreCame DEF EvidenceInv
<1>4. PICK o : o = Observe(routes[r], now, depth)
  OBVIOUS
<1>5. /\ o \in Seq(Obs) /\ o # <<>> /\ Evidence(o, asked'[r]) /\ live \in Seq(Obs)
      /\ o = live \/ Len(o) = Len(live) + 1
  BY <1>1, <1>2, <1>3, <1>4, Observed
<1>6. Len(live) <= length
  BY <1>1, Expired
<1>7. Evidence(seen, asked'[r]) /\ seen \in Seq(Obs)
  BY <1>1, <1>3, <1>4, <1>5
<1>8. seen # <<>> \/ (credited[r] # Never /\ seen = routes[r])
  BY <1>4, <1>5
<1>9. capacity \in Nat /\ Len(seen) <= capacity
  <2>1. /\ Len(live) \in Nat /\ length \in Nat /\ Len(o) \in Nat
        /\ seen = IF credit THEN o ELSE routes[r]
    BY <1>1, <1>4, <1>5
  <2> HIDE DEF live, length, credit
  <2>2. Pushed(Len(live), length) \in Nat /\ Len(live) + 1 <= Pushed(Len(live), length)
    BY <1>6, <2>1, PushedRoom
  <2>3. CASE observed
    BY <1>5, <2>1, <2>2, <2>3
  <2>4. CASE ~observed /\ credit
    BY <1>5, <1>6, <2>1, <2>4
  <2>5. CASE ~observed /\ ~credit
    BY <2>1, <2>5 DEF length
  <2> QED
    BY <2>3, <2>4, <2>5
<1>10. UNCHANGED tracker \/ Recording(r, t, id, seen, capacity)
  <2> DEFINE after == bytes + Added(r, id, capacity)
             fits == ~(routes[r] = <<>> /\ Cardinality(Tracked(routes)) >= MaxRoutes)
                     /\ after <= HalfBytes
             known == uses[t] # Never
             taken == known \/ /\ Cardinality(Pending(uses)) < MaxRoutes
                               /\ after + UseBytes[t] <= HalfBytes
  <2>1. IF fits
        THEN /\ routes' = [routes EXCEPT ![r] = seen]
             /\ ident' = [ident EXCEPT ![r] = id]
             /\ room' = [room EXCEPT ![r] = capacity]
             /\ credited' = IF observed THEN [credited EXCEPT ![r] = now] ELSE credited
             /\ bytes' = after + IF taken /\ ~known THEN UseBytes[t] ELSE 0
             /\ uses' = IF taken THEN [uses EXCEPT ![t] = now] ELSE uses
        ELSE UNCHANGED tracker
    BY DEF Record
  <2>2. after + 0 = after
    <3>1. RouteSize(r, id, capacity) \in Nat /\ RouteSize(r, ident[r], room[r]) \in Nat
      BY <1>9, RouteSizeType DEF TypeInv
    <3>2. Added(r, id, capacity) \in Int
      BY <3>1 DEF Added
    <3> HIDE DEF capacity
    <3> QED
      BY <3>2 DEF TypeInv
  <2> HIDE DEF seen, capacity, observed
  <2> QED
    BY <2>1, <2>2 DEF Recording
<1> HIDE DEF seen, capacity
<1> QED
  BY <1>7, <1>8, <1>9, <1>10

LEMMA RecordEvidence ==
    ASSUME TypeInv, EvidenceInv, NEW r \in Routes, NEW t \in Trails, NEW depth \in Nat,
           NEW id \in Nat, Record(r, t, depth, id)
    PROVE  TypeInv' /\ EvidenceInv'
<1>1. now \in Nat /\ asked[r] \in SUBSET Nat
  BY DEF TypeInv
<1>2. /\ asked' \in [Routes -> SUBSET Nat]
      /\ \A q \in Routes : asked[q] \subseteq asked'[q]
  BY <1>1 DEF Record, TypeInv
<1>3. /\ \A q \in Routes : Evidence(routes[q], asked'[q])
      /\ \A q \in Routes : Evidence(slot.routes[q], asked'[q])
      /\ \A q \in Routes : Evidence(disk.routes[q], asked'[q])
  BY <1>2, MoreCame DEF EvidenceInv
<1>4. PICK obs \in Seq(Obs), capacity \in Nat :
         /\ Evidence(obs, asked'[r])
         /\ UNCHANGED tracker \/ Recording(r, t, id, obs, capacity)
  BY Recorded
<1>5. UNCHANGED <<now, slot, disk>>
  BY DEF Record, writer
<1>6. CASE UNCHANGED tracker
  BY <1>2, <1>3, <1>5, <1>6 DEF tracker, TypeInv, EvidenceInv
<1>7. CASE Recording(r, t, id, obs, capacity)
  <2>1. routes' \in [Routes -> Seq(Obs)] /\ \A q \in Routes : Evidence(routes'[q], asked'[q])
    BY <1>3, <1>4, <1>7 DEF TypeInv, Recording
  <2>2. ident' \in [Routes -> Nat] /\ room' \in [Routes -> Nat]
    BY <1>7 DEF TypeInv, Recording
  <2>3. credited' \in [Routes -> Nat] /\ uses' \in [Trails -> Nat]
    BY <1>1, <1>7 DEF TypeInv, Recording
  <2>4. bytes' \in Int
    <3>1. RouteSize(r, id, capacity) \in Nat /\ RouteSize(r, ident[r], room[r]) \in Nat
      BY RouteSizeType DEF TypeInv
    <3>2. Added(r, id, capacity) \in Int /\ UseBytes[t] \in Nat /\ bytes \in Int
      BY <3>1, Constants DEF Added, TypeInv
    <3> QED
      BY <1>7, <3>2 DEF Recording
  <2> QED
    BY <1>2, <1>3, <1>5, <2>1, <2>2, <2>3, <2>4 DEF TypeInv, EvidenceInv
<1> QED
  BY <1>4, <1>6, <1>7

\* What expires keeps its evidence.
LEMMA LiveEvidence ==
    ASSUME NEW rs \in [Routes -> Seq(Obs)], NEW t,
           \A r \in Routes : Evidence(rs[r], asked[r])
    PROVE  \A r \in Routes : Expire(rs[r], t) \in Seq(Obs) /\ Evidence(Expire(rs[r], t), asked[r])
BY ExpiredEvidence

LEMMA NoEvidence == \A came : <<>> \in Seq(Obs) /\ Evidence(<<>>, came)
BY DEF Evidence, Apart

LEMMA Nothing ==
    /\ Never \in Nat /\ NoUses \in [Trails -> Nat] /\ NoRoutes \in [Routes -> Seq(Obs)]
    /\ NoBytes \in [Routes -> Nat] /\ Empty \in Slot
    /\ Empty.routes = NoRoutes /\ Empty.ident = NoBytes /\ Empty.uses = NoUses
BY DEF Never, NoUses, NoRoutes, NoBytes, Empty, Slot

LEMMA InitEvidence ==
    ASSUME Init
    PROVE  TypeInv /\ EvidenceInv
<1>1. TypeInv
  BY Nothing DEF Init, TypeInv, Table
<1>2. EvidenceInv
  <2>1. \A r \in Routes : routes[r] = <<>> /\ slot.routes[r] = <<>> /\ disk.routes[r] = <<>>
    BY DEF Init, NoRoutes, Empty
  <2> QED
    BY <2>1, NoEvidence DEF EvidenceInv
<1> QED
  BY <1>1, <1>2

LEMMA PollEvidence ==
    ASSUME TypeInv, EvidenceInv, NEW due, Poll(due)
    PROVE  TypeInv' /\ EvidenceInv'
<1> DEFINE live == [r \in Routes |-> Expire(routes[r], now)]
<1>1. \A r \in Routes : live[r] \in Seq(Obs) /\ Evidence(live[r], asked[r])
  BY LiveEvidence DEF TypeInv, EvidenceInv
<1>2. live \in [Routes -> Seq(Obs)]
  BY <1>1
<1>3. /\ routes' = live /\ UNCHANGED <<now, disk, asked>>
      /\ credited' = [r \in Routes |-> IF live[r] = <<>> THEN Never ELSE credited[r]]
      /\ ident' = [r \in Routes |-> IF live[r] = <<>> THEN 0 ELSE ident[r]]
      /\ room' = [r \in Routes |-> IF live[r] = <<>> THEN 0 ELSE room[r]]
      /\ slot' = Batch(live, ident', uses) \/ slot' = slot
      /\ uses' = NoUses \/ uses' = uses
      /\ bytes' = Size(live, ident', room', uses')
  BY DEF Poll
<1> HIDE DEF live
<1>4. bytes' \in Int /\ ident' \in [Routes -> Nat] /\ room' \in [Routes -> Nat]
  <2>1. ident' \in [Routes -> Nat] /\ room' \in [Routes -> Nat]
    BY <1>3 DEF TypeInv
  <2>2. Size(live, ident', room', uses') \in Nat
    BY <2>1, SizeType
  <2> QED
    BY <1>3, <2>1, <2>2
<1>5. credited' \in [Routes -> Nat] /\ uses' \in [Trails -> Nat]
  BY <1>3, Nothing DEF TypeInv
<1>6. CASE slot' = slot
  BY <1>1, <1>2, <1>3, <1>4, <1>5, <1>6 DEF TypeInv, EvidenceInv
<1>7. CASE slot' = Batch(live, ident', uses)
  <2>1. slot' \in Slot /\ slot'.routes = live
    BY <1>2, <1>4, <1>7 DEF Batch, TypeInv, Slot
  <2> QED
    BY <1>1, <1>2, <1>3, <1>4, <1>5, <2>1 DEF TypeInv, EvidenceInv
<1> QED
  BY <1>3, <1>6, <1>7

\* What Restart loads, apart from the evidence.
LEMMA Loaded ==
    ASSUME TypeInv, Restart
    PROVE  \E loaded \in SUBSET Routes, rooms \in [Routes -> Nat] :
              LET sizes == Sizes(disk.ident, rooms)
                  fresh == [r \in Routes |-> Expire(disk.routes[r], now')]
              IN  /\ loaded \subseteq Tracked(fresh) /\ Fitting(loaded, Tracked(fresh), sizes)
                  /\ \A r \in Routes : Len(fresh[r]) <= rooms[r]
                  /\ routes' = [r \in Routes |-> IF r \in loaded THEN fresh[r] ELSE <<>>]
                  /\ ident' = [r \in Routes |-> IF r \in loaded THEN disk.ident[r] ELSE 0]
                  /\ room' = [r \in Routes |-> IF r \in loaded THEN rooms[r] ELSE 0]
                  /\ bytes' = SumFunctionOnSet(sizes, loaded)
<1> DEFINE rooms == [r \in Routes |-> Deserialized(Len(disk.routes[r]))]
           fresh == [r \in Routes |-> Expire(disk.routes[r], now')]
           sizes == Sizes(disk.ident, rooms)
<1>1. PICK loaded \in SUBSET Tracked(fresh) :
             /\ Fitting(loaded, Tracked(fresh), sizes)
             /\ routes' = [r \in Routes |-> IF r \in loaded THEN fresh[r] ELSE <<>>]
             /\ ident' = [r \in Routes |-> IF r \in loaded THEN disk.ident[r] ELSE 0]
             /\ room' = [r \in Routes |-> IF r \in loaded THEN rooms[r] ELSE 0]
             /\ bytes' = SumFunctionOnSet(sizes, loaded)
  BY DEF Restart
<1>2. loaded \in SUBSET Routes
  BY DEF Tracked
<1>3. ASSUME NEW r \in Routes
      PROVE  rooms[r] \in Nat /\ Len(fresh[r]) <= rooms[r]
  <2> DEFINE n == Len(disk.routes[r])
  <2>1. disk.routes[r] \in Seq(Obs)
    BY DEF TypeInv, Table
  <2>2. n \in Nat
    BY <2>1
  <2>5. Len(Expire(disk.routes[r], now')) <= n
    BY <2>1, Expired
  <2>3. Len(Expire(disk.routes[r], now')) \in Nat
    BY <2>1, Expired DEF Samples
  <2> HIDE DEF n
  <2>4. Deserialized(n) \in Nat /\ n <= Deserialized(n)
    BY <2>2, DeserializedRoom
  <2>6. Len(fresh[r]) <= Deserialized(n)
    BY <2>2, <2>3, <2>4, <2>5
  <2> QED
    BY <2>4, <2>6 DEF n
<1>4. rooms \in [Routes -> Nat]
  BY <1>3
<1> HIDE DEF rooms
<1> QED
  BY <1>1, <1>2, <1>3, <1>4

LEMMA RestartEvidence ==
    ASSUME TypeInv, EvidenceInv, Restart
    PROVE  TypeInv' /\ EvidenceInv'
<1> DEFINE fresh == [r \in Routes |-> Expire(disk.routes[r], now')]
<1>1. \A r \in Routes : fresh[r] \in Seq(Obs) /\ Evidence(fresh[r], asked[r])
  BY LiveEvidence DEF TypeInv, EvidenceInv, Table
<1>2. PICK loaded \in SUBSET Routes, rooms \in [Routes -> Nat] :
         /\ routes' = [r \in Routes |-> IF r \in loaded THEN fresh[r] ELSE <<>>]
         /\ ident' = [r \in Routes |-> IF r \in loaded THEN disk.ident[r] ELSE 0]
         /\ room' = [r \in Routes |-> IF r \in loaded THEN rooms[r] ELSE 0]
         /\ bytes' = SumFunctionOnSet(Sizes(disk.ident, rooms), loaded)
  BY Loaded
<1>3. /\ now' \in 1..MaxTime /\ credited' = [r \in Routes |-> Never] /\ uses' = NoUses
      /\ slot' = Empty /\ UNCHANGED <<disk, asked>>
  BY DEF Restart
<1> HIDE DEF fresh
<1>4. routes' \in [Routes -> Seq(Obs)] /\ \A r \in Routes : Evidence(routes'[r], asked[r])
  BY <1>1, <1>2, NoEvidence
<1>5. \A r \in Routes : Evidence(slot'.routes[r], asked[r])
  <2>1. \A r \in Routes : slot'.routes[r] = <<>>
    BY <1>3, Nothing DEF NoRoutes
  <2> QED
    BY <2>1, NoEvidence
<1>6. credited' \in [Routes -> Nat] /\ bytes' \in Int
  <2>1. disk.ident \in [Routes -> Nat]
    BY DEF TypeInv, Table
  <2>2. SumLaws(Sizes(disk.ident, rooms), Routes)
    BY <2>1, SizesType
  <2>3. SumFunctionOnSet(Sizes(disk.ident, rooms), loaded) \in Nat
    BY <2>2 DEF SumLaws
  <2> QED
    BY <1>2, <1>3, <2>3, Nothing
<1>7. ident' \in [Routes -> Nat] /\ room' \in [Routes -> Nat]
  BY <1>2 DEF TypeInv, Table
<1> QED
  BY <1>3, <1>4, <1>5, <1>6, <1>7, Nothing DEF TypeInv, EvidenceInv

LEMMA EvidenceStep ==
    ASSUME TypeInv, EvidenceInv, [Next]_vars
    PROVE  TypeInv' /\ EvidenceInv'
<1>1. CASE \E lookup \in Lookups : Record(lookup[1], lookup[2], lookup[3], lookup[4])
  BY <1>1, Constants, RecordEvidence
<1>2. CASE \E due \in BOOLEAN : Poll(due)
  BY <1>2, PollEvidence
<1>3. CASE Tick
  <2>1. now' \in 1..MaxTime
    BY <1>3, Constants DEF Tick, TypeInv
  <2> QED
    BY <1>3, <2>1 DEF Tick, tracker, writer, TypeInv, EvidenceInv
<1>4. CASE WriteBegins \/ WriteFails \/ UNCHANGED vars
  BY <1>4 DEF WriteBegins, WriteFails, vars, tracker, writer, TypeInv, EvidenceInv
<1>5. CASE WriteEnds
  <2>1. /\ UNCHANGED <<now, tracker, asked>> /\ slot' = Empty
        /\ disk' = [routes |-> slot.routes, ident |-> slot.ident,
                    uses |-> [t \in Trails |-> Later(disk.uses[t], slot.uses[t])]]
    BY <1>5 DEF WriteEnds
  <2>2. disk' \in Table
    BY <2>1 DEF TypeInv, Slot, Table, Later
  <2>3. \A r \in Routes : slot'.routes[r] = <<>> /\ disk'.routes[r] = slot.routes[r]
    BY <2>1, Nothing DEF NoRoutes
  <2>4. slot' \in Slot
    BY <2>1, Nothing
  <2>5. TypeInv'
    BY <2>1, <2>2, <2>4 DEF TypeInv, tracker
  <2>6. EvidenceInv'
    BY <2>1, <2>3, NoEvidence DEF EvidenceInv, tracker
  <2> QED
    BY <2>5, <2>6
<1>6. CASE Restart
  BY <1>6, RestartEvidence
<1> QED
  BY <1>1, <1>2, <1>3, <1>4, <1>5, <1>6 DEF Next

-----------------------------------------------------------------------------
(* The bytes *)

\* Fewer routes with no more room, and fewer uses, are not more bytes.
LEMMA SmallerSize ==
    ASSUME NEW rs, NEW us, NEW qs, NEW vs,
           NEW ids \in [Routes -> Nat], NEW rooms \in [Routes -> Nat],
           NEW ods \in [Routes -> Nat], NEW ooms \in [Routes -> Nat],
           Tracked(rs) \subseteq Tracked(qs), Pending(us) \subseteq Pending(vs),
           \A r \in Tracked(rs) : ids[r] = ods[r] /\ rooms[r] <= ooms[r]
    PROVE  /\ Size(rs, ids, rooms, us) <= Size(qs, ods, ooms, vs)
           /\ Cardinality(Tracked(rs)) <= Cardinality(Tracked(qs))
<1>1. Tracked(qs) \in SUBSET Routes /\ Tracked(rs) \in SUBSET Tracked(qs)
  BY SizeType
<1>2. /\ Sizes(ids, rooms) \in [Routes -> Nat] /\ Sizes(ods, ooms) \in [Routes -> Nat]
  BY SizesType
<1>3. ASSUME NEW r \in Tracked(rs)
      PROVE  Sizes(ids, rooms)[r] <= Sizes(ods, ooms)[r]
  <2>1. r \in Routes /\ ids[r] = ods[r] /\ rooms[r] <= ooms[r]
    BY <1>1
  <2>2. RouteSize(r, ids[r], rooms[r]) <= RouteSize(r, ids[r], ooms[r])
    BY <2>1, MoreRoom
  <2> QED
    BY <2>1, <2>2, SizesType
<1>4. SumFunctionOnSet(Sizes(ids, rooms), Tracked(rs))
        <= SumFunctionOnSet(Sizes(ods, ooms), Tracked(qs))
  BY <1>1, <1>2, <1>3, Constants, SmallerSum
<1>5. SumFunctionOnSet(UseBytes, Pending(us)) <= SumFunctionOnSet(UseBytes, Pending(vs))
  <2>1. UseBytes \in [Trails -> Nat] /\ IsFiniteSet(Trails)
    BY Constants
  <2>2. Pending(vs) \in SUBSET Trails /\ Pending(us) \in SUBSET Pending(vs)
    BY DEF Pending
  <2>3. \A t \in Pending(us) : UseBytes[t] <= UseBytes[t]
    BY <2>1, <2>2
  <2> QED
    BY <2>1, <2>2, <2>3, SmallerSum
<1>6. Cardinality(Tracked(rs)) <= Cardinality(Tracked(qs))
  BY SizeType, FS_Subset
<1>7. /\ SumFunctionOnSet(Sizes(ids, rooms), Tracked(rs)) \in Nat
      /\ SumFunctionOnSet(Sizes(ods, ooms), Tracked(qs)) \in Nat
      /\ SumFunctionOnSet(UseBytes, Pending(us)) \in Nat
      /\ SumFunctionOnSet(UseBytes, Pending(vs)) \in Nat
  BY SizeType
<1> QED
  BY <1>4, <1>5, <1>6, <1>7 DEF Size

\* One route takes another size, or its first.
Grown(rs, ids, rooms, r, added) ==
    /\ SumFunctionOnSet(Sizes(ids, rooms), Tracked(rs))
         = SumFunctionOnSet(Sizes(ident, room), Tracked(routes)) + added
    /\ Cardinality(Tracked(rs)) =
         Cardinality(Tracked(routes)) + IF routes[r] = <<>> THEN 1 ELSE 0

LEMMA RouteRecorded ==
    ASSUME TypeInv, NEW r \in Routes, NEW obs, obs # <<>>,
           NEW id \in Nat, NEW capacity \in Nat, NEW rs, NEW ids, NEW rooms,
           rs = [routes EXCEPT ![r] = obs], ids = [ident EXCEPT ![r] = id],
           rooms = [room EXCEPT ![r] = capacity]
    PROVE  Grown(rs, ids, rooms, r, Added(r, id, capacity))
<1> DEFINE T == Tracked(routes)
           w == Sizes(ident, room)
           v == Sizes(ids, rooms)
<1>1. /\ ident \in [Routes -> Nat] /\ room \in [Routes -> Nat]
      /\ ids \in [Routes -> Nat] /\ rooms \in [Routes -> Nat]
      /\ ids[r] = id /\ rooms[r] = capacity
      /\ \A q \in Routes \ {r} : ids[q] = ident[q] /\ rooms[q] = room[q]
  BY DEF TypeInv
<1>2. /\ w \in [Routes -> Nat] /\ v \in [Routes -> Nat]
      /\ SumLaws(w, Routes) /\ SumLaws(v, Routes)
  BY <1>1, SizesType
<1>3. /\ v[r] = RouteSize(r, id, capacity) /\ w[r] = RouteSize(r, ident[r], room[r])
      /\ \A q \in Routes \ {r} : w[q] = v[q]
  <2>1. \A q \in Routes : w[q] = RouteSize(q, ident[q], room[q])
    BY <1>1, SizesType
  <2>2. \A q \in Routes : v[q] = RouteSize(q, ids[q], rooms[q])
    BY <1>1, SizesType
  <2> HIDE DEF w, v
  <2> QED
    BY <1>1, <2>1, <2>2
<1>4. Tracked(rs) = T \cup {r} /\ T \in SUBSET Routes /\ (r \in T <=> routes[r] # <<>>)
  BY DEF TypeInv, Tracked
<1>5. IsFiniteSet(T) /\ Cardinality(T) \in Nat /\ IsFiniteSet(Routes)
  BY <1>1, SizeType, Constants
<1> HIDE DEF T, w, v
<1>6. SumFunctionOnSet(v, T \ {r}) = SumFunctionOnSet(w, T \ {r})
  <2>1. \A q \in T \ {r} : v[q] = w[q]
    BY <1>3, <1>4
  <2>2. PICK S \in SUBSET Routes : S = T \ {r}
    BY <1>4
  <2>3. \A q \in S : v[q] = w[q]
    BY <2>1, <2>2
  <2>4. ASSUME NEW f \in [Routes -> Nat], NEW g \in [Routes -> Nat],
               \A q \in S : f[q] = g[q]
        PROVE  SumFunctionOnSet(f, S) = SumFunctionOnSet(g, S)
    BY <1>5, <2>4, SameSum
  <2>5. SumFunctionOnSet(v, S) = SumFunctionOnSet(w, S)
    BY <1>2, <2>3, <2>4
  <2> QED
    BY <2>2, <2>5, Zenon
<1>7. SumFunctionOnSet(v, T \cup {r}) = SumFunctionOnSet(w, T \ {r}) + v[r]
  <2>1. (T \cup {r}) \ {r} = T \ {r} /\ T \cup {r} \in SUBSET Routes
    BY <1>4
  <2>2. SumFunctionOnSet(v, T \cup {r}) = SumFunctionOnSet(v, (T \cup {r}) \ {r}) + v[r]
    BY <1>2, <2>1 DEF SumLaws
  <2> QED
    BY <1>6, <2>1, <2>2
<1>8. /\ SumFunctionOnSet(w, T \ {r}) \in Nat /\ SumFunctionOnSet(w, T) \in Nat
      /\ v[r] \in Nat /\ w[r] \in Nat
  BY <1>2, <1>4 DEF SumLaws
<1>9. CASE routes[r] = <<>>
  <2>1. T \ {r} = T /\ r \notin T
    BY <1>4, <1>9
  <2>2. SumFunctionOnSet(w, T \ {r}) = SumFunctionOnSet(w, T)
    BY <2>1
  <2>3. SumFunctionOnSet(v, T \cup {r}) = SumFunctionOnSet(w, T) + Added(r, id, capacity)
    BY <1>3, <1>7, <1>8, <1>9, <2>2 DEF Added
  <2>4. Cardinality(T \cup {r}) = Cardinality(T) + 1
    BY <1>5, <2>1, FS_AddElement
  <2> QED
    BY <1>4, <1>9, <2>3, <2>4 DEF T, v, w, Grown
<1>10. CASE routes[r] # <<>>
  <2>1. SumFunctionOnSet(w, T) = SumFunctionOnSet(w, T \ {r}) + w[r]
    BY <1>2, <1>4, <1>10 DEF SumLaws
  <2>2. SumFunctionOnSet(v, T \cup {r}) = SumFunctionOnSet(w, T) + Added(r, id, capacity)
    BY <1>3, <1>7, <1>8, <1>10, <2>1 DEF Added
  <2>3. T \cup {r} = T
    BY <1>4, <1>10
  <2>4. Cardinality(T \cup {r}) = Cardinality(T) + 0
    <3>1. Cardinality(T \cup {r}) = Cardinality(T)
      BY <2>3, Zenon
    <3> QED
      BY <1>5, <3>1
  <2> QED
    BY <1>4, <1>10, <2>2, <2>4 DEF T, v, w, Grown
<1> QED
  BY <1>9, <1>10

LEMMA UseRecorded ==
    ASSUME NEW us \in [Trails -> Nat], NEW t \in Trails, NEW at \in Nat \ {0},
           NEW new, new = [us EXCEPT ![t] = at]
    PROVE  SumFunctionOnSet(UseBytes, Pending(new)) =
             SumFunctionOnSet(UseBytes, Pending(us)) + IF us[t] = Never THEN UseBytes[t] ELSE 0
<1>1. /\ Pending(new) = Pending(us) \cup {t} /\ Pending(us) \in SUBSET Trails
      /\ t \in Pending(us) <=> us[t] # Never
  BY DEF Pending, Never
<1>2. UseBytes \in [Trails -> Nat] /\ SumLaws(UseBytes, Trails)
  BY Constants, SumsAreLawful
<1>3. CASE us[t] = Never
  <2>1. Pending(new) \ {t} = Pending(us) /\ Pending(new) \in SUBSET Trails /\ t \in Pending(new)
    BY <1>1, <1>3
  <2>2. SumFunctionOnSet(UseBytes, Pending(new)) =
          SumFunctionOnSet(UseBytes, Pending(new) \ {t}) + UseBytes[t]
    BY <1>2, <2>1 DEF SumLaws
  <2> QED
    BY <1>3, <2>1, <2>2
<1>4. CASE us[t] # Never
  <2>1. Pending(new) = Pending(us)
    BY <1>1, <1>4
  <2>2. SumFunctionOnSet(UseBytes, Pending(us)) \in Nat
    BY <1>1, <1>2 DEF SumLaws
  <2>3. SumFunctionOnSet(UseBytes, Pending(us)) = SumFunctionOnSet(UseBytes, Pending(us)) + 0
    BY <2>2
  <2> QED
    BY <1>4, <2>1, <2>3
<1> QED
  BY <1>3, <1>4

\* The parts of CountInv for given values, as a step leaves them.
Counted(rs, ids, rooms, us, count, s) ==
    /\ count = Size(rs, ids, rooms, us) /\ count <= HalfBytes
    /\ Cardinality(Tracked(rs)) <= MaxRoutes
    /\ Size(s.routes, s.ident, Lengths(s.routes), s.uses) <= HalfBytes

LEMMA CountedAfter ==
    ASSUME Counted(routes', ident', room', uses', bytes', slot'),
           \A q \in Routes : /\ credited'[q] # Never => routes'[q] # <<>>
                             /\ Len(routes'[q]) <= room'[q]
    PROVE  CountInv'
BY DEF Counted, CountInv, BytesExact, Size, Sizes, Tracked, Pending, Lengths

LEMMA TwoMore == \A p, q \in Nat, a \in Int, u \in Nat : (p + q) + a + u = (p + a) + (q + u)
OBVIOUS

LEMMA RecordCount ==
    ASSUME TypeInv, EvidenceInv, CountInv, NEW r \in Routes, NEW t \in Trails,
           NEW depth \in Nat, NEW id \in Nat, Record(r, t, depth, id)
    PROVE  CountInv'
<1>1. /\ Counted(routes, ident, room, uses, bytes, slot)
      /\ \A q \in Routes : /\ credited[q] # Never => routes[q] # <<>>
                           /\ Len(routes[q]) <= room[q]
  BY DEF Counted, CountInv, BytesExact
<1>2. UNCHANGED slot
  BY DEF Record, writer
<1>3. PICK obs \in Seq(Obs), capacity \in Nat :
         /\ Len(obs) <= capacity
         /\ obs # <<>> \/ (credited[r] # Never /\ obs = routes[r])
         /\ UNCHANGED tracker \/ Recording(r, t, id, obs, capacity)
  BY Recorded
<1>4. CASE UNCHANGED tracker
  BY <1>1, <1>2, <1>4, CountedAfter DEF tracker
<1>5. CASE Recording(r, t, id, obs, capacity)
  <2> DEFINE after == bytes + Added(r, id, capacity)
             R == SumFunctionOnSet(Sizes(ident, room), Tracked(routes))
             U == SumFunctionOnSet(UseBytes, Pending(uses))
             S == SumFunctionOnSet(Sizes(ident', room'), Tracked(routes'))
             V == SumFunctionOnSet(UseBytes, Pending(uses'))
  <2>1. obs # <<>>
    BY <1>1, <1>3
  <2>2. /\ routes' = [routes EXCEPT ![r] = obs] /\ ident' = [ident EXCEPT ![r] = id]
        /\ room' = [room EXCEPT ![r] = capacity]
    BY <1>5 DEF Recording
  <2>3. /\ S = R + Added(r, id, capacity)
        /\ Cardinality(Tracked(routes')) =
             Cardinality(Tracked(routes)) + IF routes[r] = <<>> THEN 1 ELSE 0
    <3>1. PICK rs, ids, rooms : rs = routes' /\ ids = ident' /\ rooms = room'
      OBVIOUS
    <3>2. /\ rs = [routes EXCEPT ![r] = obs] /\ ids = [ident EXCEPT ![r] = id]
          /\ rooms = [room EXCEPT ![r] = capacity]
      BY <2>2, <3>1
    <3>3. Grown(rs, ids, rooms, r, Added(r, id, capacity))
      BY <2>1, <3>2, RouteRecorded
    <3> QED
      BY <3>1, <3>3 DEF Grown
  <2>4. Cardinality(Tracked(routes')) <= MaxRoutes
    <3>1. /\ Cardinality(Tracked(routes)) \in Nat /\ MaxRoutes \in Nat
          /\ Cardinality(Tracked(routes)) <= MaxRoutes
          /\ ~(routes[r] = <<>> /\ Cardinality(Tracked(routes)) >= MaxRoutes)
      BY <1>1, <1>5, SizeType, Constants DEF Counted, Recording, TypeInv
    <3> QED
      BY <2>3, <3>1
  <2>5. /\ ident' \in [Routes -> Nat] /\ room' \in [Routes -> Nat]
        /\ uses \in [Trails -> Nat] /\ now \in Nat \ {0}
    BY <2>2 DEF TypeInv
  <2>6. /\ R \in Nat /\ U \in Nat /\ S \in Nat /\ V \in Nat
        /\ UseBytes[t] \in Nat /\ HalfBytes \in Nat /\ bytes \in Int
    BY <2>5, SizeType, Constants DEF TypeInv
  <2>7. bytes = R + U
    BY <1>1 DEF Counted, Size
  <2>8. Added(r, id, capacity) \in Int
    <3>1. RouteSize(r, id, capacity) \in Nat /\ RouteSize(r, ident[r], room[r]) \in Nat
      BY RouteSizeType DEF TypeInv
    <3> QED
      BY <3>1 DEF Added
  <2>9. bytes' = S + V /\ bytes' <= HalfBytes
    <3>1. uses' = [uses EXCEPT ![t] = now] =>
             V = U + IF uses[t] = Never THEN UseBytes[t] ELSE 0
      BY <2>5, UseRecorded
    <3>2. CASE /\ bytes' = after
               /\ uses' = uses \/ (uses[t] # Never /\ uses' = [uses EXCEPT ![t] = now])
      <4>1. V = U
        <5> HIDE DEF U, V
        <5>1. CASE uses' = uses
          BY <5>1 DEF U, V
        <5>2. CASE uses[t] # Never /\ uses' = [uses EXCEPT ![t] = now]
          BY <2>6, <3>1, <5>2
        <5> QED
          BY <3>2, <5>1, <5>2
      <4>2. after <= HalfBytes
        BY <1>5 DEF Recording
      <4> HIDE DEF R, U, S, V
      <4> QED
        BY <2>3, <2>6, <2>7, <2>8, <3>2, <4>1, <4>2
    <3>3. CASE /\ bytes' = after + UseBytes[t] /\ after + UseBytes[t] <= HalfBytes
               /\ uses[t] = Never /\ uses' = [uses EXCEPT ![t] = now]
      <4> HIDE DEF R, U, S, V
      <4>1. V = U + UseBytes[t]
        BY <3>1, <3>3
      <4>2. PICK a \in Int, u \in Nat : a = Added(r, id, capacity) /\ u = UseBytes[t]
        BY <2>6, <2>8
      <4>3. S = R + a /\ V = U + u
        BY <2>3, <4>1, <4>2
      <4>4. bytes' = bytes + a + u
        BY <3>3, <4>2
      <4>5. bytes' = S + V
        <5>1. bytes' = (R + U) + a + u
          BY <2>7, <4>4, Zenon
        <5>2. (R + U) + a + u = (R + a) + (U + u)
          BY <2>6, TwoMore
        <5> QED
          BY <4>3, <5>1, <5>2, Zenon
      <4>6. bytes' <= HalfBytes
        BY <3>3
      <4> QED
        BY <4>5, <4>6
    <3> QED
      BY <1>5, <3>2, <3>3 DEF Recording
  <2>10. Counted(routes', ident', room', uses', bytes', slot')
    BY <1>1, <1>2, <2>4, <2>9 DEF Counted, Size
  <2>11. \A q \in Routes : /\ credited'[q] # Never => routes'[q] # <<>>
                           /\ Len(routes'[q]) <= room'[q]
    BY <1>1, <1>3, <1>5, <2>1 DEF TypeInv, Recording
  <2> QED
    BY <2>10, <2>11, CountedAfter
<1> QED
  BY <1>3, <1>4, <1>5

LEMMA PollCount ==
    ASSUME TypeInv, EvidenceInv, CountInv, NEW due, Poll(due)
    PROVE  CountInv'
<1> DEFINE live == [r \in Routes |-> Expire(routes[r], now)]
<1>1. /\ routes' = live
      /\ credited' = [r \in Routes |-> IF live[r] = <<>> THEN Never ELSE credited[r]]
      /\ ident' = [r \in Routes |-> IF live[r] = <<>> THEN 0 ELSE ident[r]]
      /\ room' = [r \in Routes |-> IF live[r] = <<>> THEN 0 ELSE room[r]]
      /\ slot' = Batch(live, ident', uses) \/ slot' = slot
      /\ uses' = NoUses \/ uses' = uses
      /\ bytes' = Size(live, ident', room', uses')
  BY DEF Poll
<1>2. Tracked(live) \subseteq Tracked(routes)
  BY NothingExpired DEF Tracked
<1>3. \A r \in Routes : live[r] \in Seq(Obs) /\ Len(live[r]) \in Nat
                        /\ Len(live[r]) <= Len(routes[r]) /\ Len(routes[r]) \in Nat
  <2> SUFFICES ASSUME NEW r \in Routes
               PROVE  live[r] \in Seq(Obs) /\ Len(live[r]) \in Nat
                      /\ Len(live[r]) <= Len(routes[r]) /\ Len(routes[r]) \in Nat
    OBVIOUS
  <2>1. routes[r] \in Seq(Obs)
    BY DEF TypeInv
  <2>2. Expire(routes[r], now) \in Seq(Obs)
    BY <2>1, LiveEvidence DEF TypeInv, EvidenceInv
  <2>3. Len(Expire(routes[r], now)) <= Len(routes[r])
    BY <2>1, Expired
  <2>4. Len(Expire(routes[r], now)) \in Nat /\ Len(routes[r]) \in Nat
    BY <2>1, <2>2
  <2> QED
    BY <2>2, <2>3, <2>4
<1> HIDE DEF live
<1>4. Pending(uses') \subseteq Pending(uses)
  BY <1>1 DEF Pending, NoUses
<1>5. /\ ident \in [Routes -> Nat] /\ room \in [Routes -> Nat]
      /\ ident' \in [Routes -> Nat] /\ room' \in [Routes -> Nat]
      /\ Lengths(live) \in [Routes -> Nat]
  BY <1>1, <1>3 DEF TypeInv, Lengths
<1>6. /\ Counted(routes, ident, room, uses, bytes, slot)
      /\ \A q \in Routes : /\ credited[q] # Never => routes[q] # <<>>
                           /\ Len(routes[q]) <= room[q]
  BY DEF Counted, CountInv, BytesExact
<1>7. ASSUME NEW r \in Tracked(live)
      PROVE  /\ ident'[r] = ident[r] /\ room'[r] <= room[r]
             /\ Lengths(live)[r] <= room[r]
  <2>1. r \in Routes /\ live[r] # <<>>
    BY DEF Tracked
  <2>2. room[r] \in Nat /\ Len(live[r]) <= room[r]
    BY <1>3, <1>5, <1>6, <2>1
  <2> QED
    BY <1>1, <2>1, <2>2 DEF Lengths
<1>8. /\ Size(live, ident', room', uses') <= Size(routes, ident, room, uses)
      /\ Cardinality(Tracked(live)) <= Cardinality(Tracked(routes))
  BY <1>2, <1>4, <1>5, <1>7, SmallerSize
<1>9. Size(live, ident', Lengths(live), uses) <= Size(routes, ident, room, uses)
  BY <1>2, <1>5, <1>7, SmallerSize
<1>10. /\ Size(live, ident', room', uses') \in Nat /\ Size(routes, ident, room, uses) \in Nat
       /\ Size(live, ident', Lengths(live), uses) \in Nat
       /\ Cardinality(Tracked(live)) \in Nat /\ Cardinality(Tracked(routes)) \in Nat
       /\ HalfBytes \in Nat /\ MaxRoutes \in Nat
  BY <1>5, SizeType, Constants
<1>11. /\ Size(routes, ident, room, uses) <= HalfBytes
       /\ Cardinality(Tracked(routes)) <= MaxRoutes
       /\ Size(slot.routes, slot.ident, Lengths(slot.routes), slot.uses) <= HalfBytes
  BY <1>6 DEF Counted
<1>12. /\ Size(live, ident', room', uses') <= HalfBytes
       /\ Size(live, ident', Lengths(live), uses) <= HalfBytes
       /\ Cardinality(Tracked(live)) <= MaxRoutes
  BY <1>8, <1>9, <1>10, <1>11
<1>13. Size(slot'.routes, slot'.ident, Lengths(slot'.routes), slot'.uses) <= HalfBytes
  <2>1. CASE slot' = Batch(live, ident', uses)
    <3>1. slot'.routes = live /\ slot'.ident = ident' /\ slot'.uses = uses
      BY <2>1 DEF Batch
    <3> QED
      BY <1>12, <3>1
  <2> QED
    BY <1>1, <1>11, <2>1
<1>14. Counted(routes', ident', room', uses', bytes', slot')
  BY <1>1, <1>12, <1>13 DEF Counted
<1>15. ASSUME NEW q \in Routes
       PROVE  /\ credited'[q] # Never => routes'[q] # <<>>
              /\ Len(routes'[q]) <= room'[q]
  <2>1. CASE live[q] = <<>>
    BY <1>1, <2>1
  <2>2. CASE live[q] # <<>>
    <3>1. q \in Tracked(live) /\ routes'[q] = live[q] /\ room'[q] = room[q]
      BY <1>1, <2>2 DEF Tracked
    <3>2. Len(live[q]) <= room[q]
      BY <1>7, <3>1 DEF Lengths
    <3> QED
      BY <2>2, <3>1, <3>2
  <2> QED
    BY <2>1, <2>2
<1> QED
  BY <1>14, <1>15, CountedAfter

\* A tracker without uses, and the empty slot.
LEMMA EmptySize ==
    /\ \A rs, ids, rooms :
          ids \in [Routes -> Nat] /\ rooms \in [Routes -> Nat] =>
             Size(rs, ids, rooms, NoUses) = SumFunctionOnSet(Sizes(ids, rooms), Tracked(rs))
    /\ Size(NoRoutes, NoBytes, NoBytes, NoUses) = 0 /\ Cardinality(Tracked(NoRoutes)) = 0
    /\ Size(Empty.routes, Empty.ident, Lengths(Empty.routes), Empty.uses) = 0
<1>1. Pending(NoUses) = {} /\ Tracked(NoRoutes) = {} /\ Lengths(NoRoutes) = NoBytes
  BY DEF Pending, NoUses, Tracked, NoRoutes, Lengths, NoBytes
<1>2. /\ SumFunctionOnSet(UseBytes, {}) = 0 /\ SumFunctionOnSet(Sizes(NoBytes, NoBytes), {}) = 0
  BY Constants, Nothing, SizesType, SumsAreLawful DEF SumLaws
<1>3. ASSUME NEW rs, NEW ids \in [Routes -> Nat], NEW rooms \in [Routes -> Nat]
      PROVE  Size(rs, ids, rooms, NoUses) = SumFunctionOnSet(Sizes(ids, rooms), Tracked(rs))
  <2>1. SumFunctionOnSet(Sizes(ids, rooms), Tracked(rs)) \in Nat
    BY SizeType
  <2>2. Size(rs, ids, rooms, NoUses) = SumFunctionOnSet(Sizes(ids, rooms), Tracked(rs)) + 0
    BY <1>1, <1>2 DEF Size
  <2> QED
    BY <2>1, <2>2
<1>4. Size(NoRoutes, NoBytes, NoBytes, NoUses) = 0
  <2>1. Size(NoRoutes, NoBytes, NoBytes, NoUses)
          = SumFunctionOnSet(Sizes(NoBytes, NoBytes), Tracked(NoRoutes))
    BY <1>3, Nothing
  <2> QED
    BY <1>1, <1>2, <2>1, Zenon
<1>5. Cardinality(Tracked(NoRoutes)) = 0
  BY <1>1, FS_EmptySet
<1> QED
  BY <1>1, <1>3, <1>4, <1>5, Nothing

\* What initialize takes fits.
LEMMA FittingFits ==
    ASSUME NEW rows \in SUBSET Routes, NEW loaded \in SUBSET rows,
           NEW sizes \in [Routes -> Nat], Fitting(loaded, rows, sizes)
    PROVE  /\ SumFunctionOnSet(sizes, loaded) <= HalfBytes
           /\ Cardinality(loaded) <= MaxRoutes
<1>1. IsFiniteSet(loaded) /\ SumLaws(sizes, Routes) /\ loaded \in SUBSET Nat
  BY Constants, FS_Subset, SumsAreLawful
<1>2. HalfBytes \in Nat /\ MaxRoutes \in Nat \ {0}
  BY Constants
<1>3. CASE loaded = {}
  <2>1. SumFunctionOnSet(sizes, loaded) = 0 /\ Cardinality(loaded) = 0
    BY <1>1, <1>3, FS_EmptySet DEF SumLaws
  <2> QED
    BY <1>2, <2>1
<1>4. CASE loaded # {}
  <2>1. PICK r \in loaded : \A q \in loaded : r >= q
    BY <1>1, <1>4, Greatest
  <2> DEFINE before == {q \in loaded : q < r}
  <2>2. before = loaded \ {r}
    <3>1. ASSUME NEW q \in loaded PROVE q < r <=> q # r
      <4>1. q \in Nat /\ r \in Nat /\ r >= q
        BY <1>1, <2>1
      <4> QED
        BY <4>1
    <3> QED
      BY <3>1
  <2>3. Cardinality(before) < MaxRoutes /\ SumFunctionOnSet(sizes, before) + sizes[r] <= HalfBytes
    BY DEF Fitting
  <2> HIDE DEF before
  <2>4. SumFunctionOnSet(sizes, loaded) = SumFunctionOnSet(sizes, before) + sizes[r]
    BY <1>1, <2>2 DEF SumLaws
  <2>5. Cardinality(before) = Cardinality(loaded) - 1 /\ Cardinality(loaded) \in Nat
    BY <1>1, <2>2, FS_RemoveElement, FS_CardinalityType
  <2> QED
    BY <1>2, <2>3, <2>4, <2>5
<1> QED
  BY <1>3, <1>4

LEMMA RestartCount ==
    ASSUME TypeInv, Restart
    PROVE  CountInv'
<1> DEFINE fresh == [r \in Routes |-> Expire(disk.routes[r], now')]
<1>1. PICK loaded \in SUBSET Routes, rooms \in [Routes -> Nat] :
         /\ loaded \subseteq Tracked(fresh)
         /\ Fitting(loaded, Tracked(fresh), Sizes(disk.ident, rooms))
         /\ \A r \in Routes : Len(fresh[r]) <= rooms[r]
         /\ routes' = [r \in Routes |-> IF r \in loaded THEN fresh[r] ELSE <<>>]
         /\ ident' = [r \in Routes |-> IF r \in loaded THEN disk.ident[r] ELSE 0]
         /\ room' = [r \in Routes |-> IF r \in loaded THEN rooms[r] ELSE 0]
         /\ bytes' = SumFunctionOnSet(Sizes(disk.ident, rooms), loaded)
  BY Loaded
<1>2. /\ credited' = [r \in Routes |-> Never] /\ uses' = NoUses /\ slot' = Empty
  BY DEF Restart
<1>3. Tracked(fresh) \in SUBSET Routes /\ Tracked(routes') = loaded
  BY <1>1 DEF Tracked
<1>4. /\ disk.ident \in [Routes -> Nat]
      /\ ident' \in [Routes -> Nat] /\ room' \in [Routes -> Nat]
  BY <1>1 DEF TypeInv, Table
<1>5. Sizes(disk.ident, rooms) \in [Routes -> Nat] /\ Sizes(ident', room') \in [Routes -> Nat]
  BY <1>4, SizesType
<1> HIDE DEF fresh
<1>6. /\ SumFunctionOnSet(Sizes(disk.ident, rooms), loaded) <= HalfBytes
      /\ Cardinality(loaded) <= MaxRoutes
  BY <1>1, <1>3, <1>5, FittingFits
<1>7. SumFunctionOnSet(Sizes(ident', room'), loaded)
        = SumFunctionOnSet(Sizes(disk.ident, rooms), loaded)
  <2>1. ASSUME NEW r \in loaded
        PROVE  Sizes(ident', room')[r] = Sizes(disk.ident, rooms)[r]
    <3>1. r \in Routes /\ ident'[r] = disk.ident[r] /\ room'[r] = rooms[r]
      BY <1>1
    <3> QED
      BY <1>4, <3>1, SizesType
  <2>2. IsFiniteSet(Routes) /\ loaded \in SUBSET Routes
    BY Constants
  <2>3. ASSUME NEW w \in [Routes -> Nat], NEW v \in [Routes -> Nat],
               \A r \in loaded : w[r] = v[r]
        PROVE  SumFunctionOnSet(w, loaded) = SumFunctionOnSet(v, loaded)
    BY <2>2, <2>3, SameSum
  <2> QED
    BY <1>5, <2>1, <2>3
<1>8. bytes' = Size(routes', ident', room', uses')
  BY <1>1, <1>2, <1>3, <1>4, <1>7, EmptySize
<1>9. Size(slot'.routes, slot'.ident, Lengths(slot'.routes), slot'.uses) <= HalfBytes
  BY <1>2, EmptySize, Constants
<1>10. Counted(routes', ident', room', uses', bytes', slot')
  BY <1>1, <1>3, <1>6, <1>8, <1>9 DEF Counted
<1>11. ASSUME NEW q \in Routes
       PROVE  /\ credited'[q] # Never => routes'[q] # <<>>
              /\ Len(routes'[q]) <= room'[q]
  BY <1>1, <1>2
<1> QED
  BY <1>10, <1>11, CountedAfter

LEMMA InitCount ==
    ASSUME Init
    PROVE  CountInv
<1>1. /\ routes = NoRoutes /\ ident = NoBytes /\ room = NoBytes /\ uses = NoUses
      /\ bytes = 0 /\ slot = Empty /\ credited = [r \in Routes |-> Never]
  BY DEF Init
<1>2. BytesExact
  BY <1>1, Constants, EmptySize DEF BytesExact
<1>3. \A r \in Routes : (credited[r] # Never => routes[r] # <<>>) /\ Len(routes[r]) <= room[r]
  BY <1>1 DEF NoRoutes, NoBytes
<1> QED
  BY <1>2, <1>3 DEF CountInv

LEMMA CountStep ==
    ASSUME TypeInv, EvidenceInv, CountInv, [Next]_vars
    PROVE  CountInv'
<1>1. CASE \E lookup \in Lookups : Record(lookup[1], lookup[2], lookup[3], lookup[4])
  BY <1>1, Constants, RecordCount
<1>2. CASE \E due \in BOOLEAN : Poll(due)
  BY <1>2, PollCount
<1>3. CASE Tick \/ WriteBegins \/ WriteFails \/ UNCHANGED vars
  <2>1. UNCHANGED <<tracker, slot>>
    BY <1>3 DEF Tick, WriteBegins, WriteFails, vars, tracker, writer
  <2>2. Counted(routes', ident', room', uses', bytes', slot')
    BY <2>1 DEF tracker, Counted, CountInv, BytesExact
  <2> QED
    BY <2>1, <2>2, CountedAfter DEF tracker, CountInv
<1>4. CASE WriteEnds
  <2>1. UNCHANGED tracker /\ slot' = Empty
    BY <1>4 DEF WriteEnds
  <2>2. Size(slot'.routes, slot'.ident, Lengths(slot'.routes), slot'.uses) <= HalfBytes
    BY <2>1, Constants, EmptySize
  <2>3. Counted(routes', ident', room', uses', bytes', slot')
    BY <2>1, <2>2 DEF tracker, Counted, CountInv, BytesExact
  <2> QED
    BY <2>1, <2>3, CountedAfter DEF tracker, CountInv
<1>5. CASE Restart
  BY <1>5, RestartCount
<1> QED
  BY <1>1, <1>2, <1>3, <1>4, <1>5 DEF Next

-----------------------------------------------------------------------------
\* For any instance: observations an interval apart, that lookups gave, and
\* bytes that are counted.
THEOREM InductiveInvariant == Spec => []IInv
<1>1. Init => IInv
  BY InitEvidence, InitCount DEF IInv
<1>2. IInv /\ [Next]_vars => IInv'
  BY EvidenceStep, CountStep DEF IInv
<1> QED
  BY <1>1, <1>2, PTL DEF Spec

\* A target: two deep samples, and the lookups they are of.
LEMMA TwoSamples ==
    ASSUME TypeInv, EvidenceInv
    PROVE  TargetJustified
<1> SUFFICES ASSUME NEW r \in Routes, Target(routes[r], now) > 0
             PROVE  \E x, y \in asked[r] : y - x >= Sample /\ now - x < Expiry
  BY DEF TargetJustified
<1> DEFINE deep == {i \in DOMAIN routes[r] :
                       Fresh(routes[r][i], now) /\ routes[r][i].depth > Window}
<1>1. ~(Cardinality(deep) < 2)
  BY DEF Target
<1>2. deep \in SUBSET Nat /\ IsFiniteSet(deep)
  <2>1. Len(routes[r]) \in Nat /\ DOMAIN routes[r] = 1..Len(routes[r])
    BY DEF TypeInv
  <2>2. IsFiniteSet(1..Len(routes[r]))
    BY <2>1, FirstNumbers
  <2> QED
    BY <2>1, <2>2, FS_Subset
<1> HIDE DEF deep
<1>3. PICK i, j \in deep : i < j
  <2>1. SUFFICES ASSUME \A i, j \in deep : ~(i < j) PROVE FALSE
    OBVIOUS
  <2>2. \A i, j \in deep : i = j
    BY <1>2, <2>1
  <2>3. deep = {} \/ \E i : deep = {i}
    <3>1. ASSUME deep # {} PROVE \E i : deep = {i}
      <4>1. PICK i : i \in deep
        BY <3>1
      <4>2. deep = {i}
        BY <2>2, <4>1
      <4> QED
        BY <4>2
    <3> QED
      BY <3>1
  <2>4. Cardinality(deep) = 0 \/ Cardinality(deep) = 1
    BY <2>3, FS_EmptySet, FS_Singleton
  <2> QED
    BY <1>1, <2>4
<1>4. /\ i \in DOMAIN routes[r] /\ j \in DOMAIN routes[r]
      /\ Fresh(routes[r][i], now)
      /\ routes[r][i].depth > Window /\ routes[r][j].depth > Window
  BY DEF deep
<1>5. Evidence(routes[r], asked[r])
  BY DEF EvidenceInv
<1>6. /\ routes[r][i].at \in asked[r] /\ routes[r][j].at \in asked[r]
      /\ routes[r][j].at - routes[r][i].at >= Sample
      /\ now - routes[r][i].at < Expiry
  BY <1>3, <1>4, <1>5 DEF Evidence, Apart, Fresh
<1> QED
  BY <1>6

\* RouteDemand::target: whatever is persisted, loaded after a restart, retried
\* or recorded at a clock that went back, a target has two deep lookups behind
\* it, an interval apart and the older not expired.
THEOREM TargetsAreJustified == Spec => []TargetJustified
<1>1. IInv => TargetJustified
  BY TwoSamples DEF IInv
<1> QED
  BY <1>1, InductiveInvariant, PTL

\* Tracker.bytes: what record adds is what is there, expired routes are given
\* back, and neither the tracker nor the slot passes its half.
THEOREM BytesAreExact == Spec => []BytesExact
BY InductiveInvariant, PTL DEF IInv, CountInv
=============================================================================

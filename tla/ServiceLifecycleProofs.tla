----------------------- MODULE ServiceLifecycleProofs -----------------------
(***************************************************************************)
(* For any number of connections and any capacities: every gauge counts    *)
(* what it stands for, a request that was let in fits the second gauge,    *)
(* and the way down of serve() strands no request and keeps the writer     *)
(* until its last user is gone.                                            *)
(*                                                                         *)
(* Gauges are cardinalities of sets of connections.  One connection        *)
(* changes in a step, so the lemmas count what one element does to a set.  *)
(***************************************************************************)
EXTENDS ServiceLifecycle, SequenceTheorems, FiniteSetTheorems, TLAPS

Down == {"joining", "notified", "indexer_joined", "background_joined", "gone"}

TypeInv ==
    /\ conn \in [Conns -> [at : Stages, kind : Kinds, job : Jobs \cup {NoJob}]]
    /\ active \in Int
    /\ admitted \in [Gauged -> Int] /\ executing \in [Gauged -> Int]
    /\ queue \in [Lanes -> Seq(Conns)]
    /\ threads \in [Lanes -> Int]
    /\ serve \in {"checking", "accepting", "draining"} \cup Down
    /\ writer \in {"running", "stopped"}

\* The channels hold requests that wait in them, each once.
QueueInv ==
    \A l \in Lanes :
        /\ \A n \in DOMAIN queue[l] :
              At(queue[l][n]) = "queued" /\ LaneOf(queue[l][n]) = l
        /\ \A m, n \in DOMAIN queue[l] : queue[l][m] = queue[l][n] => m = n

\* A lane has no more threads than it began with, and one for each request
\* that one of them handles.
ThreadInv ==
    \A l \in Lanes : threads[l] <= Workers(l) /\ Cardinality(In(l, Busy)) <= threads[l]

\* The order of the joins.
OrderInv ==
    /\ serve \in Down => \A c \in Conns : At(c) = "none"
    /\ serve \in {"indexer_joined", "background_joined", "gone"} => indexer = "ended"
    /\ serve \in {"background_joined", "gone"} => background = "ended"
    /\ writer = "stopped" => serve = "gone"

IInv == TypeInv /\ GaugesExact /\ QueueInv /\ ThreadInv /\ OrderInv

Bit(P) == IF P THEN 1 ELSE 0

-----------------------------------------------------------------------------
(* Counting *)

LEMMA Constants ==
    /\ IsFiniteSet(Conns)
    /\ \A k : Lane(k) \in Lanes
    /\ \A l \in Lanes : Workers(l) \in Nat
    /\ \A l \in Gauged : l \in Lanes /\ Capacity(l) \in Nat /\ Workers(l) <= Capacity(l)
BY LifecycleAssumption DEF Lane, Lanes, Gauged, Workers, Capacity

\* Two sets that differ at most in c.
LEMMA OneElement ==
    ASSUME NEW A, NEW B, IsFiniteSet(A), IsFiniteSet(B), NEW c, A \ {c} = B \ {c}
    PROVE  Cardinality(B) = Cardinality(A) - Bit(c \in A) + Bit(c \in B)
<1>1. /\ Cardinality(A) \in Nat /\ Cardinality(B) \in Nat
  BY FS_CardinalityType
<1>2. CASE c \in A <=> c \in B
  <2>1. A = B
    BY <1>2
  <2> QED
    BY <1>1, <1>2, <2>1 DEF Bit
<1>3. CASE c \in A /\ c \notin B
  <2>1. B = A \ {c}
    BY <1>3
  <2>2. Cardinality(B) = Cardinality(A) - 1
    BY <1>3, <2>1, FS_RemoveElement
  <2> QED
    BY <1>1, <1>3, <2>2 DEF Bit
<1>4. CASE c \notin A /\ c \in B
  <2>1. B = A \cup {c}
    BY <1>4
  <2>2. Cardinality(B) = Cardinality(A) + 1
    BY <1>4, <2>1, FS_AddElement
  <2> QED
    BY <1>1, <1>4, <2>2 DEF Bit
<1> QED
  BY <1>2, <1>3, <1>4

\* Every count of connections is a number.
LEMMA Counts ==
    ASSUME NEW l, NEW stages
    PROVE  /\ Cardinality(In(l, stages)) \in Nat
           /\ IsFiniteSet(In(l, stages))
BY Constants, FS_Subset, FS_CardinalityType DEF In

\* Only connection c changes: what it does to the number of those of a lane
\* that are at some stages.
Other(c) == \A x \in Conns \ {c} : conn'[x] = conn[x]

LEMMA LaneCount ==
    ASSUME NEW c \in Conns, Other(c), NEW l, NEW stages
    PROVE  Cardinality(In(l, stages))' =
             Cardinality(In(l, stages)) - Bit(LaneOf(c) = l /\ At(c) \in stages)
                                        + Bit((LaneOf(c) = l /\ At(c) \in stages)')
<1> DEFINE A == In(l, stages)
           B == In(l, stages)'
<1>1. IsFiniteSet(A) /\ IsFiniteSet(B)
  BY Constants, FS_Subset DEF In
<1>2. A \ {c} = B \ {c}
  BY DEF In, Other, LaneOf, At
<1>3. /\ c \in A <=> LaneOf(c) = l /\ At(c) \in stages
      /\ c \in B <=> (LaneOf(c) = l /\ At(c) \in stages)'
  BY DEF In, LaneOf, At
<1>4. Cardinality(B) = Cardinality(A) - Bit(c \in A) + Bit(c \in B)
  BY <1>1, <1>2, OneElement
<1> QED
  BY <1>3, <1>4

LEMMA OpenCount ==
    ASSUME NEW c \in Conns, Other(c)
    PROVE  /\ Cardinality({x \in Conns : At(x) # "none"})' =
                Cardinality({x \in Conns : At(x) # "none"})
                   - Bit(At(c) # "none") + Bit(At(c)' # "none")
           /\ Cardinality({x \in Conns : At(x) # "none"}) \in Nat
<1> DEFINE A == {x \in Conns : At(x) # "none"}
           B == A'
<1>1. IsFiniteSet(A) /\ IsFiniteSet(B)
  BY Constants, FS_Subset
<1>2. A \ {c} = B \ {c}
  BY DEF Other, At
<1>3. Cardinality(B) = Cardinality(A) - Bit(c \in A) + Bit(c \in B)
  BY <1>1, <1>2, OneElement
<1> QED
  BY <1>1, <1>3, FS_CardinalityType

-----------------------------------------------------------------------------
(* What a step of one connection must do to keep the parts of IInv *)

\* Each gauge changes by what the connection begins or ends to count.
LEMMA GaugeStep ==
    ASSUME GaugesExact, NEW c \in Conns, Other(c),
           active' = active - Bit(At(c) # "none") + Bit(At(c)' # "none"),
           \A l \in Gauged :
              /\ admitted'[l] = admitted[l] - Bit(LaneOf(c) = l /\ At(c) \in Guarded)
                                            + Bit((LaneOf(c) = l /\ At(c) \in Guarded)')
              /\ executing'[l] = executing[l] - Bit(LaneOf(c) = l /\ At(c) \in {"handling"})
                                              + Bit((LaneOf(c) = l /\ At(c) \in {"handling"})')
    PROVE  GaugesExact'
<1>1. (active = Cardinality({x \in Conns : At(x) # "none"}))'
  BY OpenCount DEF GaugesExact
<1>2. ASSUME NEW l \in Gauged
      PROVE  /\ (admitted[l] = Cardinality(In(l, Guarded)))'
             /\ (executing[l] = Cardinality(In(l, {"handling"})))'
  <2>1. (admitted[l] = Cardinality(In(l, Guarded)))'
    BY LaneCount DEF GaugesExact
  <2>2. (executing[l] = Cardinality(In(l, {"handling"})))'
    BY LaneCount DEF GaugesExact
  <2> QED
    BY <2>1, <2>2
<1> QED
  BY <1>1, <1>2 DEF GaugesExact

\* A connection that comes to no thread leaves the threads enough.
LEMMA ThreadStepInv ==
    ASSUME TypeInv, ThreadInv, NEW c \in Conns, Other(c), threads' = threads,
           \A l \in Lanes : (LaneOf(c) = l /\ At(c) \in Busy)'
                               => LaneOf(c) = l /\ At(c) \in Busy
    PROVE  ThreadInv'
<1> SUFFICES ASSUME NEW l \in Lanes
             PROVE  (threads[l] <= Workers(l) /\ Cardinality(In(l, Busy)) <= threads[l])'
  BY DEF ThreadInv
<1>1. Cardinality(In(l, Busy)) \in Nat /\ threads[l] \in Int
  BY Counts DEF TypeInv
<1>2. Cardinality(In(l, Busy))' <= Cardinality(In(l, Busy))
  BY <1>1, LaneCount DEF Bit
<1>3. (Cardinality(In(l, Busy)) \in Nat)'
  BY Constants, FS_Subset, FS_CardinalityType DEF In
<1> QED
  BY <1>1, <1>2, <1>3 DEF ThreadInv, Workers

\* A connection that was not in a channel leaves the channels as they are.
LEMMA QueueStep ==
    ASSUME TypeInv, QueueInv, NEW c \in Conns, Other(c), queue' = queue,
           At(c) # "queued"
    PROVE  QueueInv'
<1>1. ASSUME NEW l \in Lanes, NEW n \in DOMAIN queue[l]
      PROVE  queue[l][n] \in Conns /\ queue[l][n] # c
  BY DEF QueueInv, TypeInv
<1> QED
  BY <1>1 DEF QueueInv, Other, At, LaneOf

\* Steps that leave the connections and their channels alone.
LEMMA SameConns ==
    ASSUME GaugesExact, QueueInv, ThreadInv, UNCHANGED <<conn, gauges, queue, threads>>
    PROVE  GaugesExact' /\ QueueInv' /\ ThreadInv'
<1>1. \A l, stages : In(l, stages)' = In(l, stages)
  BY DEF In, LaneOf, At
<1>2. {x \in Conns : At(x) # "none"}' = {x \in Conns : At(x) # "none"}
  BY DEF At
<1>3. GaugesExact'
  BY <1>1, <1>2 DEF GaugesExact, gauges
<1>4. QueueInv'
  BY DEF QueueInv, At, LaneOf
<1>5. ThreadInv'
  BY <1>1 DEF ThreadInv, Workers
<1> QED
  BY <1>3, <1>4, <1>5

\* While a connection is open serve() has not begun to join.
LEMMA OrderStep ==
    ASSUME OrderInv, NEW c \in Conns, At(c) # "none",
           serve' = serve, background' = background, writer' = writer
    PROVE  OrderInv'
BY DEF OrderInv, Down

-----------------------------------------------------------------------------
(* One lemma per action of a connection *)

LEMMA MoveEffect ==
    ASSUME TypeInv, NEW c \in Conns, NEW to \in Stages, Move(c, to)
    PROVE  /\ (conn \in [Conns -> [at : Stages, kind : Kinds, job : Jobs \cup {NoJob}]])'
           /\ Other(c) /\ At(c)' = to /\ LaneOf(c)' = LaneOf(c)
BY DEF TypeInv, Move, Other, At, LaneOf

\* A request that ends, wherever it holds its lane, gives back what it took.
LEMMA CloseStep ==
    ASSUME IInv, NEW c \in Conns, At(c) \notin {"none", "queued", "handling"}, Close(c),
           UNCHANGED <<queue, threads, serve, background, writer>>
    PROVE  IInv'
<1>1. /\ (conn \in [Conns -> [at : Stages, kind : Kinds, job : Jobs \cup {NoJob}]])'
      /\ Other(c) /\ At(c)' = "none"
  BY DEF IInv, TypeInv, Close, Closed, Other, At, Stages, Kinds
<1>2. /\ active' = active - 1 /\ executing' = executing
      /\ admitted' \in [Gauged -> Int]
      /\ \A l \in Gauged :
            admitted'[l] = admitted[l] - Bit(LaneOf(c) = l /\ At(c) \in Guarded)
  BY DEF Close, DropLane, IInv, TypeInv, Bit
<1>3. TypeInv'
  BY <1>1, <1>2 DEF IInv, TypeInv
<1>4. GaugesExact'
  <2>1. active' = active - Bit(At(c) # "none") + Bit(At(c)' # "none")
    BY <1>1, <1>2 DEF Bit, IInv, TypeInv
  <2>2. \A l \in Gauged :
           /\ admitted'[l] = admitted[l] - Bit(LaneOf(c) = l /\ At(c) \in Guarded)
                                         + Bit((LaneOf(c) = l /\ At(c) \in Guarded)')
           /\ executing'[l] = executing[l] - Bit(LaneOf(c) = l /\ At(c) \in {"handling"})
                                           + Bit((LaneOf(c) = l /\ At(c) \in {"handling"})')
    BY <1>1, <1>2 DEF Bit, Guarded, IInv, TypeInv
  <2> QED
    BY <1>1, <2>1, <2>2, GaugeStep DEF IInv
<1>5. QueueInv'
  BY <1>1, QueueStep DEF IInv
<1>6. ThreadInv'
  BY <1>1, ThreadStepInv DEF IInv, Busy
<1>7. OrderInv'
  BY OrderStep DEF IInv
<1> QED
  BY <1>3, <1>4, <1>5, <1>6, <1>7 DEF IInv

\* A framing thread that goes on with its request keeps its slots.
LEMMA GoOnStep ==
    ASSUME IInv, NEW c \in Conns, At(c) \in {"sharing", "waiting"},
           (conn \in [Conns -> [at : Stages, kind : Kinds, job : Jobs \cup {NoJob}]])',
           Other(c), At(c)' \in {"waiting", "sending"}, LaneOf(c)' = LaneOf(c),
           UNCHANGED <<gauges, queue, threads, serve, background, writer>>
    PROVE  IInv'
<1>1. TypeInv'
  BY DEF IInv, TypeInv, gauges
<1>2. GaugesExact'
  <2>1. active' = active - Bit(At(c) # "none") + Bit(At(c)' # "none")
    BY DEF Bit, IInv, TypeInv, gauges
  <2>2. \A l \in Gauged :
           /\ admitted'[l] = admitted[l] - Bit(LaneOf(c) = l /\ At(c) \in Guarded)
                                         + Bit((LaneOf(c) = l /\ At(c) \in Guarded)')
           /\ executing'[l] = executing[l] - Bit(LaneOf(c) = l /\ At(c) \in {"handling"})
                                           + Bit((LaneOf(c) = l /\ At(c) \in {"handling"})')
    BY DEF Bit, Guarded, IInv, TypeInv, gauges
  <2> QED
    BY <2>1, <2>2, GaugeStep DEF IInv
<1>3. QueueInv'
  BY QueueStep DEF IInv
<1>4. ThreadInv'
  BY ThreadStepInv DEF IInv, Busy
<1>5. OrderInv'
  BY OrderStep DEF IInv
<1> QED
  BY <1>1, <1>2, <1>3, <1>4, <1>5 DEF IInv

LEMMA AcceptStepInv ==
    ASSUME IInv, NEW c \in Conns, NEW k \in Requests, Accept(c, k)
    PROVE  IInv'
<1>1. CASE active < ConnectionCap
  <2>1. /\ (conn \in [Conns -> [at : Stages, kind : Kinds, job : Jobs \cup {NoJob}]])'
        /\ Other(c) /\ At(c)' = "framing"
    <3>1. conn' = [conn EXCEPT ![c] = [at |-> "framing", kind |-> k, job |-> NoJob]]
      BY <1>1 DEF Accept
    <3>2. k \in Kinds
      BY LifecycleAssumption
    <3> QED
      BY <3>1, <3>2 DEF IInv, TypeInv, Other, At, Stages
  <2>2. TypeInv'
    BY <1>1, <2>1 DEF Accept, IInv, TypeInv
  <2>3. GaugesExact'
    <3>1. active' = active - Bit(At(c) # "none") + Bit(At(c)' # "none")
      BY <1>1, <2>1 DEF Accept, Bit, IInv, TypeInv
    <3>2. \A l \in Gauged :
             /\ admitted'[l] = admitted[l] - Bit(LaneOf(c) = l /\ At(c) \in Guarded)
                                           + Bit((LaneOf(c) = l /\ At(c) \in Guarded)')
             /\ executing'[l] = executing[l] - Bit(LaneOf(c) = l /\ At(c) \in {"handling"})
                                             + Bit((LaneOf(c) = l /\ At(c) \in {"handling"})')
      BY <2>1 DEF Accept, Bit, Guarded, IInv, TypeInv
    <3> QED
      BY <2>1, <3>1, <3>2, GaugeStep DEF IInv
  <2>4. QueueInv'
    BY <2>1, QueueStep DEF IInv, Accept
  <2>5. ThreadInv'
    BY <2>1, ThreadStepInv DEF IInv, Busy, Accept
  <2>6. OrderInv'
    BY DEF IInv, OrderInv, Accept, Down
  <2> QED
    BY <2>2, <2>3, <2>4, <2>5, <2>6 DEF IInv
<1>2. CASE ~(active < ConnectionCap)
  <2>1. TypeInv' /\ OrderInv'
    BY <1>2 DEF Accept, IInv, TypeInv, OrderInv, At, Down
  <2> QED
    BY <1>2, <2>1, SameConns DEF Accept, IInv, gauges
<1> QED
  BY <1>1, <1>2

LEMMA FrameStep ==
    ASSUME IInv, NEW c \in Conns, Frame(c)
    PROVE  IInv'
<1> DEFINE to == IF conn[c].kind = "add" THEN "sharing" ELSE "sending"
<1>1. CASE Close(c)
  BY <1>1, CloseStep DEF Frame
<1>2. CASE /\ admitted' = [l \in Gauged |->
                             IF l = LaneOf(c) THEN admitted[l] + 1 ELSE admitted[l]]
           /\ Move(c, to) /\ UNCHANGED <<active, executing>>
  <2>1. /\ (conn \in [Conns -> [at : Stages, kind : Kinds, job : Jobs \cup {NoJob}]])'
        /\ Other(c) /\ At(c)' = to /\ LaneOf(c)' = LaneOf(c)
    <3>1. to \in Stages
      BY DEF Stages
    <3> QED
      BY <1>2, <3>1, MoveEffect DEF IInv
  <2>2. At(c) = "framing" /\ to \in {"sharing", "sending"}
    BY DEF Frame
  <2> HIDE DEF to
  <2>3. TypeInv'
    BY <1>2, <2>1 DEF Frame, IInv, TypeInv
  <2>4. GaugesExact'
    <3>1. active' = active - Bit(At(c) # "none") + Bit(At(c)' # "none")
      BY <1>2, <2>1, <2>2 DEF Bit, IInv, TypeInv
    <3>2. \A l \in Gauged :
             /\ admitted'[l] = admitted[l] - Bit(LaneOf(c) = l /\ At(c) \in Guarded)
                                           + Bit((LaneOf(c) = l /\ At(c) \in Guarded)')
             /\ executing'[l] = executing[l] - Bit(LaneOf(c) = l /\ At(c) \in {"handling"})
                                             + Bit((LaneOf(c) = l /\ At(c) \in {"handling"})')
      BY <1>2, <2>1, <2>2 DEF Bit, Guarded, IInv, TypeInv
    <3> QED
      BY <2>1, <3>1, <3>2, GaugeStep DEF IInv
  <2>5. QueueInv'
    BY <2>1, <2>2, QueueStep DEF IInv, Frame
  <2>6. ThreadInv'
    BY <2>1, <2>2, ThreadStepInv DEF IInv, Busy, Frame
  <2>7. OrderInv'
    BY <2>2, OrderStep DEF IInv, Frame
  <2> QED
    BY <2>3, <2>4, <2>5, <2>6, <2>7 DEF IInv
<1> QED
  BY <1>1, <1>2 DEF Frame

LEMMA ShareHistoryStep ==
    ASSUME IInv, NEW c \in Conns, ShareHistory(c)
    PROVE  IInv'
<1>1. CASE Close(c)
  BY <1>1, CloseStep DEF ShareHistory
<1>2. CASE Move(c, "sending") /\ UNCHANGED gauges
  <2>1. "sending" \in Stages
    BY DEF Stages
  <2> QED
    BY <1>2, <2>1, MoveEffect, GoOnStep DEF ShareHistory, IInv
<1>3. CASE \E j \in Jobs :
              /\ conn' = [conn EXCEPT ![c].at = "waiting", ![c].job = j]
              /\ UNCHANGED gauges
  <2>1. /\ (conn \in [Conns -> [at : Stages, kind : Kinds, job : Jobs \cup {NoJob}]])'
        /\ Other(c) /\ At(c)' = "waiting" /\ LaneOf(c)' = LaneOf(c)
    <3>1. PICK j \in Jobs : conn' = [conn EXCEPT ![c].at = "waiting", ![c].job = j]
      BY <1>3
    <3> QED
      BY <3>1 DEF IInv, TypeInv, Other, At, LaneOf, Stages
  <2> QED
    BY <1>3, <2>1, GoOnStep DEF ShareHistory
<1> QED
  BY <1>1, <1>2, <1>3 DEF ShareHistory

LEMMA AwaitHistoryStep ==
    ASSUME IInv, NEW c \in Conns, AwaitHistory(c)
    PROVE  IInv'
<1>1. CASE Close(c)
  BY <1>1, CloseStep DEF AwaitHistory
<1>2. CASE Move(c, "sending") /\ UNCHANGED gauges
  <2>1. "sending" \in Stages
    BY DEF Stages
  <2> QED
    BY <1>2, <2>1, MoveEffect, GoOnStep DEF AwaitHistory, IInv
<1> QED
  BY <1>1, <1>2 DEF AwaitHistory

LEMMA SendStep ==
    ASSUME IInv, NEW c \in Conns, Send(c)
    PROVE  IInv'
<1>. PICK l \in Lanes : l = LaneOf(c)
  BY Constants DEF LaneOf
<1>0. At(c) = "sending" /\ l = LaneOf(c)
  BY DEF Send
<1>1. CASE Close(c) /\ UNCHANGED queue
  BY <1>0, <1>1, CloseStep DEF Send
<1>2. CASE /\ queue' = [queue EXCEPT ![l] = Append(@, c)]
           /\ Move(c, "queued") /\ UNCHANGED gauges
  <2>1. /\ (conn \in [Conns -> [at : Stages, kind : Kinds, job : Jobs \cup {NoJob}]])'
        /\ Other(c) /\ At(c)' = "queued" /\ LaneOf(c)' = LaneOf(c)
    <3>1. "queued" \in Stages
      BY DEF Stages
    <3> QED
      BY <1>2, <3>1, MoveEffect DEF IInv
  <2>2. /\ queue[l] \in Seq(Conns) /\ queue'[l] = Append(queue[l], c)
        /\ \A m \in Lanes \ {l} : queue'[m] = queue[m]
    BY <1>0, <1>2 DEF IInv, TypeInv
  <2>3. TypeInv'
    BY <1>0, <1>2, <2>1, <2>2 DEF Send, IInv, TypeInv, gauges
  <2>4. GaugesExact'
    <3>1. active' = active - Bit(At(c) # "none") + Bit(At(c)' # "none")
      BY <1>0, <1>2, <2>1 DEF Bit, IInv, TypeInv, gauges
    <3>2. \A g \in Gauged :
             /\ admitted'[g] = admitted[g] - Bit(LaneOf(c) = g /\ At(c) \in Guarded)
                                           + Bit((LaneOf(c) = g /\ At(c) \in Guarded)')
             /\ executing'[g] = executing[g] - Bit(LaneOf(c) = g /\ At(c) \in {"handling"})
                                             + Bit((LaneOf(c) = g /\ At(c) \in {"handling"})')
      BY <1>0, <1>2, <2>1 DEF Bit, Guarded, IInv, TypeInv, gauges
    <3> QED
      BY <2>1, <3>1, <3>2, GaugeStep DEF IInv
  <2>5. QueueInv'
    <3>1. ASSUME NEW m \in Lanes \ {l}
          PROVE  /\ \A n \in DOMAIN queue'[m] :
                       At(queue[m][n])' = "queued" /\ LaneOf(queue[m][n])' = m
                 /\ \A i, n \in DOMAIN queue'[m] : queue'[m][i] = queue'[m][n] => i = n
      <4>1. \A n \in DOMAIN queue[m] : queue[m][n] \in Conns \ {c}
        BY <1>0 DEF IInv, TypeInv, QueueInv
      <4> QED
        BY <2>1, <2>2, <4>1 DEF IInv, QueueInv, Other, At, LaneOf
    <3>2. /\ \A n \in DOMAIN queue'[l] :
                At(queue[l][n])' = "queued" /\ LaneOf(queue[l][n])' = l
          /\ \A i, n \in DOMAIN queue'[l] : queue'[l][i] = queue'[l][n] => i = n
      <4>1. \A n \in DOMAIN queue[l] : queue[l][n] \in Conns \ {c}
        BY <1>0, <2>2 DEF IInv, QueueInv
      <4>2. /\ DOMAIN queue[l] = 1 .. Len(queue[l]) /\ Len(queue[l]) \in Nat
            /\ DOMAIN queue'[l] = 1 .. (Len(queue[l]) + 1)
            /\ \A n \in DOMAIN queue[l] : queue'[l][n] = queue[l][n]
            /\ queue'[l][Len(queue[l]) + 1] = c
        BY <2>2
      <4>3. \A n \in DOMAIN queue'[l] :
               \/ n \in DOMAIN queue[l] /\ queue'[l][n] = queue[l][n]
               \/ n = Len(queue[l]) + 1 /\ queue'[l][n] = c
        BY <4>2
      <4>4. \A n \in DOMAIN queue'[l] :
               At(queue[l][n])' = "queued" /\ LaneOf(queue[l][n])' = l
        BY <1>0, <2>1, <4>1, <4>3 DEF IInv, QueueInv, Other, At, LaneOf
      <4>5. \A i, n \in DOMAIN queue[l] : queue[l][i] = queue[l][n] => i = n
        BY <1>0 DEF IInv, QueueInv
      <4>6. \A i, n \in DOMAIN queue'[l] : queue'[l][i] = queue'[l][n] => i = n
        BY <4>1, <4>3, <4>5
      <4> QED
        BY <4>4, <4>6
    <3> QED
      BY <3>1, <3>2 DEF QueueInv
  <2>6. ThreadInv'
    BY <1>0, <2>1, ThreadStepInv DEF IInv, Busy, Send
  <2>7. OrderInv'
    BY <1>0, OrderStep DEF IInv, Send
  <2> QED
    BY <2>3, <2>4, <2>5, <2>6, <2>7 DEF IInv
<1> QED
  BY <1>1, <1>2 DEF Send

-----------------------------------------------------------------------------
(* The execution threads *)

LEMMA TakeStep ==
    ASSUME IInv, NEW l \in Lanes, Take(l)
    PROVE  IInv'
<1> DEFINE c == Head(queue[l])
<1>1. /\ queue[l] \in Seq(Conns) /\ queue[l] # <<>>
      /\ queue'[l] = Tail(queue[l])
      /\ \A m \in Lanes \ {l} : queue'[m] = queue[m]
      /\ queue' \in [Lanes -> Seq(Conns)]
  BY DEF Take, IInv, TypeInv
<1>2. /\ DOMAIN queue[l] = 1 .. Len(queue[l]) /\ Len(queue[l]) \in Nat \ {0}
      /\ DOMAIN queue'[l] = 1 .. (Len(queue[l]) - 1)
      /\ \A n \in DOMAIN queue'[l] : queue'[l][n] = queue[l][n + 1]
      /\ c = queue[l][1] /\ c \in Conns
  BY <1>1
<1>3. 1 \in DOMAIN queue[l] /\ At(c) = "queued" /\ LaneOf(c) = l
  BY <1>2 DEF IInv, QueueInv
<1>4. /\ (conn \in [Conns -> [at : Stages, kind : Kinds, job : Jobs \cup {NoJob}]])'
      /\ \A x \in Conns \ {c} : conn'[x] = conn[x]
      /\ conn'[c].at = "taken" /\ conn'[c].kind = conn[c].kind
  BY <1>2 DEF Take, Move, IInv, TypeInv, Stages
<1>5. PICK d \in Conns : d = c
  BY <1>2
<1> HIDE DEF c
<1>6. /\ Other(d) /\ At(d)' = "taken" /\ LaneOf(d)' = LaneOf(d)
      /\ At(d) = "queued" /\ LaneOf(d) = l
  BY <1>3, <1>4, <1>5 DEF Other, At, LaneOf
<1>7. TypeInv'
  BY <1>1, <1>4 DEF Take, IInv, TypeInv, gauges
<1>8. GaugesExact'
  <2>1. active' = active - Bit(At(d) # "none") + Bit(At(d)' # "none")
    BY <1>6 DEF Take, Bit, IInv, TypeInv, gauges
  <2>2. \A g \in Gauged :
           /\ admitted'[g] = admitted[g] - Bit(LaneOf(d) = g /\ At(d) \in Guarded)
                                         + Bit((LaneOf(d) = g /\ At(d) \in Guarded)')
           /\ executing'[g] = executing[g] - Bit(LaneOf(d) = g /\ At(d) \in {"handling"})
                                           + Bit((LaneOf(d) = g /\ At(d) \in {"handling"})')
    BY <1>6 DEF Take, Bit, Guarded, IInv, TypeInv, gauges
  <2> QED
    BY <1>6, <2>1, <2>2, GaugeStep DEF IInv
<1>9. QueueInv'
  <2>1. ASSUME NEW m \in Lanes \ {l}
        PROVE  /\ \A n \in DOMAIN queue'[m] :
                     At(queue[m][n])' = "queued" /\ LaneOf(queue[m][n])' = m
               /\ \A i, n \in DOMAIN queue'[m] : queue'[m][i] = queue'[m][n] => i = n
    <3>1. \A n \in DOMAIN queue[m] : queue[m][n] \in Conns \ {d}
      BY <1>6 DEF IInv, TypeInv, QueueInv
    <3>2. queue'[m] = queue[m]
      BY <1>1
    <3>3. \A x \in Conns \ {d} : conn'[x] = conn[x]
      BY <1>6 DEF Other
    <3>4. \A n \in DOMAIN queue[m] : conn'[queue[m][n]] = conn[queue[m][n]]
      BY <3>1, <3>3
    <3>5. /\ \A n \in DOMAIN queue[m] : At(queue[m][n]) = "queued" /\ LaneOf(queue[m][n]) = m
          /\ \A i, n \in DOMAIN queue[m] : queue[m][i] = queue[m][n] => i = n
      BY DEF IInv, QueueInv
    <3>6. \A n \in DOMAIN queue'[m] : At(queue[m][n])' = "queued" /\ LaneOf(queue[m][n])' = m
      BY <3>2, <3>4, <3>5 DEF At, LaneOf
    <3> QED
      BY <3>2, <3>5, <3>6
  <2>2. /\ \A n \in DOMAIN queue'[l] :
              At(queue[l][n])' = "queued" /\ LaneOf(queue[l][n])' = l
        /\ \A i, n \in DOMAIN queue'[l] : queue'[l][i] = queue'[l][n] => i = n
    <3>1. \A i, n \in DOMAIN queue[l] : queue[l][i] = queue[l][n] => i = n
      BY DEF IInv, QueueInv
    <3>2. \A n \in DOMAIN queue'[l] :
             /\ n + 1 \in DOMAIN queue[l] /\ n + 1 # 1
             /\ queue'[l][n] = queue[l][n + 1]
      BY <1>2
    <3>3. ASSUME NEW n \in DOMAIN queue'[l] PROVE queue'[l][n] \in Conns \ {d}
      <4>1. /\ n + 1 \in DOMAIN queue[l] /\ n + 1 # 1
            /\ queue'[l][n] = queue[l][n + 1]
        BY <3>2
      <4>2. queue[l][n + 1] # queue[l][1]
        BY <1>3, <3>1, <4>1
      <4>3. queue[l][n + 1] \in Conns
        BY <1>1, <4>1
      <4> QED
        BY <1>2, <1>5, <4>1, <4>2, <4>3
    <3>4. \A n \in DOMAIN queue'[l] : At(queue'[l][n]) = "queued" /\ LaneOf(queue'[l][n]) = l
      BY <3>2 DEF IInv, QueueInv
    <3>5. \A n \in DOMAIN queue'[l] :
             At(queue[l][n])' = "queued" /\ LaneOf(queue[l][n])' = l
      BY <1>6, <3>3, <3>4 DEF Other, At, LaneOf
    <3>6. \A i, n \in DOMAIN queue'[l] : queue'[l][i] = queue'[l][n] => i = n
      <4> SUFFICES ASSUME NEW i \in DOMAIN queue'[l], NEW n \in DOMAIN queue'[l],
                          queue'[l][i] = queue'[l][n]
                   PROVE  i = n
        OBVIOUS
      <4>1. i \in Int /\ n \in Int
        BY <1>2
      <4>2. queue[l][i + 1] = queue[l][n + 1]
        BY <3>2
      <4>3. i + 1 \in DOMAIN queue[l] /\ n + 1 \in DOMAIN queue[l]
        BY <3>2
      <4>4. i + 1 = n + 1
        BY <3>1, <4>2, <4>3
      <4> QED
        BY <4>1, <4>4
    <3> QED
      BY <3>5, <3>6
  <2> QED
    BY <2>1, <2>2 DEF QueueInv
<1>10. ThreadInv'
  <2> SUFFICES ASSUME NEW m \in Lanes
               PROVE  (threads[m] <= Workers(m) /\ Cardinality(In(m, Busy)) <= threads[m])'
    BY DEF ThreadInv
  <2>1. /\ Cardinality(In(m, Busy)) \in Nat /\ threads[m] \in Int /\ threads'[m] = threads[m]
        /\ threads[m] <= Workers(m) /\ Cardinality(In(m, Busy)) <= threads[m]
    BY Counts DEF IInv, TypeInv, ThreadInv, Take
  <2>2. Cardinality(In(m, Busy))' =
          Cardinality(In(m, Busy)) - Bit(LaneOf(d) = m /\ At(d) \in Busy)
                                   + Bit((LaneOf(d) = m /\ At(d) \in Busy)')
    BY <1>6, LaneCount
  <2>3. CASE m = l
    <3>1. Cardinality(In(m, Busy)) < threads[m]
      BY <2>3 DEF Take, Idle
    <3> QED
      BY <1>6, <2>1, <2>2, <3>1 DEF Bit, Busy, Workers
  <2>4. CASE m # l
    BY <1>6, <2>1, <2>2, <2>4 DEF Bit, Busy, Workers
  <2> QED
    BY <2>3, <2>4
<1>11. OrderInv'
  BY <1>6, OrderStep DEF Take, IInv
<1> QED
  BY <1>7, <1>8, <1>9, <1>10, <1>11 DEF IInv

\* Begin and Handle move a request on its thread and settle the second gauge.
LEMMA OnThreadStep ==
    ASSUME IInv, NEW c \in Conns, NEW to \in {"handling", "leaving"}, Move(c, to),
           At(c) \in {"taken", "handling"},
           executing' \in [Gauged -> Int],
           \A l \in Gauged :
              executing'[l] = executing[l] - Bit(LaneOf(c) = l /\ At(c) \in {"handling"})
                                           + Bit(LaneOf(c) = l /\ to = "handling"),
           UNCHANGED <<active, admitted, queue, threads, serve, background, writer>>
    PROVE  IInv'
<1>1. /\ (conn \in [Conns -> [at : Stages, kind : Kinds, job : Jobs \cup {NoJob}]])'
      /\ Other(c) /\ At(c)' = to /\ LaneOf(c)' = LaneOf(c)
  <2>1. to \in Stages
    BY DEF Stages
  <2> QED
    BY <2>1, MoveEffect DEF IInv
<1>2. TypeInv'
  BY <1>1 DEF IInv, TypeInv
<1>3. GaugesExact'
  <2>1. active' = active - Bit(At(c) # "none") + Bit(At(c)' # "none")
    BY <1>1 DEF Bit, IInv, TypeInv
  <2>2. \A l \in Gauged :
           /\ admitted'[l] = admitted[l] - Bit(LaneOf(c) = l /\ At(c) \in Guarded)
                                         + Bit((LaneOf(c) = l /\ At(c) \in Guarded)')
           /\ executing'[l] = executing[l] - Bit(LaneOf(c) = l /\ At(c) \in {"handling"})
                                           + Bit((LaneOf(c) = l /\ At(c) \in {"handling"})')
    BY <1>1 DEF Bit, Guarded, IInv, TypeInv
  <2> QED
    BY <1>1, <2>1, <2>2, GaugeStep DEF IInv
<1>4. QueueInv'
  BY <1>1, QueueStep DEF IInv
<1>5. ThreadInv'
  BY <1>1, ThreadStepInv DEF IInv, Busy
<1>6. OrderInv'
  BY OrderStep DEF IInv
<1> QED
  BY <1>2, <1>3, <1>4, <1>5, <1>6 DEF IInv

LEMMA BeginStep ==
    ASSUME IInv, NEW c \in Conns, Begin(c)
    PROVE  IInv'
<1>1. At(c) = "taken" /\ executing \in [Gauged -> Int]
  BY DEF Begin, IInv, TypeInv
<1>2. CASE /\ LaneOf(c) \in Gauged
           /\ executing' = [executing EXCEPT ![LaneOf(c)] = @ + 1]
           /\ Move(c, "handling")
  <2>1. executing' \in [Gauged -> Int]
    BY <1>1, <1>2
  <2>2. \A l \in Gauged :
           executing'[l] = executing[l] - Bit(LaneOf(c) = l /\ At(c) \in {"handling"})
                                        + Bit(LaneOf(c) = l /\ "handling" = "handling")
    BY <1>1, <1>2 DEF Bit
  <2> QED
    BY <1>1, <1>2, <2>1, <2>2, OnThreadStep DEF Begin
<1>3. CASE Move(c, "leaving") /\ UNCHANGED executing
  <2>1. \A l \in Gauged :
           executing'[l] = executing[l] - Bit(LaneOf(c) = l /\ At(c) \in {"handling"})
                                        + Bit(LaneOf(c) = l /\ "leaving" = "handling")
    BY <1>1, <1>3 DEF Bit
  <2> QED
    BY <1>1, <1>3, <2>1, OnThreadStep DEF Begin
<1>4. CASE LaneOf(c) \notin Gauged /\ Move(c, "handling") /\ UNCHANGED executing
  <2>1. \A l \in Gauged :
           executing'[l] = executing[l] - Bit(LaneOf(c) = l /\ At(c) \in {"handling"})
                                        + Bit(LaneOf(c) = l /\ "handling" = "handling")
    BY <1>1, <1>4 DEF Bit
  <2> QED
    BY <1>1, <1>4, <2>1, OnThreadStep DEF Begin
<1> QED
  BY <1>2, <1>3, <1>4 DEF Begin

LEMMA HandleStep ==
    ASSUME IInv, NEW c \in Conns, Handle(c)
    PROVE  IInv'
<1>1. At(c) = "handling" /\ executing \in [Gauged -> Int]
  BY DEF Handle, IInv, TypeInv
<1>2. executing' = [l \in Gauged |-> IF l = LaneOf(c) THEN executing[l] - 1
                                     ELSE executing[l]]
  BY DEF Handle
<1>3. executing' \in [Gauged -> Int]
  BY <1>1, <1>2
<1>4. \A l \in Gauged :
         executing'[l] = executing[l] - Bit(LaneOf(c) = l /\ At(c) \in {"handling"})
                                      + Bit(LaneOf(c) = l /\ "leaving" = "handling")
  BY <1>1, <1>2 DEF Bit
<1> QED
  BY <1>1, <1>3, <1>4, OnThreadStep DEF Handle

\* Threads end when serve has begun to join, and nothing is left to handle.
LEMMA EndThreadStep ==
    ASSUME IInv, NEW l \in Lanes, EndThread(l)
    PROVE  IInv'
<1>1. TypeInv' /\ OrderInv'
  BY DEF EndThread, IInv, TypeInv, OrderInv, gauges, At, Down
<1>2. GaugesExact'
  <2>1. \A m, stages : In(m, stages)' = In(m, stages)
    BY DEF EndThread, In, LaneOf, At
  <2>2. {x \in Conns : At(x) # "none"}' = {x \in Conns : At(x) # "none"}
    BY DEF EndThread, At
  <2> QED
    BY <2>1, <2>2 DEF EndThread, IInv, GaugesExact, gauges
<1>3. QueueInv'
  BY DEF EndThread, IInv, QueueInv, At, LaneOf
<1>4. ThreadInv'
  <2> SUFFICES ASSUME NEW m \in Lanes
               PROVE  (threads[m] <= Workers(m) /\ Cardinality(In(m, Busy)) <= threads[m])'
    BY DEF ThreadInv
  <2>1. In(m, Busy)' = In(m, Busy)
    BY DEF EndThread, In, LaneOf, At
  <2>2. /\ Cardinality(In(m, Busy)) \in Nat /\ threads[m] \in Int
        /\ threads[m] <= Workers(m) /\ Cardinality(In(m, Busy)) <= threads[m]
        /\ Workers(m) \in Nat
    BY Counts, Constants DEF IInv, TypeInv, ThreadInv
  <2>3. threads'[m] = IF m = l THEN threads[m] - 1 ELSE threads[m]
    BY DEF EndThread, IInv, TypeInv
  <2>4. m = l => Cardinality(In(m, Busy)) < threads[m]
    BY DEF EndThread, Idle
  <2>5. Workers(m)' = Workers(m)
    BY DEF Workers
  <2> QED
    BY <2>1, <2>2, <2>3, <2>4, <2>5
<1> QED
  BY <1>1, <1>2, <1>3, <1>4 DEF IInv

-----------------------------------------------------------------------------
(* The long-lived threads *)

LEMMA ServeStep ==
    ASSUME IInv,
           CheckStopping \/ AcceptNothing \/ Drained \/ NotifyAll \/ JoinIndexer
              \/ JoinBackground \/ FinishWriter
    PROVE  IInv'
<1>1. UNCHANGED <<conn, gauges, queue, threads>>
  BY DEF CheckStopping, AcceptNothing, Drained, NotifyAll, JoinIndexer,
         JoinBackground, FinishWriter
<1>2. TypeInv'
  BY <1>1 DEF IInv, TypeInv, gauges, Down, CheckStopping, AcceptNothing, Drained,
              NotifyAll, JoinIndexer, JoinBackground, FinishWriter
<1>3. OrderInv'
  <2> USE <1>1 DEF IInv, OrderInv, Down, At
  <2>1. CASE CheckStopping \/ AcceptNothing
    BY <2>1 DEF CheckStopping, AcceptNothing
  <2>2. CASE Drained
    \* No connection counts in active, so none is open.
    <3>1. Cardinality({x \in Conns : At(x) # "none"}) = 0
      BY <2>2 DEF Drained, GaugesExact
    <3>2. {x \in Conns : At(x) # "none"} = {}
      BY <3>1, Constants, FS_Subset, FS_EmptySet
    <3> QED
      BY <2>2, <3>2 DEF Drained
  <2>3. CASE NotifyAll
    BY <2>3 DEF NotifyAll
  <2>4. CASE JoinIndexer
    BY <2>4 DEF JoinIndexer
  <2>5. CASE JoinBackground
    BY <2>5 DEF JoinBackground
  <2>6. CASE FinishWriter
    BY <2>6 DEF FinishWriter
  <2> QED
    BY <2>1, <2>2, <2>3, <2>4, <2>5, <2>6
<1> QED
  BY <1>1, <1>2, <1>3, SameConns DEF IInv

LEMMA LongThreadStep ==
    ASSUME IInv, IndexerStep \/ SpuriousWake \/ BackgroundEnds
    PROVE  IInv'
<1>1. UNCHANGED <<conn, gauges, queue, threads, serve, writer>>
  BY DEF IndexerStep, IndexerLooks, IndexerWaits, IndexerFinishes, SpuriousWake,
         BackgroundEnds
<1>2. indexer = "ended" => indexer' = "ended"
  BY DEF IndexerStep, IndexerLooks, IndexerWaits, IndexerFinishes, SpuriousWake,
         BackgroundEnds
<1>3. background = "ended" => background' = "ended"
  BY DEF IndexerStep, IndexerLooks, IndexerWaits, IndexerFinishes, SpuriousWake,
         BackgroundEnds
<1>4. TypeInv' /\ OrderInv'
  BY <1>1, <1>2, <1>3 DEF IInv, TypeInv, OrderInv, gauges, At, Down
<1> QED
  BY <1>1, <1>4, SameConns DEF IInv

-----------------------------------------------------------------------------
(* The invariant *)

LEMMA InitInvariant == Init => IInv
<1> SUFFICES ASSUME Init PROVE IInv
  OBVIOUS
<1>1. TypeInv
  BY Constants DEF Init, TypeInv, Closed, Stages, Kinds
<1>2. \A c \in Conns : At(c) = "none"
  BY DEF Init, At, Closed
<1>3. /\ {x \in Conns : At(x) # "none"} = {}
      /\ \A l : In(l, Guarded) = {} /\ In(l, {"handling"}) = {} /\ In(l, Busy) = {}
  BY <1>2 DEF In, Guarded, Busy
<1>4. GaugesExact
  BY <1>3, FS_EmptySet DEF GaugesExact, Init
<1>5. QueueInv
  BY DEF QueueInv, Init
<1>6. ThreadInv
  <2>1. ASSUME NEW l \in Lanes
        PROVE  threads[l] <= Workers(l) /\ Cardinality(In(l, Busy)) <= threads[l]
    <3>1. threads[l] = Workers(l) /\ Workers(l) \in Nat
      BY Constants DEF Init
    <3>2. Cardinality(In(l, Busy)) = 0
      BY <1>3, FS_EmptySet
    <3> QED
      BY <3>1, <3>2
  <2> QED
    BY <2>1 DEF ThreadInv
<1>7. OrderInv
  BY DEF OrderInv, Init, Down
<1> QED
  BY <1>1, <1>4, <1>5, <1>6, <1>7 DEF IInv

LEMMA LeaveStep ==
    ASSUME IInv, NEW c \in Conns, Leave(c)
    PROVE  IInv'
BY CloseStep DEF Leave

LEMMA StepInvariant == IInv /\ [Next]_vars => IInv'
<1> SUFFICES ASSUME IInv, [Next]_vars PROVE IInv'
  OBVIOUS
<1>1. CASE AcceptStep \/ StopStep
  BY <1>1, ServeStep, AcceptStepInv DEF AcceptStep, StopStep
<1>2. CASE \E c \in Conns : ConnStep(c)
  BY <1>2, FrameStep, ShareHistoryStep, AwaitHistoryStep, SendStep, BeginStep,
     HandleStep, LeaveStep DEF ConnStep
<1>3. CASE \E l \in Lanes : ThreadStep(l)
  BY <1>3, TakeStep, EndThreadStep DEF ThreadStep
<1>4. CASE IndexerStep \/ SpuriousWake \/ BackgroundEnds
  BY <1>4, LongThreadStep
<1>5. CASE UNCHANGED vars
  <2>1. TypeInv' /\ OrderInv'
    BY <1>5 DEF vars, gauges, IInv, TypeInv, OrderInv, At
  <2> QED
    BY <1>5, <2>1, SameConns DEF vars, gauges, IInv
<1> QED
  BY <1>1, <1>2, <1>3, <1>4, <1>5 DEF Next

\* What runs in a lane, a request that is about to run not among it, is less
\* than the threads of the lane.
LEMMA Fits == IInv => ExecutionFits
<1> SUFFICES ASSUME IInv, NEW c \in Conns, At(c) = "taken", LaneOf(c) \in Gauged
             PROVE  executing[LaneOf(c)] < Capacity(LaneOf(c))
  BY DEF ExecutionFits
<1> DEFINE l == LaneOf(c)
           R == In(l, {"handling"})
           B == In(l, Busy)
<1>1. /\ IsFiniteSet(R) /\ Cardinality(R) \in Nat
      /\ IsFiniteSet(B) /\ Cardinality(B) \in Nat
  BY Counts
<1>2. c \in B /\ R \subseteq B \ {c}
  BY DEF In, Busy
<1>3. Cardinality(B \ {c}) = Cardinality(B) - 1 /\ IsFiniteSet(B \ {c})
  BY <1>1, <1>2, FS_RemoveElement
<1>4. Cardinality(R) <= Cardinality(B) - 1
  BY <1>2, <1>3, FS_Subset
<1>5. /\ executing[l] = Cardinality(R) /\ l \in Lanes
      /\ Cardinality(B) <= threads[l] /\ threads[l] <= Workers(l)
      /\ Workers(l) <= Capacity(l) /\ Workers(l) \in Nat /\ Capacity(l) \in Nat
      /\ threads[l] \in Int
  BY Constants DEF IInv, GaugesExact, ThreadInv, TypeInv
<1> HIDE DEF l, R, B
<1> QED
  BY <1>1, <1>4, <1>5 DEF l

LEMMA Unstranded == IInv => NothingStranded
<1> SUFFICES ASSUME IInv, serve \in Down PROVE /\ \A l \in Lanes : queue[l] = <<>>
                                               /\ \A c \in Conns : At(c) = "none"
  BY DEF NothingStranded, Down
<1>1. \A c \in Conns : At(c) = "none"
  BY DEF IInv, OrderInv
<1>2. ASSUME NEW l \in Lanes PROVE queue[l] = <<>>
  <2>1. queue[l] \in Seq(Conns)
    BY DEF IInv, TypeInv
  <2>2. \A n \in DOMAIN queue[l] : queue[l][n] \in Conns /\ At(queue[l][n]) = "queued"
    BY <2>1 DEF IInv, QueueInv
  <2>3. Len(queue[l]) = 0
    BY <1>1, <2>1, <2>2
  <2> QED
    BY <2>1, <2>3, EmptySeq
<1> QED
  BY <1>1, <1>2

LEMMA Outlives == IInv => WriterOutlivesUsers
BY DEF IInv, OrderInv, WriterOutlivesUsers, Down

-----------------------------------------------------------------------------
\* For any connections and capacities, the whole of IInv: gauges, channels,
\* threads and the order of the joins in serve().
THEOREM InductiveInvariant == Spec => []IInv
BY InitInvariant, StepInvariant, PTL DEF Spec

\* Each of the three gauges (ActiveConnection and the two lanes) counts exactly
\* the requests that hold it, on every way a request can end.
THEOREM GaugesCorrect == Spec => []GaugesExact
BY InductiveInvariant, PTL DEF IInv

\* A request that the framing thread let in is never refused by the second
\* gauge in handle_connection.
THEOREM AdmittedFits == Spec => []ExecutionFits
BY InductiveInvariant, Fits, PTL

\* When serve() drops the channels, no request is in them or on a thread.
THEOREM NobodyStranded == Spec => []NothingStranded
BY InductiveInvariant, Unstranded, PTL

\* publication_writer.finish() comes after the last thread that submits to it.
THEOREM WriterIsLast == Spec => []WriterOutlivesUsers
BY InductiveInvariant, Outlives, PTL
=============================================================================

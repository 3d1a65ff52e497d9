-------------------------- MODULE ServiceLifecycle --------------------------
(***************************************************************************)
(* The threads of zmem-svc serve() and how they end: the accept loop, one  *)
(* framing thread per connection, the execution threads of the three work  *)
(* lanes, the indexing worker with its condition variable, the background  *)
(* prefetch thread and the publication writer.                             *)
(*                                                                         *)
(* What a request computes is left out.  A job is known here only by its   *)
(* state in memory; IndexJobs models how it is kept.  A panicking thread   *)
(* is not modelled.                                                        *)
(***************************************************************************)
EXTENDS Integers, FiniteSets, Sequences

CONSTANTS
    Conns,          \* connections that are open at the same time
    Jobs,           \* job keys
    Requests,       \* the kinds of request the clients send
    ConnectionCap,  \* connection_capacity
    LookupCap,      \* lookup_capacity
    LookupQueue,    \* lookup_queue_capacity
    HeavyCap,       \* heavy_capacity
    MaxConcurrency, \* max_concurrency
    HeavyQueue,     \* 32
    ControlQueue,   \* 16
    ControlWorkers, \* 2
    NoJob

Kinds == {"query", "add", "deep", "retry", "stop", "invalid"}

ASSUME LifecycleAssumption ==
    /\ Requests \subseteq Kinds
    /\ {ConnectionCap, LookupCap, LookupQueue, HeavyCap, MaxConcurrency,
        HeavyQueue, ControlQueue, ControlWorkers} \subseteq Nat \ {0}
    /\ NoJob \notin Jobs /\ IsFiniteSet(Conns)

VARIABLES
    conn,       \* what each connection is doing
    active,     \* gauge: connections admitted
    admitted,   \* gauge per lane: requests the framing threads let in
    executing,  \* gauge per lane: requests in handle_connection
    queue,      \* the bounded channel of each lane
    threads,    \* execution threads of each lane that have not ended
    stopping,   \* the shared flag
    serve,      \* where serve() is
    indexer,    \* the indexing worker
    jobs,       \* state of the jobs in memory
    background, \* the prefetch thread
    writer      \* the publication writer

gauges == <<active, admitted, executing>>
vars == <<conn, active, admitted, executing, queue, threads, stopping, serve,
          indexer, jobs, background, writer>>

-----------------------------------------------------------------------------
Lanes == {"lookup", "heavy", "control"}
Gauged == {"lookup", "heavy"}
Lane(k) == CASE k = "query" -> "lookup"
             [] k \in {"add", "deep"} -> "heavy"
             [] OTHER -> "control"
Limit(l) == IF l = "lookup" THEN LookupCap + LookupQueue ELSE HeavyCap
Capacity(l) == IF l = "lookup" THEN LookupCap ELSE HeavyCap
QueueCap(l) == CASE l = "lookup" -> LookupQueue
                 [] l = "heavy" -> HeavyQueue
                 [] OTHER -> ControlQueue

\* Faulty variant, to show that the properties notice it: one lookup thread too many.
WorkersOffByOne(l) ==
    CASE l = "lookup" -> LookupCap + 1
      [] l = "heavy" -> HeavyCap
      [] OTHER -> ControlWorkers
Workers(l) ==
    CASE l = "lookup" -> LookupCap
      [] l = "heavy" -> IF HeavyCap < MaxConcurrency THEN HeavyCap ELSE MaxConcurrency
      [] OTHER -> ControlWorkers

Stages == {"none", "framing", "sharing", "waiting", "sending", "queued", "taken",
           "handling", "leaving"}
Closed == [at |-> "none", kind |-> "invalid", job |-> NoJob]
At(c) == conn[c].at
LaneOf(c) == Lane(conn[c].kind)
In(l, stages) == {c \in Conns : LaneOf(c) = l /\ At(c) \in stages}

\* Where the lane guard of WorkItem, and where the guard of handle_connection
\* is alive.
Guarded == {"sharing", "waiting", "sending", "queued", "taken", "handling", "leaving"}
Busy == {"taken", "handling", "leaving"}

Init ==
    /\ conn = [c \in Conns |-> Closed]
    /\ active = 0
    /\ admitted = [l \in Gauged |-> 0]
    /\ executing = [l \in Gauged |-> 0]
    /\ queue = [l \in Lanes |-> <<>>]
    /\ threads = [l \in Lanes |-> Workers(l)]
    /\ stopping = FALSE
    /\ serve = "checking"
    /\ indexer = "locking"
    /\ jobs = [j \in Jobs |-> "none"]
    /\ background = "working"
    /\ writer = "running"

-----------------------------------------------------------------------------
(* serve(): the accept loop *)

\* while !stopping
CheckStopping ==
    /\ serve = "checking"
    /\ serve' = IF stopping THEN "draining" ELSE "accepting"
    /\ UNCHANGED <<conn, gauges, queue, threads, stopping, indexer, jobs,
                   background, writer>>

\* Over capacity the client is told busy and nothing remains of it.
Accept(c, k) ==
    /\ serve = "accepting"
    /\ At(c) = "none"
    /\ IF active < ConnectionCap
       THEN /\ active' = active + 1
            /\ conn' = [conn EXCEPT ![c] = [at |-> "framing", kind |-> k, job |-> NoJob]]
       ELSE UNCHANGED <<active, conn>>
    /\ serve' = "checking"
    /\ UNCHANGED <<admitted, executing, queue, threads, stopping, indexer, jobs,
                   background, writer>>

\* No connection for 5 ms, or an error of the listener.
AcceptNothing ==
    /\ serve = "accepting"
    /\ \E failed \in BOOLEAN : stopping' = (stopping \/ failed)
    /\ serve' = "checking"
    /\ UNCHANGED <<conn, gauges, queue, threads, indexer, jobs, background, writer>>

-----------------------------------------------------------------------------
(* The framing thread of a connection: frame_connection *)

Move(c, at) == conn' = [conn EXCEPT ![c].at = at]

\* The request ends and the guards it still has are dropped.
DropLane(c) ==
    admitted' = [l \in Gauged |->
                   IF l = LaneOf(c) /\ At(c) \in Guarded THEN admitted[l] - 1
                   ELSE admitted[l]]
Close(c) ==
    /\ conn' = [conn EXCEPT ![c] = Closed]
    /\ active' = active - 1
    /\ DropLane(c)
    /\ UNCHANGED executing

\* A request that cannot be read in a second, has a wrong token or an unknown
\* command is answered on the spot; one over the limit of its lane is told
\* busy.
Frame(c) ==
    /\ At(c) = "framing"
    /\ \/ Close(c)
       \/ /\ conn[c].kind # "invalid"
          /\ LaneOf(c) \in Gauged => admitted[LaneOf(c)] < Limit(LaneOf(c))
          /\ admitted' = [l \in Gauged |->
                            IF l = LaneOf(c) THEN admitted[l] + 1 ELSE admitted[l]]
          /\ Move(c, IF conn[c].kind = "add" THEN "sharing" ELSE "sending")
          /\ UNCHANGED <<active, executing>>
    /\ UNCHANGED <<queue, threads, stopping, serve, indexer, jobs, background, writer>>

\* The worker holds the queue mutex between its look at the queue and its wait.
MutexFree == indexer # "deciding"

\* Faulty variant, to show that the properties notice it: admission does not notify.
QueueJobSilently(j) ==
    /\ jobs' = [jobs EXCEPT ![j] = "queued"]
    /\ UNCHANGED indexer
QueueJob(j) ==
    /\ jobs' = [jobs EXCEPT ![j] = "queued"]
    /\ indexer' = IF indexer = "waiting" THEN "locking" ELSE indexer

\* JobCoordinator::admit: a job that is not finished, or failed, is joined.
Admit(j) ==
    /\ MutexFree
    /\ IF jobs[j] \in {"none", "ready"} THEN QueueJob(j) ELSE UNCHANGED <<jobs, indexer>>

\* add and fast check: admit_shared_history finds the history published,
\* admits a job for it, or fails.
ShareHistory(c) ==
    /\ At(c) = "sharing"
    /\ \/ Move(c, "sending") /\ UNCHANGED <<gauges, jobs, indexer>>
       \/ Close(c) /\ UNCHANGED <<jobs, indexer>>
       \/ \E j \in Jobs :
            /\ Admit(j)
            /\ conn' = [conn EXCEPT ![c].at = "waiting", ![c].job = j]
            /\ UNCHANGED gauges
    /\ UNCHANGED <<queue, threads, stopping, serve, background, writer>>

\* await_shared_history polls the job; the deadline, a disconnect, a failed job
\* or the stop of the service ends the request.  The flag is read before the
\* job, so a stop in between does not end it.
AwaitHistory(c) ==
    /\ At(c) = "waiting"
    /\ \/ jobs[conn[c].job] = "ready" /\ Move(c, "sending") /\ UNCHANGED gauges
       \/ Close(c)
    /\ UNCHANGED <<queue, threads, stopping, serve, indexer, jobs, background, writer>>

\* Faulty variant, to show that the properties notice it: a refused item keeps its connection.
SendLeaking(c) ==
    /\ At(c) = "sending"
    /\ LET l == LaneOf(c) IN
         \/ /\ Len(queue[l]) < QueueCap(l)
            /\ queue' = [queue EXCEPT ![l] = Append(@, c)]
            /\ Move(c, "queued") /\ UNCHANGED gauges
         \/ /\ Len(queue[l]) >= QueueCap(l)
            /\ conn' = [conn EXCEPT ![c] = Closed]
            /\ DropLane(c)
            /\ UNCHANGED <<active, executing, queue>>
    /\ UNCHANGED <<threads, stopping, serve, indexer, jobs, background, writer>>
\* Faulty variant, to show that the properties notice it: the connection guard
\* stays with the framing thread, which ends.
SendUnguarded(c) ==
    /\ At(c) = "sending"
    /\ LET l == LaneOf(c) IN
         \/ /\ Len(queue[l]) < QueueCap(l)
            /\ queue' = [queue EXCEPT ![l] = Append(@, c)]
            /\ active' = active - 1
            /\ Move(c, "queued") /\ UNCHANGED <<admitted, executing>>
         \/ /\ Len(queue[l]) >= QueueCap(l)
            /\ Close(c) /\ UNCHANGED queue
    /\ UNCHANGED <<threads, stopping, serve, indexer, jobs, background, writer>>
\* try_send of the item with its guards; a full channel is answered busy.
Send(c) ==
    /\ At(c) = "sending"
    /\ LET l == LaneOf(c) IN
         \/ /\ Len(queue[l]) < QueueCap(l)
            /\ queue' = [queue EXCEPT ![l] = Append(@, c)]
            /\ Move(c, "queued") /\ UNCHANGED gauges
         \/ /\ Len(queue[l]) >= QueueCap(l)
            /\ Close(c) /\ UNCHANGED queue
    /\ UNCHANGED <<threads, stopping, serve, indexer, jobs, background, writer>>

-----------------------------------------------------------------------------
(* The execution threads: spawn_execution_workers and handle_connection *)

Idle(l) == Cardinality(In(l, Busy)) < threads[l]

Take(l) ==
    /\ Idle(l)
    /\ queue[l] # <<>>
    /\ Move(Head(queue[l]), "taken")
    /\ queue' = [queue EXCEPT ![l] = Tail(@)]
    /\ UNCHANGED <<gauges, threads, stopping, serve, indexer, jobs, background, writer>>

\* The second gauge, of what runs; over capacity the request is told busy.
Begin(c) ==
    /\ At(c) = "taken"
    /\ IF LaneOf(c) \in Gauged
       THEN IF executing[LaneOf(c)] < Capacity(LaneOf(c))
            THEN /\ executing' = [executing EXCEPT ![LaneOf(c)] = @ + 1]
                 /\ Move(c, "handling")
            ELSE Move(c, "leaving") /\ UNCHANGED executing
       ELSE Move(c, "handling") /\ UNCHANGED executing
    /\ UNCHANGED <<active, admitted, queue, threads, stopping, serve, indexer,
                   jobs, background, writer>>

\* What the request does to the threads: a stop raises the flag, a query that
\* misses admits a job, a retry queues a failed one.  Any of them may instead
\* fail, at its deadline at the latest.
Effect(c) ==
    \/ stopping' \in {stopping, stopping \/ conn[c].kind = "stop"} /\ UNCHANGED <<jobs, indexer>>
    \/ /\ conn[c].kind = "query"
       /\ \E j \in Jobs : Admit(j)
       /\ UNCHANGED stopping
    \/ /\ conn[c].kind = "retry" /\ MutexFree
       /\ \E j \in Jobs : jobs[j] = "failed" /\ QueueJob(j)
       /\ UNCHANGED stopping
Handle(c) ==
    /\ At(c) = "handling"
    /\ Effect(c)
    /\ executing' = [l \in Gauged |-> IF l = LaneOf(c) THEN executing[l] - 1
                                      ELSE executing[l]]
    /\ Move(c, "leaving")
    /\ UNCHANGED <<active, admitted, queue, threads, serve, background, writer>>

\* Faulty variant, to show that the properties notice it: the guard of the
\* connection is forgotten.
LeaveLeaking(c) ==
    /\ At(c) = "leaving"
    /\ conn' = [conn EXCEPT ![c] = Closed] /\ DropLane(c)
    /\ UNCHANGED <<active, executing, queue, threads, stopping, serve, indexer, jobs,
                   background, writer>>
\* The end of the loop body drops the guards of the item.
Leave(c) ==
    /\ At(c) = "leaving"
    /\ Close(c)
    /\ UNCHANGED <<queue, threads, stopping, serve, indexer, jobs, background, writer>>

\* Faulty variant, to show that the properties notice it: a stop ends the thread at once.
EndThreadOnStop(l) ==
    /\ Idle(l) /\ stopping
    /\ threads' = [threads EXCEPT ![l] = @ - 1]
    /\ UNCHANGED <<conn, gauges, queue, stopping, serve, indexer, jobs, background,
                   writer>>
\* recv fails when the channel is empty and its senders are gone.
EndThread(l) ==
    /\ Idle(l) /\ queue[l] = <<>>
    /\ serve = "joining"
    /\ threads' = [threads EXCEPT ![l] = @ - 1]
    /\ UNCHANGED <<conn, gauges, queue, stopping, serve, indexer, jobs, background,
                   writer>>

-----------------------------------------------------------------------------
(* The indexing worker and the background prefetch *)

\* With the mutex: a stop ends it, a queued job is taken, otherwise it is about
\* to wait for the condition variable.
IndexerLooks ==
    /\ indexer = "locking"
    /\ \/ stopping /\ indexer' = "ended" /\ UNCHANGED jobs
       \/ /\ ~stopping
          /\ \E j \in Jobs : jobs[j] = "queued" /\ jobs' = [jobs EXCEPT ![j] = "running"]
          /\ indexer' = "running"
       \/ /\ ~stopping
          /\ \A j \in Jobs : jobs[j] # "queued"
          /\ indexer' = "deciding" /\ UNCHANGED jobs
    /\ UNCHANGED <<conn, gauges, queue, threads, stopping, serve, background, writer>>

IndexerWaits ==
    /\ indexer = "deciding"
    /\ indexer' = "waiting"
    /\ UNCHANGED <<conn, gauges, queue, threads, stopping, serve, jobs, background,
                   writer>>

\* A condition variable may wake its waiter for no reason.
SpuriousWake ==
    /\ indexer = "waiting"
    /\ indexer' = "locking"
    /\ UNCHANGED <<conn, gauges, queue, threads, stopping, serve, jobs, background,
                   writer>>

\* A running job ends: by itself, at its deadline, or cancelled by the stop.
IndexerFinishes ==
    /\ indexer = "running"
    /\ \E outcome \in {"ready", "failed"} :
          jobs' = [j \in Jobs |-> IF jobs[j] = "running" THEN outcome ELSE jobs[j]]
    /\ indexer' = "locking"
    /\ UNCHANGED <<conn, gauges, queue, threads, stopping, serve, background, writer>>

\* The prefetch thread looks at the flag between turns and never waits long.
BackgroundEnds ==
    /\ background = "working" /\ stopping
    /\ background' = "ended"
    /\ UNCHANGED <<conn, gauges, queue, threads, stopping, serve, indexer, jobs, writer>>

-----------------------------------------------------------------------------
(* serve(): the way down *)

Drained ==
    /\ serve = "draining" /\ active = 0
    /\ serve' = "joining"
    /\ UNCHANGED <<conn, gauges, queue, threads, stopping, indexer, jobs, background,
                   writer>>

\* All execution threads are joined, then wake.notify_all without the mutex.
NotifyAll ==
    /\ serve = "joining" /\ \A l \in Lanes : threads[l] = 0
    /\ indexer' = IF indexer = "waiting" THEN "locking" ELSE indexer
    /\ serve' = "notified"
    /\ UNCHANGED <<conn, gauges, queue, threads, stopping, jobs, background, writer>>

\* Faulty variant, to show that the properties notice it: the writer is stopped before its users.
JoinWriterFirst ==
    /\ serve = "notified"
    /\ writer' = "stopped" /\ serve' = "gone"
    /\ UNCHANGED <<conn, gauges, queue, threads, stopping, indexer, jobs, background>>
JoinIndexer ==
    /\ serve = "notified" /\ indexer = "ended"
    /\ serve' = "indexer_joined"
    /\ UNCHANGED <<conn, gauges, queue, threads, stopping, indexer, jobs, background,
                   writer>>

JoinBackground ==
    /\ serve = "indexer_joined" /\ background = "ended"
    /\ serve' = "background_joined"
    /\ UNCHANGED <<conn, gauges, queue, threads, stopping, indexer, jobs, background,
                   writer>>

\* publication_writer.finish(), then the state file is removed.
FinishWriter ==
    /\ serve = "background_joined"
    /\ writer' = "stopped" /\ serve' = "gone"
    /\ UNCHANGED <<conn, gauges, queue, threads, stopping, indexer, jobs, background>>

-----------------------------------------------------------------------------
AcceptStep == CheckStopping \/ AcceptNothing
                \/ (\E c \in Conns, k \in Requests : Accept(c, k))
StopStep == Drained \/ NotifyAll \/ JoinIndexer \/ JoinBackground \/ FinishWriter
ConnStep(c) == Frame(c) \/ ShareHistory(c) \/ AwaitHistory(c) \/ Send(c)
                 \/ Begin(c) \/ Handle(c) \/ Leave(c)
ThreadStep(l) == Take(l) \/ EndThread(l)
IndexerStep == IndexerLooks \/ IndexerWaits \/ IndexerFinishes

Next ==
    \/ AcceptStep
    \/ StopStep
    \/ \E c \in Conns : ConnStep(c)
    \/ \E l \in Lanes : ThreadStep(l)
    \/ IndexerStep
    \/ SpuriousWake
    \/ BackgroundEnds

Spec == Init /\ [][Next]_vars

\* Every thread keeps running.  A connection that has to wait for the mutex has
\* its deadline as another way on.
Fairness ==
    /\ WF_vars(AcceptStep) /\ WF_vars(StopStep)
    /\ \A c \in Conns : WF_vars(ConnStep(c))
    /\ \A l \in Lanes : WF_vars(ThreadStep(l))
    /\ WF_vars(IndexerStep) /\ WF_vars(BackgroundEnds)
FairSpec == Spec /\ Fairness

-----------------------------------------------------------------------------
(* Properties *)

\* On every way a request can end, in the framing thread or in an execution
\* thread, each gauge loses exactly what the request had added to it: no
\* capacity leaks away and none is given out twice.
GaugesExact ==
    /\ active = Cardinality({c \in Conns : At(c) # "none"})
    /\ \A l \in Gauged :
          /\ admitted[l] = Cardinality(In(l, Guarded))
          /\ executing[l] = Cardinality(In(l, {"handling"}))

\* A request that was let in and waited its turn in the channel is not told
\* busy by the second gauge in handle_connection.
ExecutionFits ==
    \A c \in Conns :
        At(c) = "taken" /\ LaneOf(c) \in Gauged
            => executing[LaneOf(c)] < Capacity(LaneOf(c))

\* When serve drops the channels there is no request left in them or with an
\* execution thread, whatever was queued when the stop came.
NothingStranded ==
    serve \in {"joining", "notified", "indexer_joined", "background_joined", "gone"} =>
        /\ \A l \in Lanes : queue[l] = <<>>
        /\ \A c \in Conns : At(c) = "none"

\* The writer is stopped when no thread can submit to it any more, so that no
\* outcome of a job is lost to the stop.
WriterOutlivesUsers ==
    writer = "stopped" =>
        /\ \A c \in Conns : At(c) = "none"
        /\ indexer = "ended"
        /\ background = "ended"

\* Every accepted request ends, also one queued while the service stops.
RequestsEnd == \A c \in Conns : At(c) # "none" ~> At(c) = "none"

\* An admitted job is started, unless the service stops first.
JobsStart == \A j \in Jobs : jobs[j] = "queued" ~> (jobs[j] # "queued" \/ stopping)

\* After a stop every request and execution thread is gone and the indexing
\* worker notified; the process ends unless the worker is asleep by then.
StopDrains == stopping ~> (serve = "gone" \/ (serve = "notified" /\ indexer = "waiting"))

\* A stop, once accepted, ends the process: README.md:63, "Stopping the daemon
\* cancels active work, waits for its workers".
StopEnds == stopping ~> serve = "gone"
=============================================================================

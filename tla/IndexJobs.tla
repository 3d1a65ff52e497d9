----------------------------- MODULE IndexJobs -----------------------------
(***************************************************************************)
(* The indexing-job coordinator of zmem-svc (JobCoordinator in main.rs),   *)
(* the durable index_jobs table it keeps in step with, and the path        *)
(* between them: canonical_write, the bounded queue of the one publication *)
(* writer thread.                                                          *)
(*                                                                         *)
(* Request threads admit and retry jobs while they hold the queue mutex,   *)
(* also across the wait for the writer, so at most one such operation is   *)
(* in progress: mutex names it.  The indexing worker takes the mutex for   *)
(* short sections and waits for the writer without it, except to refine    *)
(* the key of a job.  Other users of the writer are not modelled: they     *)
(* only make it slow or its queue full, so a submission may be refused at  *)
(* any time and an answer may be late.                                     *)
(***************************************************************************)
EXTENDS Integers, FiniteSets, Sequences

CONSTANTS
    Keys,           \* JobKey: repository, ref, oid, limits and generation
    Ids,            \* the random job ids; a bound on how many are live at once
    NoKey, NoId,
    Refinements,    \* [Keys -> SUBSET Keys]: the validated forms of a key
    ReadyCap,       \* 32: length of the ready queue
    JobCap,         \* 256: jobs held in memory
    WriterCap,      \* 8: commands waiting for the writer
    WorkerTimesOut  \* may the worker's own 120 s wait for the writer expire?

ASSUME ConstantsAssumption ==
    /\ NoKey \notin Keys
    /\ NoId \notin Ids
    /\ Refinements \in [Keys -> SUBSET Keys]
    /\ ReadyCap \in Nat \ {0}
    /\ JobCap \in Nat \ {0}
    /\ WriterCap \in Nat \ {0}
    /\ WorkerTimesOut \in BOOLEAN

VARIABLES
    jobs,       \* JobQueue.jobs, in memory
    byId,       \* JobQueue.by_id
    ready,      \* JobQueue.ready, the keys waiting for the worker
    demandJobs, \* the atomic counter other threads read without the mutex
    mutex,      \* the operation that holds the queue mutex
    poisoned,   \* a thread panicked while it held the mutex
    worker,     \* the indexing thread
    commands,   \* canonical writes sent to the writer and not yet applied
    reply,      \* the answer each waiting thread has
    index,      \* the durable index_jobs table
    uncertain   \* history: keys whose hooks ran to an unknown or failed end
                \* and that nobody has retried since

memory == <<jobs, byId, ready, demandJobs>>
channel == <<commands, reply>>
vars == <<jobs, byId, ready, demandJobs, mutex, poisoned, worker, commands,
          reply, index, uncertain>>

-----------------------------------------------------------------------------
States == {"queued", "running", "ready", "failed"}
Pending == {"queued", "running"}
Callers == {"holder", "worker"}

Job == [id : Ids \cup {NoId}, state : States \cup {"none"}]
NoJob == [id |-> NoId, state |-> "none"]
Row == [key : Keys \cup {NoKey}, state : States \cup {"none"}]
NoRow == [key |-> NoKey, state |-> "none"]

Command == [kind : {"insert", "state", "rekey", "remove"},
            id : Ids, key : Keys \cup {NoKey},
            state : States \cup {"none"}, caller : Callers \cup {"nobody"}]
InsertRow(i, k) == [kind |-> "insert", id |-> i, key |-> k, state |-> "queued"]
SetState(i, s) == [kind |-> "state", id |-> i, key |-> NoKey, state |-> s]
UpdateKey(i, k) == [kind |-> "rekey", id |-> i, key |-> k, state |-> "none"]
RemoveRow(i) == [kind |-> "remove", id |-> i, key |-> NoKey, state |-> "none"]

Free == [op |-> "free", key |-> NoKey, id |-> NoId]
Idle == [pc |-> "idle", key |-> NoKey, id |-> NoId, ok |-> FALSE]
Ops == {"free", "removing", "checking", "evicting", "inserting", "retrying",
        "refining"}
Stages == {"idle", "taken", "starting", "syncing", "refining", "closing",
           "finishing"}

Elements(s) == {s[i] : i \in DOMAIN s}
Known == {k \in Keys : jobs[k].state # "none"}
Waiting == {k \in Keys : jobs[k].state = "queued"}
Stored == {i \in Ids : index[i].state # "none"}
\* A random id: one that no table, command or thread mentions.
FreshIds == {i \in Ids :
                /\ index[i].state = "none"
                /\ byId[i] = NoKey
                /\ i \notin {mutex.id, worker.id}
                /\ \A k \in Keys : jobs[k].id # i
                /\ \A n \in DOMAIN commands : commands[n].id # i}

Init ==
    /\ jobs = [k \in Keys |-> NoJob]
    /\ byId = [i \in Ids |-> NoKey]
    /\ ready = <<>>
    /\ demandJobs = 0
    /\ mutex = Free
    /\ poisoned = FALSE
    /\ worker = Idle
    /\ commands = <<>>
    /\ reply = [c \in Callers |-> "none"]
    /\ index = [i \in Ids |-> NoRow]
    /\ uncertain = {}

-----------------------------------------------------------------------------
(***************************************************************************)
(* canonical_write.  A refusal is immediate (queue full, or the deadline   *)
(* of the request already passed); otherwise the caller waits.             *)
(***************************************************************************)
Call(c, m) == [kind |-> m.kind, id |-> m.id, key |-> m.key,
               state |-> m.state, caller |-> c]
\* Faulty variant, to show that the properties notice it: an unbounded channel.
SubmitUnbounded(c, m) ==
    \/ commands' = Append(commands, Call(c, m)) /\ reply' = [reply EXCEPT ![c] = "waiting"]
    \/ commands' = commands /\ reply' = [reply EXCEPT ![c] = "error"]
Submit(c, m) ==
    \/ /\ Len(commands) < WriterCap
       /\ commands' = Append(commands, Call(c, m))
       /\ reply' = [reply EXCEPT ![c] = "waiting"]
    \/ /\ commands' = commands
       /\ reply' = [reply EXCEPT ![c] = "error"]

Clear(c) == reply' = [reply EXCEPT ![c] = "none"] /\ commands' = commands
Answered(c) == reply[c] \in {"ok", "error"}

\* The deadline of the caller expires; its command stays with the writer.
Timeout(c) ==
    /\ reply[c] = "waiting"
    /\ c = "worker" \/ mutex.op = "refining" => WorkerTimesOut
    /\ reply' = [reply EXCEPT ![c] = "error"]
    /\ commands' = [n \in DOMAIN commands |->
                      IF commands[n].caller = c
                      THEN [commands[n] EXCEPT !.caller = "nobody"]
                      ELSE commands[n]]
    /\ UNCHANGED <<memory, mutex, poisoned, worker, index, uncertain>>

\* PRIMARY KEY(id) and UNIQUE(job_key) of the index_jobs table.
Accepts(m) ==
    /\ m.kind = "insert" => m.id \notin Stored
    /\ m.kind \in {"insert", "rekey"} =>
          \A i \in Stored \ {m.id} : index[i].key # m.key

\* insert_index_job, set_index_job_state, update_index_job_key and
\* remove_index_job: an UPDATE or DELETE of an absent row succeeds.
Applied(m) ==
    CASE m.kind = "insert" -> [key |-> m.key, state |-> m.state]
      [] m.kind = "state" /\ m.id \in Stored ->
            [key |-> index[m.id].key, state |-> m.state]
      [] m.kind = "rekey" /\ m.id \in Stored ->
            [key |-> m.key, state |-> index[m.id].state]
      [] OTHER -> NoRow

\* Faulty variant, to show that the properties notice it: no answer to a failed command.
AnswerSuccessOnly(c, r) ==
    reply' = IF c = "nobody" \/ r = "error" THEN reply
             ELSE [reply EXCEPT ![c] = r]
Answer(c, r) ==
    reply' = IF c = "nobody" THEN reply ELSE [reply EXCEPT ![c] = r]

\* The writer applies the oldest command in one transaction ...
WriterApply ==
    /\ commands # <<>>
    /\ LET m == Head(commands) IN
         /\ Accepts(m)
         /\ index' = [index EXCEPT ![m.id] = Applied(m)]
         /\ Answer(m.caller, "ok")
    /\ commands' = Tail(commands)
    /\ UNCHANGED <<memory, mutex, poisoned, worker, uncertain>>

\* ... or fails it: a constraint, a busy database, the deadline of the request.
WriterReject ==
    /\ commands # <<>>
    /\ Answer(Head(commands).caller, "error")
    /\ commands' = Tail(commands)
    /\ UNCHANGED <<memory, mutex, poisoned, worker, index, uncertain>>

-----------------------------------------------------------------------------
(***************************************************************************)
(* Request threads: JobCoordinator::admit.  A key whose job is not ready   *)
(* is answered with that job and nothing changes.                          *)
(***************************************************************************)
Unlocked == mutex = Free /\ ~poisoned
Release == mutex' = Free

BeginAdmit(k) ==
    /\ Unlocked
    /\ FreshIds # {}
    /\ \/ /\ jobs[k].state = "none"
          /\ mutex' = [op |-> "checking", key |-> k, id |-> NoId]
          /\ UNCHANGED channel
       \/ /\ jobs[k].state = "ready"
          /\ mutex' = [op |-> "removing", key |-> k, id |-> jobs[k].id]
          /\ Submit("holder", RemoveRow(jobs[k].id))
    /\ UNCHANGED <<memory, poisoned, worker, index, uncertain>>

\* The row of the stale ready job is gone: forget it, go on to the limits.
StaleRemoved ==
    /\ mutex.op = "removing"
    /\ Answered("holder")
    /\ IF reply["holder"] = "ok"
       THEN /\ jobs' = [jobs EXCEPT ![mutex.key] = NoJob]
            /\ byId' = [byId EXCEPT ![mutex.id] = NoKey]
            /\ mutex' = [op |-> "checking", key |-> mutex.key, id |-> NoId]
       ELSE Release /\ UNCHANGED <<jobs, byId>>
    /\ Clear("holder")
    /\ UNCHANGED <<ready, demandJobs, poisoned, worker, index, uncertain>>

\* Faulty variant, to show that the properties notice it: failed jobs give way.
EvictableOrFailed(v) == jobs[v].state \in {"ready", "failed"}
\* Nothing sets the obsolete state that the code accepts here as well.
Evictable(v) == jobs[v].state = "ready"

Insert(k) ==
    \E i \in FreshIds :
        /\ mutex' = [op |-> "inserting", key |-> k, id |-> i]
        /\ Submit("holder", InsertRow(i, k))

\* Queue full, memory full of unfinished or failed jobs, memory full with a
\* ready job to give up, or room.  The victim leaves memory at once.
CheckCapacity ==
    /\ mutex.op = "checking"
    /\ \/ /\ Len(ready) >= ReadyCap
          /\ Release /\ UNCHANGED <<jobs, channel>>
       \/ /\ Len(ready) < ReadyCap
          /\ Cardinality(Known) >= JobCap
          /\ \/ /\ \A v \in Keys : ~Evictable(v)
                /\ Release /\ UNCHANGED <<jobs, channel>>
             \/ \E v \in Keys :
                  /\ Evictable(v)
                  /\ jobs' = [jobs EXCEPT ![v] = NoJob]
                  /\ mutex' = [op |-> "evicting", key |-> mutex.key,
                               id |-> jobs[v].id]
                  /\ Submit("holder", RemoveRow(jobs[v].id))
       \/ /\ Len(ready) < ReadyCap
          /\ Cardinality(Known) < JobCap
          /\ Insert(mutex.key) /\ UNCHANGED jobs
    /\ UNCHANGED <<byId, ready, demandJobs, poisoned, worker, index, uncertain>>

\* On an error the victim has left jobs while byId and the table keep it.
VictimRemoved ==
    /\ mutex.op = "evicting"
    /\ Answered("holder")
    /\ IF reply["holder"] = "ok"
       THEN /\ byId' = [byId EXCEPT ![mutex.id] = NoKey]
            /\ Insert(mutex.key)
       ELSE Release /\ Clear("holder") /\ UNCHANGED byId
    /\ UNCHANGED <<jobs, ready, demandJobs, poisoned, worker, index, uncertain>>

\* Faulty variant, to show that the properties notice it: the queue is forgotten.
EnqueueUnlisted(k, i) ==
    /\ jobs' = [jobs EXCEPT ![k] = [id |-> i, state |-> "queued"]]
    /\ demandJobs' = demandJobs + 1
    /\ UNCHANGED ready
Enqueue(k, i) ==
    /\ jobs' = [jobs EXCEPT ![k] = [id |-> i, state |-> "queued"]]
    /\ ready' = Append(ready, k)
    /\ demandJobs' = demandJobs + 1

\* Faulty variant, to show that the properties notice it: memory first, whatever the writer says.
InsertedRegardless ==
    /\ mutex.op = "inserting"
    /\ Answered("holder")
    /\ Enqueue(mutex.key, mutex.id)
    /\ byId' = [byId EXCEPT ![mutex.id] = mutex.key]
    /\ Release /\ Clear("holder")
    /\ UNCHANGED <<poisoned, worker, index, uncertain>>
Inserted ==
    /\ mutex.op = "inserting"
    /\ Answered("holder")
    /\ IF reply["holder"] = "ok"
       THEN /\ Enqueue(mutex.key, mutex.id)
            /\ byId' = [byId EXCEPT ![mutex.id] = mutex.key]
       ELSE UNCHANGED memory
    /\ Release /\ Clear("holder")
    /\ UNCHANGED <<poisoned, worker, index, uncertain>>

(***************************************************************************)
(* JobCoordinator::retry.  An unknown id, a job that is not failed and a   *)
(* full queue are answered with an error and nothing changes.              *)
(***************************************************************************)
\* Faulty variant, to show that the properties notice it: a running job is retried.
RetriableRunning(k) == jobs[k].state \in {"running", "failed"}
Retriable(k) == jobs[k].state = "failed"

BeginRetry(i) ==
    /\ Unlocked
    /\ byId[i] # NoKey
    /\ \/ /\ jobs[byId[i]].state = "none"  \* expect("indexed job exists") fails
          /\ poisoned' = TRUE
          /\ UNCHANGED <<mutex, channel>>
       \/ /\ Retriable(byId[i])
          /\ Len(ready) < ReadyCap
          /\ mutex' = [op |-> "retrying", key |-> byId[i], id |-> i]
          /\ Submit("holder", SetState(i, "queued"))
          /\ UNCHANGED poisoned
    /\ UNCHANGED <<memory, worker, index, uncertain>>

Retried ==
    /\ mutex.op = "retrying"
    /\ Answered("holder")
    /\ IF reply["holder"] = "ok"
       THEN /\ Enqueue(mutex.key, jobs[mutex.key].id)
            /\ uncertain' = uncertain \ {mutex.key}
       ELSE UNCHANGED <<jobs, ready, demandJobs, uncertain>>
    /\ Release /\ Clear("holder")
    /\ UNCHANGED <<byId, poisoned, worker, index>>

-----------------------------------------------------------------------------
(***************************************************************************)
(* The indexing worker: JobCoordinator::worker.                            *)
(***************************************************************************)
TakeJob ==
    /\ Unlocked
    /\ worker.pc = "idle"
    /\ ready # <<>>
    /\ LET k == Head(ready) IN
         /\ jobs' = [jobs EXCEPT ![k].state = "running"]
         /\ worker' = [Idle EXCEPT !.pc = "taken", !.key = k]
    /\ ready' = Tail(ready)
    /\ UNCHANGED <<byId, demandJobs, mutex, poisoned, channel, index, uncertain>>

\* The mutex was given up: status_for_key takes it again to read the id.
PersistRunning ==
    /\ Unlocked
    /\ worker.pc = "taken"
    /\ LET i == jobs[worker.key].id IN
         /\ worker' = [worker EXCEPT !.pc = "starting", !.id = i]
         /\ Submit("worker", SetState(i, "running"))
    /\ UNCHANGED <<memory, mutex, poisoned, index, uncertain>>

\* sync_repository_with_ref_attention begins: from here on hooks may run.
StartSync ==
    /\ worker.pc = "starting"
    /\ reply["worker"] = "ok"
    /\ worker' = [worker EXCEPT !.pc = "syncing"]
    /\ uncertain' = uncertain \cup {worker.key}
    /\ Clear("worker")
    /\ UNCHANGED <<memory, mutex, poisoned, index>>

\* Faulty variant, to show that the properties notice it: an early continue skips the counter.
RefuseSyncUncounted ==
    /\ Unlocked
    /\ worker.pc = "starting"
    /\ reply["worker"] = "error"
    /\ jobs' = [jobs EXCEPT ![worker.key].state = "failed"]
    /\ worker' = Idle
    /\ Clear("worker")
    /\ UNCHANGED <<byId, ready, demandJobs, mutex, poisoned, index, uncertain>>
\* The running state cannot be made durable: the job fails without a sync.
RefuseSync ==
    /\ Unlocked
    /\ worker.pc = "starting"
    /\ reply["worker"] = "error"
    /\ jobs' = [jobs EXCEPT ![worker.key].state = "failed"]
    /\ demandJobs' = demandJobs - 1
    /\ worker' = Idle
    /\ Clear("worker")
    /\ UNCHANGED <<byId, ready, mutex, poisoned, index, uncertain>>

SyncSucceeds ==
    /\ worker.pc = "syncing"
    /\ worker' = [worker EXCEPT !.pc = "refining", !.ok = TRUE]
    /\ uncertain' = uncertain \ {worker.key}
    /\ UNCHANGED <<memory, mutex, poisoned, channel, index>>

SyncFails ==
    /\ worker.pc = "syncing"
    /\ worker' = [worker EXCEPT !.pc = "closing"]
    /\ UNCHANGED <<memory, mutex, poisoned, channel, index, uncertain>>

\* refine_identity without a write: the validated key is the key of the job
\* already, or the database cannot be read.
LeaveKey ==
    /\ worker.pc = "refining" /\ mutex.op # "refining"
    /\ \E ok \in BOOLEAN :
          worker' = [worker EXCEPT !.pc = "closing", !.ok = ok]
    /\ UNCHANGED <<memory, mutex, poisoned, channel, index, uncertain>>

\* refine_identity when it is another one.  A key some other job has is left.
BeginRefine(r) ==
    /\ Unlocked
    /\ worker.pc = "refining"
    /\ r \in Refinements[worker.key] \ {worker.key}
    /\ IF jobs[r].state # "none"
       THEN /\ worker' = [worker EXCEPT !.pc = "closing"]
            /\ UNCHANGED <<mutex, channel>>
       ELSE /\ mutex' = [op |-> "refining", key |-> r, id |-> worker.id]
            /\ Submit("holder", UpdateKey(jobs[worker.key].id, r))
            /\ UNCHANGED worker
    /\ UNCHANGED <<memory, poisoned, index, uncertain>>

\* Faulty variant, to show that the properties notice it: the old key stays in the map.
RekeyCopy == [jobs EXCEPT ![mutex.key] = jobs[worker.key]]
Rekey == [jobs EXCEPT ![mutex.key] = jobs[worker.key], ![worker.key] = NoJob]
Refined ==
    /\ mutex.op = "refining"
    /\ Answered("holder")
    /\ IF reply["holder"] = "ok"
       THEN /\ jobs' = Rekey
            /\ byId' = [byId EXCEPT ![jobs[worker.key].id] = mutex.key]
            /\ worker' = [worker EXCEPT !.pc = "closing", !.key = mutex.key]
       ELSE /\ worker' = [worker EXCEPT !.pc = "closing", !.ok = FALSE]
            /\ UNCHANGED <<jobs, byId>>
    /\ Release /\ Clear("holder")
    /\ UNCHANGED <<ready, demandJobs, poisoned, index, uncertain>>

Outcome == IF worker.ok THEN "ready" ELSE "failed"

PersistOutcome ==
    /\ worker.pc = "closing"
    /\ worker' = [worker EXCEPT !.pc = "finishing"]
    /\ Submit("worker", SetState(worker.id, Outcome))
    /\ UNCHANGED <<memory, mutex, poisoned, index, uncertain>>

\* Faulty variant, to show that the properties notice it: the end waits for a durable outcome.
FinishJobIfStored ==
    /\ Unlocked
    /\ worker.pc = "finishing"
    /\ reply["worker"] = "ok"
    /\ jobs' = [jobs EXCEPT ![worker.key].state = Outcome]
    /\ demandJobs' = demandJobs - 1
    /\ worker' = Idle
    /\ Clear("worker")
    /\ UNCHANGED <<byId, ready, mutex, poisoned, index, uncertain>>
\* Whether or not the outcome became durable, memory takes it.
FinishJob ==
    /\ Unlocked
    /\ worker.pc = "finishing"
    /\ Answered("worker")
    /\ jobs' = [jobs EXCEPT ![worker.key].state =
                    IF @ = "none" THEN @ ELSE Outcome]
    /\ demandJobs' = demandJobs - 1
    /\ worker' = Idle
    /\ Clear("worker")
    /\ UNCHANGED <<byId, ready, mutex, poisoned, index, uncertain>>

-----------------------------------------------------------------------------
(***************************************************************************)
(* The process ends, by a crash or an orderly stop, and a new one starts:  *)
(* JobCoordinator::new over recover_index_jobs.  Commands the writer did   *)
(* not reach are lost.                                                     *)
(***************************************************************************)
Recovered(row) ==
    IF row.state \in Pending THEN [row EXCEPT !.state = "failed"] ELSE row

Restart ==
    /\ index' = [i \in Ids |-> Recovered(index[i])]
    /\ jobs' = [k \in Keys |->
                  IF \E i \in Stored : index[i].key = k
                  THEN LET i == CHOOSE i \in Stored : index[i].key = k
                       IN  [id |-> i, state |-> Recovered(index[i]).state]
                  ELSE NoJob]
    /\ byId' = [i \in Ids |-> IF i \in Stored THEN index[i].key ELSE NoKey]
    /\ ready' = <<>>
    /\ demandJobs' = 0
    /\ mutex' = Free
    /\ poisoned' = FALSE
    /\ worker' = Idle
    /\ commands' = <<>>
    /\ reply' = [c \in Callers |-> "none"]
    /\ UNCHANGED uncertain

-----------------------------------------------------------------------------
HolderStep == StaleRemoved \/ CheckCapacity \/ VictimRemoved \/ Inserted
                \/ Retried \/ Refined
WriterStep == WriterApply \/ WriterReject
WorkerAlone == StartSync \/ SyncSucceeds \/ SyncFails \/ LeaveKey
                \/ PersistOutcome
WorkerLocking == TakeJob \/ PersistRunning \/ RefuseSync
                \/ (\E r \in Keys : BeginRefine(r)) \/ FinishJob

Next ==
    \/ \E k \in Keys : BeginAdmit(k)
    \/ \E i \in Ids : BeginRetry(i)
    \/ HolderStep
    \/ WorkerAlone
    \/ WorkerLocking
    \/ WriterStep
    \/ \E c \in Callers : Timeout(c)
    \/ Restart

Spec == Init /\ [][Next]_vars

\* The threads keep running; the queue mutex is handed to the worker sooner
\* or later when it is released again and again.
Fairness == /\ WF_vars(HolderStep) /\ WF_vars(WriterStep)
            /\ WF_vars(WorkerAlone) /\ SF_vars(WorkerLocking)
FairSpec == Spec /\ Fairness
-----------------------------------------------------------------------------
(* Properties *)

\* Every variable keeps its type; no more than the writer's queue holds is
\* ever outstanding with it.
TypeOK ==
    /\ jobs \in [Keys -> Job]
    /\ byId \in [Ids -> Keys \cup {NoKey}]
    /\ ready \in Seq(Keys)
    /\ demandJobs \in Int
    /\ mutex \in [op : Ops, key : Keys \cup {NoKey}, id : Ids \cup {NoId}]
    /\ poisoned \in BOOLEAN
    /\ worker \in [pc : Stages, key : Keys \cup {NoKey},
                   id : Ids \cup {NoId}, ok : BOOLEAN]
    /\ commands \in Seq(Command)
    /\ Len(commands) <= WriterCap
    /\ reply \in [Callers -> {"none", "waiting", "ok", "error"}]
    /\ index \in [Ids -> Row]
    /\ uncertain \subseteq Keys

\* The ready queue holds exactly the queued jobs, each once: admission, retry,
\* refusal and refinement of keys strand no job and queue none twice, and the
\* worker's expect("queued job exists") cannot fail.
ReadyQueueExact ==
    /\ Elements(ready) = Waiting
    /\ \A m, n \in DOMAIN ready : ready[m] = ready[n] => m = n

\* demand_jobs, which prefetching and the query path read without the mutex,
\* counts the queued and running jobs on every path through the worker.
DemandCountExact ==
    demandJobs = Cardinality({k \in Keys : jobs[k].state \in Pending})

\* Whatever fails between memory, the writer and the table, the row of a job
\* that memory holds as unfinished or failed is there and does not say ready,
\* unless its work just succeeded: a crash now leaves it failed, as recovery
\* promises, and neither loses it nor passes it off as published.
Unfinished(i) == index[i].state \in {"queued", "running", "failed"}
Succeeded(k) == worker.key = k /\ worker.ok /\ worker.pc = "finishing"
CrashLeavesFailed ==
    \A k \in Keys :
        jobs[k].state \in {"queued", "running", "failed"} /\ ~Succeeded(k)
            => Unfinished(jobs[k].id)

\* The id of a job leads to that job through by_id, so it names no other one:
\* also when the worker refines the key during admissions, when the key is
\* admitted again and after a restart.  (The converse fails: see Lost.)
JobFoundById == \A k \in Known : byId[jobs[k].id] = k

\* Hook-bearing work that failed, or was cut short by a crash, runs for the
\* same key again only after an explicit retry, never because a row was lost,
\* reset or applied late.
NoImplicitReplay ==
    [][worker.pc # "syncing" /\ worker'.pc = "syncing"
          => worker'.key \notin uncertain]_vars

\* A queued job leaves the queue: no wakeup, refusal or eviction strands it.
\* (A panic that poisons the mutex stops the worker: see JobOfId.)
QueuedJobsStart ==
    \A k \in Keys : jobs[k].state = "queued" ~>
                        (jobs[k].state # "queued" \/ poisoned)

\* A running job ends, with whatever answer of the writer.
RunningJobsEnd ==
    \A k \in Keys : jobs[k].state = "running" ~>
                        (jobs[k].state # "running" \/ poisoned)

\* The queue mutex, held across waits for the writer, is always given back.
MutexReleased == mutex # Free ~> (mutex = Free)

\* retry, once it has the mutex, finds the job that by_id names:
\* expect("indexed job exists").
JobOfId ==
    Unlocked => \A i \in Ids : byId[i] # NoKey => jobs[byId[i]].state # "none"

\* JobCoordinator::status: the job under the key that by_id has, whatever its id.
StateOf(i) == IF byId[i] = NoKey THEN "none" ELSE jobs[byId[i]].state
JobStates == [i \in Ids |-> StateOf(i)]
\* The ids that by_id keeps although their job has left memory: from the moment
\* the victim of an eviction is taken out until its row is known to be removed.
Lost == {i \in Ids : byId[i] # NoKey /\ jobs[byId[i]].id # i}
Ledger == INSTANCE JobLedger WITH state <- JobStates, lost <- Lost

\* The coordinator implements the ledger: what status says of an id moves only
\* as promised, through evictions, retries, refined keys and crashes that find
\* the table ahead of memory or behind it; and an id that an eviction left in
\* by_id never shows work of its own again before a restart.
LedgerKept == Ledger!Spec
-----------------------------------------------------------------------------
(***************************************************************************)
(* Why CrashLeavesFailed holds: the strengthening that every step keeps.   *)
(***************************************************************************)

\* A job has an id, an absent one has not, and no id is shared.
JobShape ==
    /\ \A k \in Keys : jobs[k].state = "none" <=> jobs[k].id = NoId
    /\ \A k, l \in Keys :
          jobs[k].id = jobs[l].id /\ jobs[k].id # NoId => k = l

\* The worker's job stays where the worker expects it.
WorkerJob ==
    /\ worker.pc # "idle" =>
          worker.key \in Keys /\ jobs[worker.key].state = "running"
    /\ worker.pc \notin {"idle", "taken"} => jobs[worker.key].id = worker.id

\* What the holder of the mutex found is still so while it waits.
HolderJob ==
    /\ mutex.op # "free" => mutex.key \in Keys
    /\ mutex.op \in {"free", "checking"} <=> reply["holder"] = "none"
    /\ mutex.op = "removing" =>
          jobs[mutex.key].state = "ready" /\ jobs[mutex.key].id = mutex.id
    /\ mutex.op \in {"checking", "evicting", "inserting", "refining"} =>
          jobs[mutex.key].state = "none"
    /\ mutex.op \in {"evicting", "inserting"} =>
          mutex.id \in Ids /\ \A k \in Keys : jobs[k].id # mutex.id
    /\ mutex.op = "retrying" => jobs[mutex.key].state = "failed"
    /\ mutex.op = "refining" => worker.pc = "refining"

\* No command on its way, its caller waiting or gone, removes the row of an
\* unfinished job or marks it ready.
HarmlessCommand(m) ==
    /\ m.kind = "insert" => m.state = "queued"
    /\ m.kind = "state" => m.state \in States
    /\ m.kind = "remove" =>
          \A k \in Keys : jobs[k].id = m.id => jobs[k].state = "ready"
    /\ m.kind = "state" /\ m.state = "ready" =>
          \A k \in Keys : jobs[k].id = m.id =>
                              jobs[k].state = "ready" \/ Succeeded(k)
    /\ mutex.op = "inserting" /\ m.id = mutex.id => m.kind = "insert"
    /\ m.caller = "holder" =>
          /\ reply["holder"] = "waiting"
          /\ mutex.op = "inserting" => m.kind = "insert" /\ m.id = mutex.id
Harmless ==
    /\ \A n \in DOMAIN commands : HarmlessCommand(commands[n])
    /\ \A m, n \in DOMAIN commands :
          commands[m].caller = "holder" /\ commands[n].caller = "holder" => m = n

\* An insert that was answered with success is in the table.
InsertDurable ==
    mutex.op = "inserting" /\ reply["holder"] = "ok" => Unfinished(mutex.id)

\* The invariant every step preserves; it implies CrashLeavesFailed because no
\* command that could still arrive, whoever waits for it, is harmful.
IInv ==
    /\ TypeOK
    /\ JobShape
    /\ ReadyQueueExact
    /\ WorkerJob
    /\ HolderJob
    /\ Harmless
    /\ InsertDurable
    /\ CrashLeavesFailed
-----------------------------------------------------------------------------
(***************************************************************************)
(* Why the ledger is kept and demand_jobs exact: what else every step      *)
(* keeps.                                                                  *)
(***************************************************************************)

\* Only the job of the worker runs.
OnlyWorkerRuns ==
    \A k \in Keys : jobs[k].state = "running" => worker.pc # "idle" /\ worker.key = k

\* The id of an admission is new to by_id until its job is in memory.
FreshInserted == mutex.op = "inserting" => byId[mutex.id] = NoKey

\* The job that just succeeded has its row, whatever the row says.
SuccessStored ==
    \A k \in Keys : jobs[k].state = "running" /\ Succeeded(k) => jobs[k].id \in Stored

\* Every row has a key, which is its own ...
KeysStored ==
    /\ \A i \in Stored : index[i].key \in Keys
    /\ \A i, j \in Stored : index[i].key = index[j].key => i = j

\* ... and no command brings anything else.
KeysSent ==
    \A n \in DOMAIN commands :
        commands[n].kind \in {"insert", "rekey"} => commands[n].key \in Keys

LedgerInv ==
    /\ OnlyWorkerRuns
    /\ JobFoundById
    /\ FreshInserted
    /\ SuccessStored
    /\ KeysStored
    /\ KeysSent
-----------------------------------------------------------------------------
(***************************************************************************)
(* Why NoImplicitReplay holds when the worker waits as long as the writer  *)
(* needs: what else every step keeps then.                                 *)
(***************************************************************************)

\* A command that changes a key is the one the refining worker waits for, and
\* the command of an admission carries the key of the admission.
OwnCommand(m) ==
    /\ m.kind = "rekey" => m.caller = "holder" /\ mutex.op = "refining"
    /\ m.caller = "holder" /\ mutex.op = "refining" =>
          m.kind = "rekey" /\ m.id = worker.id /\ m.key = mutex.key
    /\ m.caller = "holder" /\ mutex.op = "inserting" => m.key = mutex.key
CommandsOwn == \A n \in DOMAIN commands : OwnCommand(commands[n])

\* The row of an unfinished or failed job has the key memory has it under; in
\* the refinement the row is ahead of memory from the writer's answer on.
RowsKeyed ==
    /\ \A k \in Keys :
          jobs[k].state \in {"queued", "running", "failed"}
              => \/ index[jobs[k].id].key = k
                 \/ mutex.op = "refining" /\ k = worker.key
    /\ mutex.op = "inserting" /\ reply["holder"] = "ok" =>
          index[mutex.id].key = mutex.key
    /\ mutex.op = "refining" =>
          index[worker.id].key =
              IF reply["holder"] = "ok" THEN mutex.key ELSE worker.key

\* A key whose hooks ran to an unknown or failed end has a failed job, or the
\* worker is about to make it one.
UncertainFails ==
    /\ worker.pc \in {"idle", "taken", "starting"} => ~worker.ok
    /\ \A k \in uncertain :
          \/ jobs[k].state = "failed"
          \/ /\ worker.pc \in {"syncing", "closing", "finishing"}
             /\ worker.key = k
             /\ ~worker.ok

ReplayInv ==
    /\ CommandsOwn
    /\ RowsKeyed
    /\ UncertainFails
=============================================================================

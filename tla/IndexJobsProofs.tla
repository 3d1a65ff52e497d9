-------------------------- MODULE IndexJobsProofs --------------------------
(***************************************************************************)
(* For every number of keys, ids and capacities: IndexJobs keeps its types *)
(* and its ready queue exact, a crash at any step leaves every unfinished  *)
(* or failed job failed, the coordinator implements JobLedger (seen by its *)
(* id, a job moves only as the ledger promises), and work that failed is   *)
(* not replayed without a retry.  The proof is of the inductive invariants *)
(* IInv, LedgerInv and ReplayInv of IndexJobs, one step for each action.   *)
(***************************************************************************)
EXTENDS IndexJobs, SequenceTheorems, FiniteSetTheorems, TLAPS

-----------------------------------------------------------------------------
(* The ready queue *)

\* Changing the state of jobs that neither were nor become queued leaves the
\* ready queue exact.
LEMMA SameReady ==
    ASSUME ReadyQueueExact, ready' = ready,
           \A k \in Keys : jobs'[k].state = "queued" <=> jobs[k].state = "queued"
    PROVE  ReadyQueueExact'
BY DEF ReadyQueueExact, Elements, Waiting

\* Queueing a job that is not queued keeps the ready queue exact.
LEMMA EnqueueReady ==
    ASSUME TypeOK, ReadyQueueExact,
           NEW k \in Keys, NEW i, Enqueue(k, i), jobs[k].state # "queued"
    PROVE  ready' \in Seq(Keys) /\ ReadyQueueExact'
<1>1. ready \in Seq(Keys) /\ jobs \in [Keys -> Job]
  BY DEF TypeOK
<1>2. /\ jobs' = [jobs EXCEPT ![k] = [id |-> i, state |-> "queued"]]
      /\ ready' = Append(ready, k)
  BY DEF Enqueue
<1>3. /\ ready' \in Seq(Keys)
      /\ DOMAIN ready = 1 .. Len(ready)
      /\ DOMAIN ready' = 1 .. (Len(ready) + 1)
      /\ \A n \in DOMAIN ready : ready'[n] = ready[n]
      /\ ready'[Len(ready) + 1] = k
      /\ Len(ready) \in Nat
  BY <1>1, <1>2
<1>4. Waiting' = Waiting \cup {k}
  BY <1>1, <1>2 DEF Waiting
<1>5. Elements(ready)' = Elements(ready) \cup {k}
  BY <1>3 DEF Elements
<1>6. k \notin Elements(ready)
  BY DEF ReadyQueueExact, Waiting
<1>7. \A m, n \in DOMAIN ready' : ready'[m] = ready'[n] => m = n
  BY <1>3, <1>6 DEF ReadyQueueExact, Elements
<1> QED
  BY <1>3, <1>4, <1>5, <1>7 DEF ReadyQueueExact

\* Taking the head of the queue out of the queued jobs keeps it exact.
LEMMA TakeReady ==
    ASSUME TypeOK, ReadyQueueExact, ready # <<>>, ready' = Tail(ready),
           jobs' = [jobs EXCEPT ![Head(ready)].state = "running"]
    PROVE  /\ Head(ready) \in Keys
           /\ jobs[Head(ready)].state = "queued"
           /\ ready' \in Seq(Keys)
           /\ ReadyQueueExact'
<1>1. ready \in Seq(Keys) /\ jobs \in [Keys -> Job]
  BY DEF TypeOK
<1> DEFINE k == Head(ready)
<1>2. /\ k \in Keys /\ k = ready[1] /\ 1 \in DOMAIN ready
      /\ ready' \in Seq(Keys)
      /\ DOMAIN ready = 1 .. Len(ready)
      /\ DOMAIN ready' = 1 .. (Len(ready) - 1)
      /\ \A n \in DOMAIN ready' : ready'[n] = ready[n + 1]
      /\ Len(ready) \in Nat \ {0}
  BY <1>1, HeadTailProperties
<1>3. jobs[k].state = "queued"
  BY <1>2 DEF ReadyQueueExact, Elements, Waiting
<1>4. Waiting' = Waiting \ {k}
  BY <1>1, <1>2 DEF Waiting, Job
<1>5. Elements(ready)' = Elements(ready) \ {k}
  <2>1. ASSUME NEW x \in Elements(ready)' PROVE x \in Elements(ready) \ {k}
    BY <1>2 DEF Elements, ReadyQueueExact
  <2>2. ASSUME NEW x \in Elements(ready) \ {k} PROVE x \in Elements(ready)'
    <3>1. PICK n \in DOMAIN ready : x = ready[n]
      BY DEF Elements
    <3>2. n - 1 \in DOMAIN ready' /\ ready'[n - 1] = x
      BY <1>2, <3>1
    <3> QED BY <3>2 DEF Elements
  <2> QED BY <2>1, <2>2
<1>6. \A m, n \in DOMAIN ready' : ready'[m] = ready'[n] => m = n
  BY <1>2 DEF ReadyQueueExact
<1> QED
  BY <1>2, <1>3, <1>4, <1>5, <1>6 DEF ReadyQueueExact

-----------------------------------------------------------------------------
(* The commands on their way to the writer *)

\* A step that leaves the commands alone keeps them harmless if it keeps each
\* of them harmless.
LEMMA KeepCommands ==
    ASSUME TypeOK, Harmless, commands' = commands,
           \A m \in Command : HarmlessCommand(m) => HarmlessCommand(m)'
    PROVE  Harmless'
<1>1. \A n \in DOMAIN commands : commands[n] \in Command
  BY DEF TypeOK
<1> QED
  BY <1>1 DEF Harmless

\* So does the writer, which takes the oldest command away.
LEMMA TakeCommand ==
    ASSUME TypeOK, Harmless, commands # <<>>, commands' = Tail(commands),
           \A m \in Command :
              HarmlessCommand(m) /\ ~(m.caller = "holder" /\ Head(commands).caller = "holder")
                  => HarmlessCommand(m)'
    PROVE  /\ Harmless'
           /\ commands' \in Seq(Command) /\ Len(commands') <= WriterCap
           /\ Head(commands) \in Command /\ HarmlessCommand(Head(commands))
           /\ Head(commands).caller = "holder" =>
                 \A n \in DOMAIN commands' : commands'[n].caller # "holder"
<1>1. commands \in Seq(Command) /\ Len(commands) <= WriterCap
  BY DEF TypeOK
<1>2. /\ Head(commands) \in Command /\ Head(commands) = commands[1]
      /\ 1 \in DOMAIN commands
      /\ commands' \in Seq(Command) /\ Len(commands') <= WriterCap
      /\ DOMAIN commands = 1 .. Len(commands)
      /\ DOMAIN commands' = 1 .. (Len(commands) - 1)
      /\ \A n \in DOMAIN commands' : commands'[n] = commands[n + 1]
      /\ Len(commands) \in Nat \ {0}
  BY <1>1, HeadTailProperties, ConstantsAssumption DEF ConstantsAssumption
<1>3. \A n \in DOMAIN commands' :
         n + 1 \in DOMAIN commands /\ commands'[n] \in Command
  BY <1>2
<1>4. Head(commands).caller = "holder" =>
         \A n \in DOMAIN commands' : commands'[n].caller # "holder"
  BY <1>2, <1>3 DEF Harmless
<1>5. (\A n \in DOMAIN commands : HarmlessCommand(commands[n]))'
  <2>1. \A n \in DOMAIN commands' : \E m \in Command :
           /\ m = commands'[n] /\ HarmlessCommand(m)
           /\ ~(m.caller = "holder" /\ Head(commands).caller = "holder")
    BY <1>3, <1>2, <1>4 DEF Harmless
  <2>2. \A n \in DOMAIN commands' : \E m \in Command :
           m = commands'[n] /\ HarmlessCommand(m)'
    BY <2>1
  <2> QED BY <2>2
<1>6. \A m, n \in DOMAIN commands' :
         commands'[m].caller = "holder" /\ commands'[n].caller = "holder" => m = n
  BY <1>2, <1>3 DEF Harmless
<1> QED
  BY <1>2, <1>4, <1>5, <1>6 DEF Harmless

\* A submission, accepted or refused, keeps them harmless if the new command
\* is harmless and a holder of the mutex has no other one outstanding.
LEMMA SubmitCommand ==
    ASSUME TypeOK, Harmless,
           NEW c \in Callers, NEW m, Submit(c, m),
           Call(c, m) \in Command,
           c = "holder" => reply["holder"] # "waiting",
           \A o \in Command :
              o \in Elements(commands) /\ HarmlessCommand(o) => HarmlessCommand(o)',
           reply'[c] = "waiting" => HarmlessCommand(Call(c, m))'
    PROVE  /\ Harmless'
           /\ commands' \in Seq(Command) /\ Len(commands') <= WriterCap
           /\ reply' \in [Callers -> {"none", "waiting", "ok", "error"}]
           /\ reply' \in {[reply EXCEPT ![c] = "waiting"],
                          [reply EXCEPT ![c] = "error"]}
<1> DEFINE new == Call(c, m)
<1>1. /\ commands \in Seq(Command) /\ Len(commands) <= WriterCap
      /\ reply \in [Callers -> {"none", "waiting", "ok", "error"}]
      /\ DOMAIN commands = 1 .. Len(commands) /\ Len(commands) \in Nat
      /\ \A n \in DOMAIN commands : commands[n] \in Command
  BY DEF TypeOK
<1>2. CASE /\ Len(commands) < WriterCap
           /\ commands' = Append(commands, Call(c, m))
           /\ reply' = [reply EXCEPT ![c] = "waiting"]
  <2>1. /\ commands' \in Seq(Command) /\ Len(commands') <= WriterCap
        /\ DOMAIN commands' = 1 .. (Len(commands) + 1)
        /\ \A n \in DOMAIN commands : commands'[n] = commands[n]
        /\ commands'[Len(commands) + 1] = new
    BY <1>1, <1>2, ConstantsAssumption DEF ConstantsAssumption
  <2>2. HarmlessCommand(new)'
    BY <1>1, <1>2
  <2>3. \A n \in DOMAIN commands : \E o \in Command :
           o = commands[n] /\ HarmlessCommand(o)'
    BY <1>1 DEF Harmless, Elements
  <2>4. \A n \in DOMAIN commands' : \E o \in Command :
           o = commands'[n] /\ HarmlessCommand(o)'
    BY <1>1, <2>1, <2>2, <2>3
  <2>5. (\A n \in DOMAIN commands : HarmlessCommand(commands[n]))'
    BY <2>4
  <2>6. c = "holder" => \A n \in DOMAIN commands : commands[n].caller # "holder"
    BY DEF Harmless, HarmlessCommand
  <2>7. \A a, b \in DOMAIN commands' :
           commands'[a].caller = "holder" /\ commands'[b].caller = "holder" => a = b
    <3>1. new.caller = c
      BY DEF Call
    <3> QED BY <1>1, <2>1, <2>6, <3>1 DEF Harmless
  <2> QED BY <1>1, <1>2, <2>1, <2>5, <2>7 DEF Harmless
<1>3. CASE commands' = commands /\ reply' = [reply EXCEPT ![c] = "error"]
  <2>1. (\A n \in DOMAIN commands : HarmlessCommand(commands[n]))'
    <3>1. \A n \in DOMAIN commands : \E o \in Command :
             o = commands[n] /\ HarmlessCommand(o)'
      BY <1>1 DEF Harmless, Elements
    <3> QED BY <1>3, <3>1
  <2> QED BY <1>1, <1>3, <2>1 DEF Harmless
<1> QED
  BY <1>2, <1>3 DEF Submit

\* When the caller gives up, its command only loses its caller.
LEMMA DisownCommands ==
    ASSUME TypeOK, Harmless, NEW c \in Callers, Timeout(c)
    PROVE  /\ Harmless'
           /\ commands' \in Seq(Command) /\ Len(commands') <= WriterCap
<1>1. /\ commands \in Seq(Command) /\ Len(commands) <= WriterCap
      /\ DOMAIN commands = 1 .. Len(commands) /\ Len(commands) \in Nat
      /\ \A n \in DOMAIN commands : commands[n] \in Command
      /\ reply \in [Callers -> {"none", "waiting", "ok", "error"}]
  BY DEF TypeOK
<1>2. \A n \in DOMAIN commands :
         IF commands[n].caller = c
         THEN commands'[n] = [commands[n] EXCEPT !.caller = "nobody"]
         ELSE commands'[n] = commands[n]
  BY DEF Timeout
<1>3. DOMAIN commands' = DOMAIN commands
  BY DEF Timeout
<1>4. \A n \in DOMAIN commands :
         /\ commands'[n] \in Command
         /\ commands'[n].kind = commands[n].kind
         /\ commands'[n].id = commands[n].id
         /\ commands'[n].state = commands[n].state
         /\ commands'[n].caller # c
         /\ commands'[n].caller \in {commands[n].caller, "nobody"}
  <2> SUFFICES ASSUME NEW n \in DOMAIN commands
               PROVE  /\ commands'[n] \in Command
                      /\ commands'[n].kind = commands[n].kind
                      /\ commands'[n].id = commands[n].id
                      /\ commands'[n].state = commands[n].state
                      /\ commands'[n].caller # c
                      /\ commands'[n].caller \in {commands[n].caller, "nobody"}
    OBVIOUS
  <2>1. PICK x \in Command : x = commands[n]
    BY <1>1
  <2>2. commands'[n] = IF x.caller = c THEN [x EXCEPT !.caller = "nobody"] ELSE x
    BY <1>2, <2>1
  <2>3. c # "nobody"
    BY DEF Callers
  <2> QED
    BY <2>1, <2>2, <2>3 DEF Command
<1>5. commands' \in Seq(Command) /\ Len(commands') = Len(commands)
  <2>1. commands' \in [1 .. Len(commands) -> Command]
    BY <1>1, <1>4 DEF Timeout
  <2> QED BY <1>1, <2>1
<1>6. /\ UNCHANGED <<jobs, mutex, worker>>
      /\ c # "holder" => reply'["holder"] = reply["holder"]
  BY <1>1 DEF Timeout, memory, Callers
<1>7. (\A n \in DOMAIN commands : HarmlessCommand(commands[n]))'
  BY <1>3, <1>4, <1>6 DEF Harmless, HarmlessCommand, Succeeded
<1> QED
  BY <1>1, <1>3, <1>4, <1>5, <1>7 DEF Harmless

-----------------------------------------------------------------------------
(* The steps of the worker without the mutex *)

\* Beginning a sync only moves the worker and forgets the writer's answer.
LEMMA StartSyncStep ==
    ASSUME IInv, StartSync PROVE IInv'
<1> USE DEF IInv
<1>1. TypeOK'
  BY DEF TypeOK, StartSync, Clear, memory, Stages, Callers, WorkerJob
<1>2. JobShape' /\ ReadyQueueExact' /\ CrashLeavesFailed'
  BY DEF StartSync, JobShape, ReadyQueueExact, CrashLeavesFailed, Elements,
         Waiting, Unfinished, Succeeded, memory, TypeOK
<1>3. WorkerJob' /\ HolderJob' /\ InsertDurable'
  BY DEF StartSync, WorkerJob, HolderJob, InsertDurable, Clear, Unfinished,
         memory, TypeOK, Callers
<1>4. Harmless'
  BY KeepCommands DEF StartSync, HarmlessCommand, Succeeded, Clear, memory,
                      TypeOK, Callers
<1> QED BY <1>1, <1>2, <1>3, <1>4

\* The end of a sync and a refinement without a write only move the worker.
LEMMA WorkerMoves ==
    ASSUME IInv, SyncSucceeds \/ SyncFails \/ LeaveKey PROVE IInv'
<1> USE DEF IInv
<1>1. /\ worker.pc \in {"syncing", "refining"}
      /\ \E p \in {"refining", "closing"}, o \in BOOLEAN :
            worker' = [worker EXCEPT !.pc = p, !.ok = o]
      /\ mutex.op # "refining"
      /\ uncertain' \subseteq Keys
      /\ UNCHANGED <<jobs, byId, ready, demandJobs, mutex, poisoned, commands,
                     reply, index>>
  <2>1. CASE SyncSucceeds
    BY <2>1 DEF SyncSucceeds, memory, channel, TypeOK, HolderJob
  <2>2. CASE SyncFails
    <3>1. worker' = [worker EXCEPT !.pc = "closing", !.ok = worker.ok]
      BY <2>2 DEF SyncFails, TypeOK
    <3> QED BY <2>2, <3>1 DEF SyncFails, memory, channel, TypeOK, HolderJob
  <2>3. CASE LeaveKey
    BY <2>3 DEF LeaveKey, memory, channel, TypeOK, HolderJob
  <2> QED BY <2>1, <2>2, <2>3
<1>2. /\ worker'.pc \in {"refining", "closing"}
      /\ worker'.key = worker.key /\ worker'.id = worker.id
      /\ worker' \in [pc : Stages, key : Keys \cup {NoKey},
                      id : Ids \cup {NoId}, ok : BOOLEAN]
  BY <1>1 DEF TypeOK, Stages
<1>3. TypeOK'
  BY <1>1, <1>2 DEF TypeOK
<1>4. JobShape' /\ ReadyQueueExact'
  BY <1>1 DEF JobShape, ReadyQueueExact, Elements, Waiting
<1>5. CrashLeavesFailed'
  BY <1>1, <1>2 DEF CrashLeavesFailed, Unfinished, Succeeded
<1>6. WorkerJob' /\ HolderJob' /\ InsertDurable'
  BY <1>1, <1>2 DEF WorkerJob, HolderJob, InsertDurable, Unfinished
<1>7. \A m \in Command : HarmlessCommand(m) => HarmlessCommand(m)'
  BY <1>1, <1>2 DEF HarmlessCommand, Succeeded
<1>8. Harmless'
  BY <1>1, <1>7, KeepCommands
<1> QED BY <1>3, <1>4, <1>5, <1>6, <1>8

\* The outcome is submitted for the worker's job, which is still running; from
\* now on that job alone may become ready in the table.
LEMMA PersistOutcomeStep ==
    ASSUME IInv, PersistOutcome PROVE IInv'
<1> USE DEF IInv
<1> PICK m : m = SetState(worker.id, Outcome)
  OBVIOUS
<1> DEFINE new == Call("worker", m)
<1>1. /\ worker.key \in Keys /\ jobs[worker.key].state = "running"
      /\ jobs[worker.key].id = worker.id /\ worker.id \in Ids
  BY DEF PersistOutcome, WorkerJob, JobShape, TypeOK, Job
<1>2. /\ new \in Command /\ "worker" \in Callers
      /\ Submit("worker", m)
  BY <1>1 DEF Command, Callers, SetState, States, Outcome, PersistOutcome, Call
<1>3. /\ UNCHANGED <<jobs, byId, ready, demandJobs, mutex, index, poisoned, uncertain>>
      /\ worker' = [worker EXCEPT !.pc = "finishing"]
  BY DEF PersistOutcome, memory
<1>4. \A o \in Command : HarmlessCommand(o) => HarmlessCommand(o)'
  BY <1>3 DEF HarmlessCommand, Succeeded, PersistOutcome, TypeOK, Submit, Callers
<1>5. HarmlessCommand(new)'
  BY <1>1, <1>3 DEF HarmlessCommand, Succeeded, Outcome, SetState, States,
                    HolderJob, TypeOK, JobShape, Call
<1>6. /\ Harmless' /\ commands' \in Seq(Command) /\ Len(commands') <= WriterCap
      /\ reply' \in [Callers -> {"none", "waiting", "ok", "error"}]
      /\ reply'["holder"] = reply["holder"]
  <2>1. /\ Harmless' /\ commands' \in Seq(Command) /\ Len(commands') <= WriterCap
        /\ reply' \in [Callers -> {"none", "waiting", "ok", "error"}]
        /\ reply' \in {[reply EXCEPT !["worker"] = "waiting"],
                       [reply EXCEPT !["worker"] = "error"]}
    BY <1>2, <1>4, <1>5, SubmitCommand
  <2> QED BY <2>1 DEF Callers, TypeOK
<1>7. TypeOK'
  BY <1>3, <1>6 DEF TypeOK, Stages
<1>8. JobShape' /\ ReadyQueueExact' /\ CrashLeavesFailed'
  BY <1>3 DEF JobShape, ReadyQueueExact, CrashLeavesFailed, Elements, Waiting,
              Unfinished, Succeeded, TypeOK, PersistOutcome
<1>9. WorkerJob' /\ HolderJob' /\ InsertDurable'
  BY <1>3, <1>6 DEF PersistOutcome, WorkerJob, HolderJob, InsertDurable,
                    Unfinished, TypeOK
<1> QED BY <1>6, <1>7, <1>8, <1>9

-----------------------------------------------------------------------------
(* The steps of the worker with the mutex *)

\* The head of the queue starts to run: it was queued, so its row is there.
LEMMA TakeJobStep ==
    ASSUME IInv, TakeJob PROVE IInv'
<1> USE DEF IInv
<1> PICK k : k = Head(ready)
  OBVIOUS
<1>1. /\ ready # <<>> /\ ready' = Tail(ready)
      /\ jobs' = [jobs EXCEPT ![k].state = "running"]
      /\ worker' = [Idle EXCEPT !.pc = "taken", !.key = k]
      /\ worker.pc = "idle" /\ mutex.op = "free"
      /\ UNCHANGED <<byId, demandJobs, mutex, poisoned, commands, reply, index,
                     uncertain>>
  BY DEF TakeJob, channel, Unlocked, Free
<1>2. /\ k \in Keys /\ jobs[k].state = "queued"
      /\ ready' \in Seq(Keys) /\ ReadyQueueExact'
  BY <1>1, TakeReady
<1>3. /\ \A l \in Keys : jobs'[l].id = jobs[l].id
      /\ \A l \in Keys : l # k => jobs'[l] = jobs[l]
      /\ jobs'[k].state = "running" /\ jobs' \in [Keys -> Job]
  BY <1>1, <1>2 DEF TypeOK, Job, States
<1>4. worker'.pc = "taken" /\ worker'.key = k
  BY <1>1 DEF Idle
<1>5. TypeOK'
  BY <1>1, <1>2, <1>3 DEF TypeOK, Idle, Stages
<1>6. JobShape'
  BY <1>2, <1>3 DEF JobShape
<1>7. CrashLeavesFailed'
  BY <1>1, <1>2, <1>3, <1>4 DEF CrashLeavesFailed, Unfinished, Succeeded
<1>8. WorkerJob' /\ HolderJob' /\ InsertDurable'
  BY <1>1, <1>2, <1>3, <1>4 DEF WorkerJob, HolderJob, InsertDurable
<1>9. \A m \in Command : HarmlessCommand(m) => HarmlessCommand(m)'
  BY <1>1, <1>2, <1>3, <1>4 DEF HarmlessCommand, Succeeded
<1>10. Harmless'
  BY <1>1, <1>9, KeepCommands
<1> QED BY <1>2, <1>5, <1>6, <1>7, <1>8, <1>10

\* Asking the writer to mark the job running cannot mark it ready.
LEMMA PersistRunningStep ==
    ASSUME IInv, PersistRunning PROVE IInv'
<1> USE DEF IInv
<1> PICK i : i = jobs[worker.key].id
  OBVIOUS
<1> PICK m : m = SetState(i, "running")
  OBVIOUS
<1> DEFINE new == Call("worker", m)
<1>1. /\ worker.pc = "taken" /\ worker.key \in Keys /\ i \in Ids
      /\ jobs[worker.key].state = "running"
  BY DEF PersistRunning, WorkerJob, JobShape, TypeOK, Job
<1>2. /\ worker' = [worker EXCEPT !.pc = "starting", !.id = i]
      /\ mutex.op = "free"
      /\ UNCHANGED <<jobs, byId, ready, demandJobs, mutex, poisoned, index,
                     uncertain>>
      /\ Submit("worker", m)
  BY DEF PersistRunning, memory, Unlocked, Free
<1>3. new \in Command /\ "worker" \in Callers
  BY <1>1 DEF Command, Callers, SetState, States, Call
<1>4. /\ worker'.pc = "starting" /\ worker'.key = worker.key /\ worker'.id = i
      /\ worker' \in [pc : Stages, key : Keys \cup {NoKey},
                      id : Ids \cup {NoId}, ok : BOOLEAN]
  BY <1>1, <1>2 DEF TypeOK, Stages
<1>5. \A o \in Command : HarmlessCommand(o) => HarmlessCommand(o)'
  BY <1>1, <1>2, <1>4 DEF HarmlessCommand, Succeeded, TypeOK, Submit, Callers
<1>6. HarmlessCommand(new)'
  BY <1>2 DEF HarmlessCommand, SetState, States, Call
<1>7. /\ Harmless' /\ commands' \in Seq(Command) /\ Len(commands') <= WriterCap
      /\ reply' \in [Callers -> {"none", "waiting", "ok", "error"}]
      /\ reply' \in {[reply EXCEPT !["worker"] = "waiting"],
                     [reply EXCEPT !["worker"] = "error"]}
  BY <1>2, <1>3, <1>5, <1>6, SubmitCommand
<1>8. reply'["holder"] = reply["holder"]
  BY <1>7 DEF Callers, TypeOK
<1>9. TypeOK'
  BY <1>2, <1>4, <1>7 DEF TypeOK
<1>10. JobShape' /\ ReadyQueueExact'
  BY <1>2 DEF JobShape, ReadyQueueExact, Elements, Waiting
<1>11. CrashLeavesFailed'
  BY <1>1, <1>2, <1>4 DEF CrashLeavesFailed, Unfinished, Succeeded
<1>12. WorkerJob' /\ HolderJob' /\ InsertDurable'
  BY <1>1, <1>2, <1>4, <1>8 DEF WorkerJob, HolderJob, InsertDurable, Unfinished
<1> QED BY <1>7, <1>9, <1>10, <1>11, <1>12

\* The worker gives its job up or finishes it.  A job that fails was running
\* and not about to be ready, so its row is unfinished.
LEMMA EndJobStep ==
    ASSUME IInv, RefuseSync \/ FinishJob PROVE IInv'
<1> USE DEF IInv
<1> PICK k, r : /\ k = worker.key
                /\ r = IF worker.pc = "finishing" THEN Outcome ELSE "failed"
  OBVIOUS
<1>1. /\ k \in Keys /\ jobs[k].state = "running"
      /\ worker.pc \in {"starting", "finishing"} /\ mutex.op = "free"
      /\ r = "ready" => Succeeded(k)
      /\ r = "failed" => ~Succeeded(k)
      /\ r \in {"ready", "failed"}
  BY DEF RefuseSync, FinishJob, WorkerJob, Unlocked, Free, Outcome, Succeeded
<1>2. /\ jobs' = [jobs EXCEPT ![k].state = r]
      /\ demandJobs' = demandJobs - 1 /\ worker' = Idle
      /\ reply' = [reply EXCEPT !["worker"] = "none"] /\ commands' = commands
      /\ UNCHANGED <<byId, ready, mutex, poisoned, index, uncertain>>
  BY <1>1 DEF RefuseSync, FinishJob, Clear
<1>3. /\ \A l \in Keys : jobs'[l].id = jobs[l].id
      /\ \A l \in Keys : l # k => jobs'[l] = jobs[l]
      /\ jobs'[k].state = r /\ jobs' \in [Keys -> Job]
  BY <1>1, <1>2 DEF TypeOK, Job, States
<1>4. worker'.pc = "idle" /\ reply'["holder"] = reply["holder"]
  BY <1>2 DEF Idle, TypeOK, Callers
<1>5. TypeOK'
  BY <1>2, <1>3 DEF TypeOK, Idle, Stages, Callers
<1>6. JobShape'
  BY <1>1, <1>3 DEF JobShape
<1>7. ReadyQueueExact'
  BY <1>1, <1>2, <1>3, SameReady
<1>8. CrashLeavesFailed'
  BY <1>1, <1>2, <1>3, <1>4 DEF CrashLeavesFailed, Unfinished, Succeeded
<1>9. WorkerJob' /\ HolderJob' /\ InsertDurable'
  BY <1>1, <1>2, <1>3, <1>4 DEF WorkerJob, HolderJob, InsertDurable
<1>10. \A m \in Command : HarmlessCommand(m) => HarmlessCommand(m)'
  BY <1>1, <1>2, <1>3, <1>4 DEF HarmlessCommand, Succeeded
<1>11. Harmless'
  BY <1>2, <1>10, KeepCommands
<1> QED BY <1>5, <1>6, <1>7, <1>8, <1>9, <1>11

\* Refining either gives up at once or asks the writer for the new key, which
\* leaves the state of the row alone.
LEMMA BeginRefineStep ==
    ASSUME IInv, NEW r \in Keys, BeginRefine(r) PROVE IInv'
<1> USE DEF IInv
<1> PICK m : m = UpdateKey(jobs[worker.key].id, r)
  OBVIOUS
<1> DEFINE new == Call("holder", m)
<1>1. /\ worker.pc = "refining" /\ worker.key \in Keys
      /\ jobs[worker.key].id \in Ids /\ mutex.op = "free"
      /\ reply["holder"] = "none"
      /\ UNCHANGED <<jobs, byId, ready, demandJobs, poisoned, index, uncertain>>
  BY DEF BeginRefine, WorkerJob, HolderJob, JobShape, TypeOK, Job, Unlocked,
         Free, memory
<1>2. JobShape' /\ ReadyQueueExact'
  BY <1>1 DEF JobShape, ReadyQueueExact, Elements, Waiting
<1>3. CASE jobs[r].state # "none"
  <2>1. /\ worker' = [worker EXCEPT !.pc = "closing"]
        /\ UNCHANGED <<mutex, commands, reply>>
    BY <1>3 DEF BeginRefine, channel
  <2>2. /\ worker'.pc = "closing" /\ worker'.key = worker.key
        /\ worker'.id = worker.id
    BY <2>1 DEF TypeOK
  <2>3. TypeOK'
    BY <1>1, <2>1 DEF TypeOK, Stages
  <2>4. CrashLeavesFailed' /\ WorkerJob' /\ HolderJob' /\ InsertDurable'
    BY <1>1, <2>1, <2>2 DEF CrashLeavesFailed, WorkerJob, HolderJob,
                           InsertDurable, Unfinished, Succeeded
  <2>5. \A o \in Command : HarmlessCommand(o) => HarmlessCommand(o)'
    BY <1>1, <2>1, <2>2 DEF HarmlessCommand, Succeeded
  <2>6. Harmless'
    BY <2>1, <2>5, KeepCommands
  <2> QED BY <1>2, <2>3, <2>4, <2>6
<1>4. CASE jobs[r].state = "none"
  <2>1. /\ mutex' = [op |-> "refining", key |-> r, id |-> worker.id]
        /\ Submit("holder", m) /\ worker' = worker
    BY <1>4 DEF BeginRefine
  <2>2. new \in Command /\ "holder" \in Callers
    BY <1>1 DEF Command, Callers, UpdateKey, Call
  <2>3. \A o \in Command : HarmlessCommand(o) => HarmlessCommand(o)'
    BY <1>1, <2>1 DEF HarmlessCommand, Succeeded
  <2>4. reply'["holder"] = "waiting" => HarmlessCommand(new)'
    BY <1>1, <2>1 DEF HarmlessCommand, UpdateKey, Call
  <2>5. /\ Harmless' /\ commands' \in Seq(Command) /\ Len(commands') <= WriterCap
        /\ reply' \in [Callers -> {"none", "waiting", "ok", "error"}]
        /\ reply' \in {[reply EXCEPT !["holder"] = "waiting"],
                       [reply EXCEPT !["holder"] = "error"]}
    BY <1>1, <2>1, <2>2, <2>3, <2>4, SubmitCommand
  <2>6. reply'["holder"] \in {"waiting", "error"}
    BY <2>5 DEF Callers, TypeOK
  <2>7. TypeOK'
    BY <1>1, <2>1, <2>5 DEF TypeOK, Ops
  <2>8. CrashLeavesFailed' /\ WorkerJob' /\ HolderJob' /\ InsertDurable'
    BY <1>1, <1>4, <2>1, <2>6 DEF CrashLeavesFailed, WorkerJob, HolderJob,
                           InsertDurable, Unfinished, Succeeded
  <2> QED BY <1>2, <2>5, <2>7, <2>8
<1> QED BY <1>3, <1>4

\* A refined job keeps its id and state under the new key.
LEMMA RefinedStep ==
    ASSUME IInv, Refined PROVE IInv'
<1> USE DEF IInv
<1> PICK k, r : k = worker.key /\ r = mutex.key
  OBVIOUS
<1>1. /\ worker.pc = "refining" /\ k \in Keys /\ r \in Keys
      /\ jobs[k].state = "running" /\ jobs[k].id = worker.id
      /\ jobs[r].state = "none" /\ r # k
      /\ reply["holder"] \in {"ok", "error"}
  BY DEF Refined, WorkerJob, HolderJob, Answered
<1>2. /\ mutex' = Free /\ commands' = commands
      /\ reply' = [reply EXCEPT !["holder"] = "none"]
      /\ UNCHANGED <<ready, demandJobs, poisoned, index, uncertain>>
  BY DEF Refined, Release, Clear
<1>3. reply'["holder"] = "none" /\ reply' \in [Callers -> {"none", "waiting", "ok", "error"}]
  BY <1>2 DEF TypeOK, Callers
<1>4. CASE reply["holder"] = "ok"
  <2>1. /\ jobs' = [jobs EXCEPT ![r] = jobs[k], ![k] = NoJob]
        /\ byId' = [byId EXCEPT ![jobs[k].id] = r]
        /\ worker' = [worker EXCEPT !.pc = "closing", !.key = r]
    BY <1>4 DEF Refined, Rekey
  <2>2. /\ worker'.pc = "closing" /\ worker'.key = r /\ worker'.id = worker.id
        /\ worker' \in [pc : Stages, key : Keys \cup {NoKey},
                        id : Ids \cup {NoId}, ok : BOOLEAN]
    BY <1>1, <2>1 DEF TypeOK, Stages
  <2>3. /\ jobs'[r] = jobs[k] /\ jobs'[k] = NoJob
        /\ \A l \in Keys \ {k, r} : jobs'[l] = jobs[l]
        /\ jobs' \in [Keys -> Job]
    BY <1>1, <2>1 DEF TypeOK, Job, NoJob
  <2>4. byId' \in [Ids -> Keys \cup {NoKey}]
    BY <1>1, <2>1 DEF TypeOK
  <2>5. TypeOK'
    BY <1>2, <1>3, <2>2, <2>3, <2>4 DEF TypeOK, Free, Ops
  <2>6. JobShape'
    BY <1>1, <2>3 DEF JobShape, NoJob
  <2>7. \A l \in Keys : jobs'[l].state = "queued" <=> jobs[l].state = "queued"
    BY <1>1, <2>3 DEF NoJob
  <2>8. ReadyQueueExact'
    BY <1>2, <2>7, SameReady
  <2>9. CrashLeavesFailed'
    BY <1>1, <1>2, <2>2, <2>3 DEF CrashLeavesFailed, Unfinished, Succeeded, NoJob
  <2>10. WorkerJob' /\ HolderJob' /\ InsertDurable'
    BY <1>1, <1>2, <1>3, <2>2, <2>3 DEF WorkerJob, HolderJob, InsertDurable, Free
  <2>11. ASSUME NEW m \in Command, HarmlessCommand(m)
         PROVE  HarmlessCommand(m)'
    <3>1. m.id # NoId /\ m.caller # "holder"
      BY <1>1, <2>11, ConstantsAssumption DEF Command, ConstantsAssumption, HarmlessCommand
    <3>2. \A l \in Keys : jobs'[l].id = m.id =>
             \E o \in Keys : jobs[o].id = m.id /\ jobs[o].state = jobs'[l].state
      BY <1>1, <2>3, <3>1 DEF NoJob
    <3>3. \A o \in Keys : ~Succeeded(o)
      BY <1>1 DEF Succeeded
    <3>4. m.kind = "remove" =>
             \A l \in Keys : jobs'[l].id = m.id => jobs'[l].state = "ready"
      BY <2>11, <3>2 DEF HarmlessCommand
    <3>5. m.kind = "state" /\ m.state = "ready" =>
             \A l \in Keys : jobs'[l].id = m.id => jobs'[l].state = "ready"
      BY <2>11, <3>2, <3>3 DEF HarmlessCommand
    <3>6. mutex'.op = "free"
      BY <1>2 DEF Free
    <3> QED BY <2>11, <3>1, <3>4, <3>5, <3>6 DEF HarmlessCommand
  <2>12. Harmless'
    BY <1>2, <2>11, KeepCommands
  <2> QED BY <2>5, <2>6, <2>8, <2>9, <2>10, <2>12
<1>5. CASE reply["holder"] # "ok"
  <2>1. /\ worker' = [worker EXCEPT !.pc = "closing", !.ok = FALSE]
        /\ UNCHANGED <<jobs, byId>>
    BY <1>5 DEF Refined
  <2>2. /\ worker'.pc = "closing" /\ worker'.key = k /\ worker'.id = worker.id
        /\ worker' \in [pc : Stages, key : Keys \cup {NoKey},
                        id : Ids \cup {NoId}, ok : BOOLEAN]
    BY <1>1, <2>1 DEF TypeOK, Stages
  <2>3. TypeOK'
    BY <1>2, <1>3, <2>1, <2>2 DEF TypeOK, Free, Ops
  <2>4. JobShape' /\ ReadyQueueExact'
    BY <1>2, <2>1 DEF JobShape, ReadyQueueExact, Elements, Waiting
  <2>5. CrashLeavesFailed'
    BY <1>1, <1>2, <2>1, <2>2 DEF CrashLeavesFailed, Unfinished, Succeeded
  <2>6. WorkerJob' /\ HolderJob' /\ InsertDurable'
    BY <1>1, <1>2, <1>3, <2>1, <2>2 DEF WorkerJob, HolderJob, InsertDurable, Free
  <2>7. \A m \in Command : HarmlessCommand(m) => HarmlessCommand(m)'
    BY <1>1, <1>2, <1>3, <2>1, <2>2 DEF HarmlessCommand, Succeeded, Free
  <2>8. Harmless'
    BY <1>2, <2>7, KeepCommands
  <2> QED BY <2>3, <2>4, <2>5, <2>6, <2>8
<1> QED BY <1>4, <1>5

-----------------------------------------------------------------------------
(* The steps of the request threads *)

\* What the steps below share: the holder of the mutex asks the writer for m
\* and goes on to another operation, and nothing else changes.
LEMMA HolderAsks ==
    ASSUME IInv, NEW m, NEW op, NEW key \in Keys, NEW id \in Ids,
           mutex' = [op |-> op, key |-> key, id |-> id],
           op \in Ops \ {"free", "checking", "refining", "inserting"},
           mutex.op # "refining",
           Submit("holder", m), Call("holder", m) \in Command,
           reply["holder"] # "waiting",
           (HarmlessCommand(Call("holder", m)))' \/ reply'["holder"] = "error",
           op = "removing" => jobs[key].id = id /\ jobs[key].state = "ready",
           op = "retrying" => jobs[key].state = "failed",
           op # "evicting",
           UNCHANGED <<jobs, byId, ready, demandJobs, worker, index, poisoned, uncertain>>
    PROVE  IInv'
<1> USE DEF IInv
<1>1. \A o \in Command : HarmlessCommand(o) => HarmlessCommand(o)'
  BY DEF HarmlessCommand, Succeeded
<1>2. "holder" \in Callers
  BY DEF Callers
<1>3. /\ Harmless' /\ commands' \in Seq(Command) /\ Len(commands') <= WriterCap
      /\ reply' \in [Callers -> {"none", "waiting", "ok", "error"}]
      /\ reply' \in {[reply EXCEPT !["holder"] = "waiting"],
                     [reply EXCEPT !["holder"] = "error"]}
  BY <1>1, <1>2, SubmitCommand
<1>4. reply'["holder"] \in {"waiting", "error"}
  BY <1>2, <1>3 DEF TypeOK
<1>5. TypeOK'
  BY <1>3 DEF TypeOK
<1>6. JobShape' /\ ReadyQueueExact' /\ CrashLeavesFailed' /\ WorkerJob'
  BY DEF JobShape, ReadyQueueExact, Elements, Waiting, CrashLeavesFailed,
         Unfinished, Succeeded, WorkerJob
<1>7. HolderJob' /\ InsertDurable'
  BY <1>4 DEF HolderJob, InsertDurable
<1> QED BY <1>3, <1>5, <1>6, <1>7

\* The holder gives the mutex back without having changed anything.
LEMMA HolderGivesUp ==
    ASSUME IInv, reply["holder"] # "waiting", mutex' = Free,
           reply' \in [Callers -> {"none", "waiting", "ok", "error"}],
           reply'["holder"] = "none",
           UNCHANGED <<jobs, byId, ready, demandJobs, poisoned, worker, commands,
                       index, uncertain>>
    PROVE  IInv'
<1> USE DEF IInv
<1>1. TypeOK'
  BY DEF TypeOK, Free, Ops
<1>2. JobShape' /\ ReadyQueueExact' /\ CrashLeavesFailed' /\ WorkerJob'
  BY DEF JobShape, ReadyQueueExact, Elements, Waiting, CrashLeavesFailed,
         Unfinished, Succeeded, WorkerJob
<1>3. HolderJob' /\ InsertDurable'
  BY DEF HolderJob, InsertDurable, Free
<1>4. \A o \in Command : HarmlessCommand(o) => HarmlessCommand(o)'
  BY DEF HarmlessCommand, Succeeded, Free
<1>5. Harmless'
  BY <1>4, KeepCommands
<1> QED BY <1>1, <1>2, <1>3, <1>5

\* Admission either goes on to the limits or asks the writer to remove the row
\* of the ready job, the only job with that id.
LEMMA BeginAdmitStep ==
    ASSUME IInv, NEW k \in Keys, BeginAdmit(k) PROVE IInv'
<1> USE DEF IInv
<1>1. /\ mutex.op = "free" /\ reply["holder"] = "none"
      /\ UNCHANGED <<jobs, byId, ready, demandJobs, poisoned, worker, index, uncertain>>
  BY DEF BeginAdmit, Unlocked, Free, memory, HolderJob
<1>2. CASE jobs[k].state = "none"
  <2>1. /\ mutex' = [op |-> "checking", key |-> k, id |-> NoId]
        /\ UNCHANGED <<commands, reply>>
    BY <1>2 DEF BeginAdmit, channel
  <2>2. TypeOK'
    BY <1>1, <2>1 DEF TypeOK, Ops
  <2>3. JobShape' /\ ReadyQueueExact' /\ CrashLeavesFailed' /\ WorkerJob'
    BY <1>1 DEF JobShape, ReadyQueueExact, Elements, Waiting, CrashLeavesFailed,
                Unfinished, Succeeded, WorkerJob
  <2>4. HolderJob' /\ InsertDurable'
    BY <1>1, <1>2, <2>1 DEF HolderJob, InsertDurable
  <2>5. \A o \in Command : HarmlessCommand(o) => HarmlessCommand(o)'
    BY <1>1, <2>1 DEF HarmlessCommand, Succeeded
  <2>6. Harmless'
    BY <2>1, <2>5, KeepCommands
  <2> QED BY <2>2, <2>3, <2>4, <2>6
<1>3. CASE jobs[k].state = "ready"
  <2> PICK i, m : i = jobs[k].id /\ m = RemoveRow(i)
    OBVIOUS
  <2>1. i \in Ids
    BY <1>3 DEF JobShape, TypeOK, Job
  <2>2. /\ mutex' = [op |-> "removing", key |-> k, id |-> i]
        /\ Submit("holder", m)
    BY <1>3 DEF BeginAdmit
  <2>3. Call("holder", m) \in Command
    BY <2>1 DEF Command, Callers, RemoveRow, Call
  <2>4. \A l \in Keys : jobs'[l].id = i => jobs'[l].state = "ready"
    BY <1>1, <1>3, <2>1, ConstantsAssumption DEF JobShape, ConstantsAssumption
  <2>5. reply'["holder"] \in {"waiting", "error"}
    BY <2>2 DEF Submit, TypeOK, Callers
  <2>6. (HarmlessCommand(Call("holder", m)))' \/ reply'["holder"] = "error"
    BY <2>2, <2>4, <2>5 DEF HarmlessCommand, RemoveRow, Call
  <2>7. "removing" \in Ops \ {"free", "checking", "refining", "inserting"}
    BY DEF Ops
  <2> QED BY <1>1, <1>3, <2>1, <2>2, <2>3, <2>6, <2>7, HolderAsks
<1> QED BY <1>2, <1>3 DEF BeginAdmit

\* Asking the writer to mark a failed job queued is harmless, even when the id
\* is not the one its key has now.
LEMMA BeginRetryStep ==
    ASSUME IInv, NEW i \in Ids, BeginRetry(i) PROVE IInv'
<1> USE DEF IInv
<1> PICK k, m : k = byId[i] /\ m = SetState(i, "queued")
  OBVIOUS
<1>1. /\ mutex.op = "free" /\ reply["holder"] = "none" /\ k \in Keys
      /\ UNCHANGED <<jobs, byId, ready, demandJobs, worker, index, uncertain>>
  BY DEF BeginRetry, Unlocked, Free, memory, HolderJob, TypeOK
<1>2. CASE /\ poisoned' = TRUE
           /\ UNCHANGED <<mutex, commands, reply>>
  <2>1. TypeOK'
    BY <1>1, <1>2 DEF TypeOK
  <2>2. JobShape' /\ ReadyQueueExact' /\ CrashLeavesFailed' /\ WorkerJob'
    BY <1>1 DEF JobShape, ReadyQueueExact, Elements, Waiting, CrashLeavesFailed,
                Unfinished, Succeeded, WorkerJob
  <2>3. HolderJob' /\ InsertDurable'
    BY <1>1, <1>2 DEF HolderJob, InsertDurable, Unfinished
  <2>4. \A o \in Command : HarmlessCommand(o) => HarmlessCommand(o)'
    BY <1>1, <1>2 DEF HarmlessCommand, Succeeded
  <2>5. Harmless'
    BY <1>2, <2>4, KeepCommands
  <2> QED BY <2>1, <2>2, <2>3, <2>5
<1>3. CASE /\ jobs[k].state = "failed"
           /\ mutex' = [op |-> "retrying", key |-> k, id |-> i]
           /\ Submit("holder", m)
           /\ UNCHANGED poisoned
  <2>1. Call("holder", m) \in Command
    BY DEF Command, Callers, SetState, Call, States
  <2>2. (HarmlessCommand(Call("holder", m)))' \/ reply'["holder"] = "error"
    <3>1. reply'["holder"] \in {"waiting", "error"}
      BY <1>3 DEF Submit, TypeOK, Callers
    <3> QED BY <1>3, <3>1 DEF HarmlessCommand, SetState, Call, States
  <2>3. "retrying" \in Ops \ {"free", "checking", "refining", "inserting"}
    BY DEF Ops
  <2> QED BY <1>1, <1>3, <2>1, <2>2, <2>3, HolderAsks
<1> QED BY <1>2, <1>3 DEF BeginRetry, Retriable, channel

\* Once the row of the ready job is gone, no job has that key or id.
LEMMA StaleRemovedStep ==
    ASSUME IInv, StaleRemoved PROVE IInv'
<1> USE DEF IInv
<1> PICK k : k = mutex.key
  OBVIOUS
<1>1. /\ mutex.op = "removing" /\ k \in Keys /\ jobs[k].state = "ready"
      /\ reply["holder"] \in {"ok", "error"}
      /\ reply' = [reply EXCEPT !["holder"] = "none"] /\ commands' = commands
      /\ UNCHANGED <<ready, demandJobs, poisoned, worker, index, uncertain>>
  BY DEF StaleRemoved, HolderJob, Answered, Clear
<1>2. reply'["holder"] = "none" /\ reply' \in [Callers -> {"none", "waiting", "ok", "error"}]
  BY <1>1 DEF TypeOK, Callers
<1>3. CASE reply["holder"] = "ok"
  <2>1. /\ jobs' = [jobs EXCEPT ![k] = NoJob]
        /\ byId' = [byId EXCEPT ![mutex.id] = NoKey]
        /\ mutex' = [op |-> "checking", key |-> k, id |-> NoId]
    BY <1>3 DEF StaleRemoved
  <2>2. /\ jobs'[k] = NoJob /\ \A l \in Keys \ {k} : jobs'[l] = jobs[l]
        /\ jobs' \in [Keys -> Job] /\ byId' \in [Ids -> Keys \cup {NoKey}]
    BY <1>1, <2>1 DEF TypeOK, Job, NoJob
  <2>3. TypeOK'
    BY <1>1, <1>2, <2>1, <2>2 DEF TypeOK, Ops
  <2>4. JobShape'
    BY <2>2 DEF JobShape, NoJob
  <2>5. \A l \in Keys : jobs'[l].state = "queued" <=> jobs[l].state = "queued"
    BY <1>1, <2>2 DEF NoJob
  <2>6. ReadyQueueExact'
    BY <1>1, <2>5, SameReady
  <2>7. CrashLeavesFailed' /\ WorkerJob'
    BY <1>1, <2>2 DEF CrashLeavesFailed, Unfinished, Succeeded, NoJob, WorkerJob
  <2>8. HolderJob' /\ InsertDurable'
    BY <1>1, <1>2, <2>1, <2>2 DEF HolderJob, InsertDurable, NoJob
  <2>9. ASSUME NEW m \in Command, HarmlessCommand(m)
        PROVE  HarmlessCommand(m)'
    <3>1. m.id # NoId /\ m.caller # "holder"
      BY <1>1, <2>9, ConstantsAssumption DEF Command, ConstantsAssumption, HarmlessCommand
    <3> QED BY <1>1, <2>1, <2>2, <2>9, <3>1 DEF HarmlessCommand, Succeeded, NoJob
  <2>10. Harmless'
    BY <1>1, <2>9, KeepCommands
  <2> QED BY <2>3, <2>4, <2>6, <2>7, <2>8, <2>10
<1>4. CASE reply["holder"] # "ok"
  <2>1. mutex' = Free /\ UNCHANGED <<jobs, byId>>
    BY <1>4 DEF StaleRemoved, Release
  <2> QED BY <1>1, <1>2, <2>1, HolderGivesUp
<1> QED BY <1>3, <1>4

\* Asking for a row under a fresh id: nothing in memory and no command on its
\* way mentions that id.
LEMMA InsertStep ==
    ASSUME IInv, mutex.op \in {"checking", "evicting"},
           reply["holder"] # "waiting", Insert(mutex.key),
           byId' \in [Ids -> Keys \cup {NoKey}],
           UNCHANGED <<jobs, ready, demandJobs, poisoned, worker, index, uncertain>>
    PROVE  IInv'
<1> USE DEF IInv
<1> PICK i \in FreshIds : /\ mutex' = [op |-> "inserting", key |-> mutex.key, id |-> i]
                          /\ Submit("holder", InsertRow(i, mutex.key))
  BY DEF Insert
<1> PICK k, m : k = mutex.key /\ m = InsertRow(i, k)
  OBVIOUS
<1>1. /\ i \in Ids /\ \A l \in Keys : jobs[l].id # i
      /\ k \in Keys /\ jobs[k].state = "none"
  BY DEF FreshIds, HolderJob
<1>2. \A o \in Elements(commands) : o.id # i
  BY DEF FreshIds, Elements
<1>3. Call("holder", m) \in Command /\ "holder" \in Callers
  BY <1>1 DEF Command, Callers, InsertRow, Call, States
<1>4. \A o \in Command :
         o \in Elements(commands) /\ HarmlessCommand(o) => HarmlessCommand(o)'
  BY <1>2 DEF HarmlessCommand, Succeeded
<1>5. reply'["holder"] = "waiting" => HarmlessCommand(Call("holder", m))'
  BY <1>1 DEF HarmlessCommand, InsertRow, Call
<1>6. /\ Harmless' /\ commands' \in Seq(Command) /\ Len(commands') <= WriterCap
      /\ reply' \in [Callers -> {"none", "waiting", "ok", "error"}]
      /\ reply' \in {[reply EXCEPT !["holder"] = "waiting"],
                     [reply EXCEPT !["holder"] = "error"]}
  BY <1>3, <1>4, <1>5, SubmitCommand
<1>7. reply'["holder"] \in {"waiting", "error"}
  BY <1>3, <1>6 DEF TypeOK
<1>8. TypeOK'
  BY <1>1, <1>6 DEF TypeOK, Ops
<1>9. JobShape' /\ ReadyQueueExact' /\ CrashLeavesFailed' /\ WorkerJob'
  BY DEF JobShape, ReadyQueueExact, Elements, Waiting, CrashLeavesFailed,
         Unfinished, Succeeded, WorkerJob
<1>10. HolderJob' /\ InsertDurable'
  BY <1>1, <1>7 DEF HolderJob, InsertDurable
<1> QED BY <1>6, <1>8, <1>9, <1>10

\* Giving up a ready job leaves no job with its id, whatever the writer does
\* to the row.
LEMMA EvictStep ==
    ASSUME IInv, mutex.op = "checking", NEW v \in Keys, jobs[v].state = "ready",
           jobs' = [jobs EXCEPT ![v] = NoJob],
           mutex' = [op |-> "evicting", key |-> mutex.key, id |-> jobs[v].id],
           Submit("holder", RemoveRow(jobs[v].id)),
           UNCHANGED <<byId, ready, demandJobs, poisoned, worker, index, uncertain>>
    PROVE  IInv'
<1> USE DEF IInv
<1> PICK i, m : i = jobs[v].id /\ m = RemoveRow(i)
  OBVIOUS
<1>1. /\ i \in Ids /\ mutex.key \in Keys /\ jobs[mutex.key].state = "none"
      /\ reply["holder"] = "none"
  BY DEF JobShape, TypeOK, Job, HolderJob
<1>2. /\ jobs'[v] = NoJob /\ \A l \in Keys \ {v} : jobs'[l] = jobs[l]
      /\ jobs' \in [Keys -> Job]
  BY DEF TypeOK, Job, NoJob
<1>3. i # NoId /\ \A l \in Keys : jobs'[l].id # i
  BY <1>1, <1>2, ConstantsAssumption DEF JobShape, ConstantsAssumption, NoJob
<1>4. Call("holder", m) \in Command /\ "holder" \in Callers
  BY <1>1 DEF Command, Callers, RemoveRow, Call
<1>5. ASSUME NEW o \in Command, HarmlessCommand(o)
      PROVE  HarmlessCommand(o)'
  <2>1. o.id # NoId /\ o.caller # "holder"
    BY <1>1, <1>5, ConstantsAssumption DEF Command, ConstantsAssumption, HarmlessCommand
  <2> QED BY <1>2, <1>5, <2>1 DEF HarmlessCommand, Succeeded, NoJob
<1>6. reply'["holder"] = "waiting" => HarmlessCommand(Call("holder", m))'
  BY <1>3 DEF HarmlessCommand, RemoveRow, Call
<1>7. /\ Harmless' /\ commands' \in Seq(Command) /\ Len(commands') <= WriterCap
      /\ reply' \in [Callers -> {"none", "waiting", "ok", "error"}]
      /\ reply' \in {[reply EXCEPT !["holder"] = "waiting"],
                     [reply EXCEPT !["holder"] = "error"]}
  BY <1>1, <1>4, <1>5, <1>6, SubmitCommand
<1>8. reply'["holder"] \in {"waiting", "error"}
  BY <1>4, <1>7 DEF TypeOK
<1>9. TypeOK'
  BY <1>1, <1>2, <1>7 DEF TypeOK, Ops
<1>10. JobShape'
  BY <1>2 DEF JobShape, NoJob
<1>11. \A l \in Keys : jobs'[l].state = "queued" <=> jobs[l].state = "queued"
  BY <1>2 DEF NoJob
<1>12. ReadyQueueExact'
  BY <1>11, SameReady
<1>13. CrashLeavesFailed' /\ WorkerJob'
  BY <1>2 DEF CrashLeavesFailed, Unfinished, Succeeded, NoJob, WorkerJob
<1>14. HolderJob' /\ InsertDurable'
  BY <1>1, <1>2, <1>3, <1>8 DEF HolderJob, InsertDurable, NoJob
<1> QED BY <1>7, <1>9, <1>10, <1>12, <1>13, <1>14

\* The limits refuse the key, make it evict a ready job, or let it in.
LEMMA CheckCapacityStep ==
    ASSUME IInv, CheckCapacity PROVE IInv'
<1>1. /\ mutex.op = "checking" /\ reply["holder"] = "none"
      /\ reply \in [Callers -> {"none", "waiting", "ok", "error"}]
      /\ byId \in [Ids -> Keys \cup {NoKey}]
      /\ UNCHANGED <<byId, ready, demandJobs, poisoned, worker, index, uncertain>>
  BY DEF CheckCapacity, IInv, HolderJob, TypeOK
<1>2. CASE Release /\ UNCHANGED <<jobs, channel>>
  BY <1>1, <1>2, HolderGivesUp DEF Release, channel
<1>3. CASE \E v \in Keys :
             /\ Evictable(v)
             /\ jobs' = [jobs EXCEPT ![v] = NoJob]
             /\ mutex' = [op |-> "evicting", key |-> mutex.key, id |-> jobs[v].id]
             /\ Submit("holder", RemoveRow(jobs[v].id))
  BY <1>1, <1>3, EvictStep DEF Evictable
<1>4. CASE Insert(mutex.key) /\ UNCHANGED jobs
  BY <1>1, <1>4, InsertStep
<1> QED BY <1>2, <1>3, <1>4 DEF CheckCapacity

\* With the victim gone the new key is inserted; otherwise memory is left
\* without the victim.
LEMMA VictimRemovedStep ==
    ASSUME IInv, VictimRemoved PROVE IInv'
<1>1. /\ mutex.op = "evicting" /\ reply["holder"] \in {"ok", "error"}
      /\ reply \in [Callers -> {"none", "waiting", "ok", "error"}]
      /\ byId \in [Ids -> Keys \cup {NoKey}]
      /\ UNCHANGED <<jobs, ready, demandJobs, poisoned, worker, index, uncertain>>
  BY DEF VictimRemoved, Answered, IInv, TypeOK
<1>2. CASE reply["holder"] = "ok"
  <2>1. Insert(mutex.key) /\ byId' \in [Ids -> Keys \cup {NoKey}]
    BY <1>1, <1>2 DEF VictimRemoved
  <2> QED BY <1>1, <2>1, InsertStep
<1>3. CASE reply["holder"] # "ok"
  <2>1. /\ mutex' = Free /\ UNCHANGED <<byId, commands>>
        /\ reply' = [reply EXCEPT !["holder"] = "none"]
    BY <1>3 DEF VictimRemoved, Release, Clear
  <2>2. /\ reply'["holder"] = "none"
        /\ reply' \in [Callers -> {"none", "waiting", "ok", "error"}]
    BY <1>1, <2>1 DEF Callers
  <2> QED BY <1>1, <2>1, <2>2, HolderGivesUp
<1> QED BY <1>2, <1>3

\* Queueing a job that is not queued under the id of its row: what admission
\* and retry share once the writer has answered.
LEMMA EnqueueStep ==
    ASSUME IInv, NEW k \in Keys, NEW i \in Ids, Enqueue(k, i),
           jobs[k].state \in {"none", "failed"}, Unfinished(i),
           \A l \in Keys : l # k => jobs[l].id # i,
           \A n \in DOMAIN commands :
              commands[n].id = i => /\ commands[n].kind # "remove"
                                    /\ commands[n].kind = "state" => commands[n].state # "ready",
           reply["holder"] \in {"ok", "error"}, mutex' = Free,
           reply' = [reply EXCEPT !["holder"] = "none"],
           byId' \in [Ids -> Keys \cup {NoKey}], uncertain' \subseteq Keys,
           UNCHANGED <<commands, poisoned, worker, index>>
    PROVE  IInv'
<1> USE DEF IInv
<1>1. /\ reply'["holder"] = "none"
      /\ reply' \in [Callers -> {"none", "waiting", "ok", "error"}]
  BY DEF TypeOK, Callers
<1>2. ready' \in Seq(Keys) /\ ReadyQueueExact'
  BY EnqueueReady
<1>3. /\ jobs'[k] = [id |-> i, state |-> "queued"]
      /\ \A l \in Keys \ {k} : jobs'[l] = jobs[l]
      /\ jobs' \in [Keys -> Job] /\ demandJobs' = demandJobs + 1
  BY DEF Enqueue, TypeOK, Job, States
<1>4. TypeOK'
  BY <1>1, <1>2, <1>3 DEF TypeOK, Free, Ops
<1>5. JobShape'
  BY <1>3, ConstantsAssumption DEF JobShape, ConstantsAssumption
<1>6. CrashLeavesFailed' /\ WorkerJob'
  BY <1>3 DEF CrashLeavesFailed, Unfinished, Succeeded, WorkerJob
<1>7. HolderJob' /\ InsertDurable'
  BY <1>1, <1>3 DEF HolderJob, InsertDurable, Free
<1>8. (\A n \in DOMAIN commands : HarmlessCommand(commands[n]))'
  <2>1. ASSUME NEW n \in DOMAIN commands PROVE HarmlessCommand(commands[n])'
    <3>1. HarmlessCommand(commands[n]) /\ commands[n] \in Command
      BY DEF Harmless, TypeOK
    <3>2. commands[n].caller # "holder" /\ mutex'.op = "free"
      BY <3>1 DEF HarmlessCommand, Free
    <3>3. commands[n].kind = "remove" =>
             \A l \in Keys : jobs'[l].id = commands[n].id => jobs'[l].state = "ready"
      BY <1>3, <3>1 DEF HarmlessCommand
    <3>4. commands[n].kind = "state" /\ commands[n].state = "ready" =>
             \A l \in Keys : jobs'[l].id = commands[n].id =>
                                 jobs'[l].state = "ready" \/ Succeeded(l)
      BY <1>3, <3>1 DEF HarmlessCommand
    <3> QED BY <3>1, <3>2, <3>3, <3>4 DEF HarmlessCommand, Succeeded
  <2> QED BY <2>1
<1>9. Harmless'
  BY <1>8 DEF Harmless
<1> QED BY <1>2, <1>4, <1>5, <1>6, <1>7, <1>9

\* An admitted job enters memory when its row is in the table.
LEMMA InsertedStep ==
    ASSUME IInv, Inserted PROVE IInv'
<1> USE DEF IInv
<1>1. /\ mutex.op = "inserting" /\ reply["holder"] \in {"ok", "error"}
      /\ mutex.key \in Keys /\ jobs[mutex.key].state = "none"
      /\ mutex.id \in Ids /\ \A l \in Keys : jobs[l].id # mutex.id
      /\ mutex' = Free /\ commands' = commands
      /\ reply' = [reply EXCEPT !["holder"] = "none"]
      /\ UNCHANGED <<poisoned, worker, index, uncertain>>
  BY DEF Inserted, HolderJob, Answered, Release, Clear
<1>2. /\ reply'["holder"] = "none"
      /\ reply' \in [Callers -> {"none", "waiting", "ok", "error"}]
  BY <1>1 DEF TypeOK, Callers
<1>3. CASE reply["holder"] = "ok"
  <2> PICK k, i : k = mutex.key /\ i = mutex.id
    OBVIOUS
  <2>1. Enqueue(k, i) /\ byId' \in [Ids -> Keys \cup {NoKey}]
    BY <1>1, <1>3 DEF Inserted, TypeOK
  <2>2. Unfinished(i)
    BY <1>1, <1>3 DEF InsertDurable
  <2>3. \A n \in DOMAIN commands : commands[n].id = i => commands[n].kind = "insert"
    BY <1>1 DEF Harmless, HarmlessCommand
  <2>4. uncertain' \subseteq Keys
    BY <1>1 DEF TypeOK
  <2> QED BY <1>1, <2>1, <2>2, <2>3, <2>4, EnqueueStep
<1>4. CASE reply["holder"] # "ok"
  <2>1. UNCHANGED <<jobs, byId, ready, demandJobs>>
    BY <1>4 DEF Inserted, memory
  <2> QED BY <1>1, <1>2, <2>1, HolderGivesUp
<1> QED BY <1>3, <1>4

\* The row of a failed job is unfinished, so it may be queued again under the
\* id it has.
LEMMA RetriedStep ==
    ASSUME IInv, Retried PROVE IInv'
<1> USE DEF IInv
<1>1. /\ mutex.op = "retrying" /\ reply["holder"] \in {"ok", "error"}
      /\ mutex.key \in Keys /\ jobs[mutex.key].state = "failed"
      /\ mutex' = Free /\ commands' = commands
      /\ reply' = [reply EXCEPT !["holder"] = "none"]
      /\ UNCHANGED <<byId, poisoned, worker, index>>
  BY DEF Retried, HolderJob, Answered, Release, Clear
<1>2. /\ reply'["holder"] = "none"
      /\ reply' \in [Callers -> {"none", "waiting", "ok", "error"}]
  BY <1>1 DEF TypeOK, Callers
<1>3. CASE reply["holder"] = "ok"
  <2> PICK k, i : k = mutex.key /\ i = jobs[mutex.key].id
    OBVIOUS
  <2>1. Enqueue(k, i) /\ uncertain' \subseteq Keys
    BY <1>1, <1>3 DEF Retried, TypeOK
  <2>2. i \in Ids /\ \A l \in Keys : l # k => jobs[l].id # i
    BY <1>1, ConstantsAssumption DEF JobShape, TypeOK, Job, ConstantsAssumption
  <2>3. ~Succeeded(k)
    BY <1>1 DEF Succeeded, WorkerJob
  <2>4. Unfinished(i)
    BY <1>1, <2>3 DEF CrashLeavesFailed
  <2>5. \A n \in DOMAIN commands :
           commands[n].id = i =>
              /\ commands[n].kind # "remove"
              /\ commands[n].kind = "state" => commands[n].state # "ready"
    BY <1>1, <2>3 DEF Harmless, HarmlessCommand
  <2> QED BY <1>1, <2>1, <2>2, <2>4, <2>5, EnqueueStep DEF TypeOK
<1>4. CASE reply["holder"] # "ok"
  <2>1. UNCHANGED <<jobs, ready, demandJobs, uncertain>>
    BY <1>4 DEF Retried
  <2> QED BY <1>1, <1>2, <2>1, HolderGivesUp
<1> QED BY <1>3, <1>4

-----------------------------------------------------------------------------
(* The writer, the deadline of a caller and the end of the process *)

\* What the writer does with the oldest command and its answer leaves the
\* others harmless.
LEMMA WriterTakes ==
    ASSUME IInv, commands # <<>>, commands' = Tail(commands),
           NEW r \in {"ok", "error"}, Answer(Head(commands).caller, r),
           UNCHANGED <<jobs, mutex, worker>>
    PROVE  /\ Harmless' /\ HolderJob'
           /\ commands' \in Seq(Command) /\ Len(commands') <= WriterCap
           /\ Head(commands) \in Command /\ HarmlessCommand(Head(commands))
           /\ reply' \in [Callers -> {"none", "waiting", "ok", "error"}]
           /\ reply'["holder"] = IF Head(commands).caller = "holder" THEN r
                                 ELSE reply["holder"]
<1> USE DEF IInv
<1> PICK m : m = Head(commands)
  OBVIOUS
<1>1. m \in Command /\ HarmlessCommand(m)
  <2>1. commands \in Seq(Command)
    BY DEF TypeOK
  <2>2. m \in Command /\ m = commands[1] /\ 1 \in DOMAIN commands
    BY <2>1
  <2> QED BY <2>2 DEF Harmless
<1>2. /\ reply' \in [Callers -> {"none", "waiting", "ok", "error"}]
      /\ reply'["holder"] = IF m.caller = "holder" THEN r ELSE reply["holder"]
  BY <1>1 DEF Answer, TypeOK, Callers, Command
<1>3. \A o \in Command :
         HarmlessCommand(o) /\ ~(o.caller = "holder" /\ Head(commands).caller = "holder")
             => HarmlessCommand(o)'
  BY <1>2 DEF HarmlessCommand, Succeeded
<1>4. /\ Harmless' /\ commands' \in Seq(Command) /\ Len(commands') <= WriterCap
  BY <1>3, TakeCommand
<1>5. HolderJob'
  BY <1>1, <1>2 DEF HolderJob, HarmlessCommand
<1> QED BY <1>1, <1>2, <1>4, <1>5

\* A harmless command leaves every unfinished job its row, and an insert that
\* is answered with success is in the table.
LEMMA WriterApplyStep ==
    ASSUME IInv, WriterApply PROVE IInv'
<1> USE DEF IInv
<1> PICK m : m = Head(commands)
  OBVIOUS
<1>1. /\ commands # <<>> /\ commands' = Tail(commands) /\ Accepts(m)
      /\ index' = [index EXCEPT ![m.id] = Applied(m)]
      /\ Answer(m.caller, "ok")
      /\ UNCHANGED <<jobs, byId, ready, demandJobs, mutex, poisoned, worker,
                     uncertain>>
  BY DEF WriterApply, memory
<1>2. /\ Harmless' /\ HolderJob'
      /\ commands' \in Seq(Command) /\ Len(commands') <= WriterCap
      /\ m \in Command /\ HarmlessCommand(m)
      /\ reply' \in [Callers -> {"none", "waiting", "ok", "error"}]
      /\ reply'["holder"] = IF m.caller = "holder" THEN "ok" ELSE reply["holder"]
  BY <1>1, WriterTakes
<1>3. m.id \in Ids /\ index'[m.id] = Applied(m)
      /\ \A i \in Ids \ {m.id} : index'[i] = index[i]
  BY <1>1, <1>2 DEF Command, TypeOK
<1>4. Applied(m) \in Row
  BY <1>2, <1>3 DEF Applied, Row, NoRow, Command, TypeOK
<1>5. TypeOK'
  BY <1>1, <1>2, <1>4 DEF TypeOK
<1>6. JobShape' /\ ReadyQueueExact' /\ WorkerJob'
  BY <1>1 DEF JobShape, ReadyQueueExact, Elements, Waiting, WorkerJob
<1>7. CrashLeavesFailed'
  <2>1. ASSUME NEW k \in Keys, ~Succeeded(k),
               jobs[k].state \in {"queued", "running", "failed"}
        PROVE  index'[jobs[k].id].state \in {"queued", "running", "failed"}
    <3>1. jobs[k].id \in Ids
      BY <2>1 DEF JobShape, TypeOK, Job
    <3>2. index[jobs[k].id].state \in {"queued", "running", "failed"}
      BY <2>1 DEF CrashLeavesFailed, Unfinished
    <3>3. CASE m.id # jobs[k].id
      BY <1>3, <3>1, <3>2, <3>3
    <3>4. CASE m.id = jobs[k].id
      <4>1. m.id \in Stored
        BY <1>3, <3>2, <3>4 DEF Stored
      <4>2. m.kind # "remove" /\ m.kind # "insert"
        BY <1>1, <1>2, <2>1, <3>4, <4>1 DEF HarmlessCommand, Accepts
      <4>3. m.kind = "state" => m.state \in {"queued", "running", "failed"}
        BY <1>2, <2>1, <3>4 DEF HarmlessCommand, States
      <4>4. m.kind \in {"state", "rekey"}
        BY <1>2, <4>2 DEF Command
      <4> QED BY <1>3, <3>2, <3>4, <4>1, <4>3, <4>4 DEF Applied
    <3> QED BY <3>3, <3>4
  <2> QED BY <1>1, <2>1 DEF CrashLeavesFailed, Unfinished, Succeeded
<1>8. InsertDurable'
  <2>1. SUFFICES ASSUME mutex.op = "inserting", reply'["holder"] = "ok"
                 PROVE  index'[mutex.id].state \in {"queued", "running", "failed"}
    BY <1>1 DEF InsertDurable, Unfinished
  <2>2. m.id = mutex.id => Applied(m).state = "queued"
    BY <1>2, <2>1 DEF HarmlessCommand, Applied
  <2>3. m.id # mutex.id => Unfinished(mutex.id)
    BY <1>2, <2>1 DEF HarmlessCommand, InsertDurable
  <2>4. mutex.id \in Ids
    BY <2>1 DEF HolderJob
  <2> QED BY <1>3, <2>2, <2>3, <2>4 DEF Unfinished
<1> QED BY <1>2, <1>5, <1>6, <1>7, <1>8

\* A rejected command is only answered.
LEMMA WriterRejectStep ==
    ASSUME IInv, WriterReject PROVE IInv'
<1> USE DEF IInv
<1>1. /\ commands # <<>> /\ commands' = Tail(commands)
      /\ Answer(Head(commands).caller, "error")
      /\ UNCHANGED <<jobs, byId, ready, demandJobs, mutex, poisoned, worker,
                     index, uncertain>>
  BY DEF WriterReject, memory
<1>2. /\ Harmless' /\ HolderJob'
      /\ commands' \in Seq(Command) /\ Len(commands') <= WriterCap
      /\ reply' \in [Callers -> {"none", "waiting", "ok", "error"}]
      /\ reply'["holder"] \in {"error", reply["holder"]}
  BY <1>1, WriterTakes
<1>3. TypeOK'
  BY <1>1, <1>2 DEF TypeOK
<1>4. JobShape' /\ ReadyQueueExact' /\ CrashLeavesFailed' /\ WorkerJob'
  BY <1>1 DEF JobShape, ReadyQueueExact, Elements, Waiting, CrashLeavesFailed,
              Unfinished, Succeeded, WorkerJob
<1>5. InsertDurable'
  BY <1>1, <1>2 DEF InsertDurable, Unfinished
<1> QED BY <1>2, <1>3, <1>4, <1>5

\* A caller that gives up is answered with an error.
LEMMA TimeoutStep ==
    ASSUME IInv, NEW c \in Callers, Timeout(c) PROVE IInv'
<1> USE DEF IInv
<1>1. Harmless' /\ commands' \in Seq(Command) /\ Len(commands') <= WriterCap
  BY DisownCommands
<1>2. /\ reply[c] = "waiting" /\ reply' = [reply EXCEPT ![c] = "error"]
      /\ UNCHANGED <<jobs, byId, ready, demandJobs, mutex, poisoned, worker,
                     index, uncertain>>
  BY DEF Timeout, memory
<1>3. /\ reply' \in [Callers -> {"none", "waiting", "ok", "error"}]
      /\ \/ reply'["holder"] = reply["holder"]
         \/ reply["holder"] = "waiting" /\ reply'["holder"] = "error"
  <2>1. reply \in [Callers -> {"none", "waiting", "ok", "error"}]
    BY DEF TypeOK
  <2>2. CASE c = "holder"
    BY <1>2, <2>1, <2>2 DEF Callers
  <2>3. CASE c = "worker"
    BY <1>2, <2>1, <2>3 DEF Callers
  <2> QED BY <2>2, <2>3 DEF Callers
<1>4. TypeOK'
  BY <1>1, <1>2, <1>3 DEF TypeOK
<1>5. JobShape' /\ ReadyQueueExact' /\ CrashLeavesFailed' /\ WorkerJob'
  BY <1>2 DEF JobShape, ReadyQueueExact, Elements, Waiting, CrashLeavesFailed,
              Unfinished, Succeeded, WorkerJob
<1>6. HolderJob' /\ InsertDurable'
  BY <1>2, <1>3 DEF HolderJob, InsertDurable, Unfinished
<1> QED BY <1>1, <1>4, <1>5, <1>6

\* A restart fails the rows of unfinished jobs and finds in memory what the
\* table has, each job under the key and the id of its row.
LEMMA RestartJobs ==
    ASSUME IInv, Restart
    PROVE  /\ \A i \in Ids :
                 /\ index'[i] = Recovered(index[i])
                 /\ index'[i] \in Row /\ index'[i].key = index[i].key
                 /\ index'[i].state \in {"ready", "failed", "none"}
                 /\ index[i].state # "none" <=> index'[i].state # "none"
           /\ \A k \in Keys :
                 /\ jobs'[k] \in Job /\ jobs'[k].state \in {"ready", "failed", "none"}
                 /\ jobs'[k].state = "none" <=> jobs'[k].id = NoId
                 /\ jobs'[k].state # "none" =>
                       /\ jobs'[k].id \in Ids /\ index[jobs'[k].id].key = k
                       /\ jobs'[k].state = index'[jobs'[k].id].state
                 /\ jobs'[k].state = "none" => \A i \in Stored : index[i].key # k
<1> USE DEF IInv
<1>1. index' = [i \in Ids |-> Recovered(index[i])]
  BY DEF Restart
<1>2. \A i \in Ids :
         /\ index'[i] \in Row /\ index'[i].key = index[i].key
         /\ index'[i].state \in {"ready", "failed", "none"}
         /\ index[i].state # "none" <=> index'[i].state # "none"
  BY <1>1 DEF Recovered, TypeOK, Row, Pending, States
<1>3. ASSUME NEW k \in Keys
      PROVE  \/ jobs'[k] = NoJob /\ \A i \in Stored : index[i].key # k
             \/ \E i \in Stored :
                   index[i].key = k /\ jobs'[k] = [id |-> i, state |-> index'[i].state]
  <2>1. CASE \E i \in Stored : index[i].key = k
    <3>1. PICK i \in Stored : /\ index[i].key = k
                             /\ jobs'[k] = [id |-> i, state |-> Recovered(index[i]).state]
      BY <2>1 DEF Restart
    <3>2. Recovered(index[i]) = index'[i]
      BY <1>1 DEF Stored
    <3> QED BY <3>1, <3>2
  <2>2. CASE ~ \E i \in Stored : index[i].key = k
    BY <2>2 DEF Restart
  <2> QED BY <2>1, <2>2
<1>4. \A k \in Keys :
         /\ jobs'[k] \in Job /\ jobs'[k].state \in {"ready", "failed", "none"}
         /\ jobs'[k].state = "none" <=> jobs'[k].id = NoId
         /\ jobs'[k].state # "none" =>
               /\ jobs'[k].id \in Ids /\ index[jobs'[k].id].key = k
               /\ jobs'[k].state = index'[jobs'[k].id].state
         /\ jobs'[k].state = "none" => \A i \in Stored : index[i].key # k
  <2>1. TAKE k \in Keys
  <2>2. CASE jobs'[k] = NoJob /\ \A i \in Stored : index[i].key # k
    BY <2>2 DEF NoJob, Job
  <2>3. ASSUME NEW i \in Stored, index[i].key = k,
               jobs'[k] = [id |-> i, state |-> index'[i].state]
        PROVE  /\ jobs'[k].id = i /\ i \in Ids /\ i # NoId
               /\ jobs'[k].state = index'[i].state /\ index'[i].state # "none"
               /\ jobs'[k] \in Job
    BY <1>2, <2>3, ConstantsAssumption DEF Stored, Job, States, ConstantsAssumption
  <2>4. CASE \E i \in Stored :
               index[i].key = k /\ jobs'[k] = [id |-> i, state |-> index'[i].state]
    BY <1>2, <2>3, <2>4
  <2> QED BY <1>3, <2>2, <2>4 DEF NoJob
<1> QED BY <1>1, <1>2, <1>4

\* Recovery reads memory from the table, in which nothing is left pending.
LEMMA RestartStep ==
    ASSUME IInv, Restart PROVE IInv'
<1> USE DEF IInv
<1>1. /\ index' = [i \in Ids |-> Recovered(index[i])]
      /\ byId' = [i \in Ids |-> IF i \in Stored THEN index[i].key ELSE NoKey]
      /\ ready' = <<>> /\ demandJobs' = 0 /\ mutex' = Free /\ poisoned' = FALSE
      /\ worker' = Idle /\ commands' = <<>>
      /\ reply' = [c \in Callers |-> "none"] /\ uncertain' = uncertain
  BY DEF Restart
<1>2. \A i \in Ids : index'[i] \in Row
  BY RestartJobs
<1>4. \A k \in Keys :
         /\ jobs'[k] \in Job /\ jobs'[k].state \in {"ready", "failed", "none"}
         /\ jobs'[k].state = "none" <=> jobs'[k].id = NoId
         /\ jobs'[k].state # "none" =>
               /\ jobs'[k].id \in Ids /\ index[jobs'[k].id].key = k
               /\ jobs'[k].state = index'[jobs'[k].id].state
  BY RestartJobs
<1>5. TypeOK'
  <2>1. jobs' \in [Keys -> Job] /\ index' \in [Ids -> Row]
    BY <1>1, <1>2, <1>4 DEF Restart
  <2>2. byId' \in [Ids -> Keys \cup {NoKey}]
    BY <1>1 DEF TypeOK, Row
  <2>3. commands' \in Seq(Command) /\ Len(commands') <= WriterCap /\ ready' \in Seq(Keys)
    BY <1>1, ConstantsAssumption DEF ConstantsAssumption
  <2>4. /\ mutex' \in [op : Ops, key : Keys \cup {NoKey}, id : Ids \cup {NoId}]
        /\ worker' \in [pc : Stages, key : Keys \cup {NoKey},
                        id : Ids \cup {NoId}, ok : BOOLEAN]
    BY <1>1 DEF Free, Idle, Ops, Stages
  <2>5. reply' \in [Callers -> {"none", "waiting", "ok", "error"}]
    BY <1>1
  <2>6. demandJobs' \in Int /\ uncertain' \subseteq Keys
    BY <1>1 DEF TypeOK
  <2>7. poisoned' \in BOOLEAN
    BY <1>1, Zenon
  <2> QED BY <2>1, <2>2, <2>3, <2>4, <2>5, <2>6, <2>7 DEF TypeOK
<1>6. JobShape' /\ CrashLeavesFailed'
  BY <1>4 DEF JobShape, CrashLeavesFailed, Unfinished
<1>7. ReadyQueueExact'
  BY <1>1, <1>4 DEF ReadyQueueExact, Elements, Waiting
<1>8. WorkerJob' /\ HolderJob' /\ InsertDurable' /\ Harmless'
  BY <1>1 DEF WorkerJob, HolderJob, InsertDurable, Harmless, Free, Idle, Callers
<1> QED BY <1>5, <1>6, <1>7, <1>8

-----------------------------------------------------------------------------
(* The theorems *)

LEMMA InitIInv == Init => IInv
<1> SUFFICES ASSUME Init PROVE IInv
  OBVIOUS
<1>1. TypeOK
  <2>1. commands \in Seq(Command) /\ Len(commands) <= WriterCap /\ ready \in Seq(Keys)
    BY ConstantsAssumption DEF Init, ConstantsAssumption
  <2>2. jobs \in [Keys -> Job] /\ index \in [Ids -> Row]
    BY DEF Init, Job, NoJob, Row, NoRow
  <2>3. /\ mutex \in [op : Ops, key : Keys \cup {NoKey}, id : Ids \cup {NoId}]
        /\ worker \in [pc : Stages, key : Keys \cup {NoKey},
                       id : Ids \cup {NoId}, ok : BOOLEAN]
    BY DEF Init, Free, Idle, Ops, Stages
  <2>4. /\ byId \in [Ids -> Keys \cup {NoKey}]
        /\ reply \in [Callers -> {"none", "waiting", "ok", "error"}]
        /\ demandJobs \in Int /\ uncertain \subseteq Keys
    BY DEF Init
  <2>5. poisoned \in BOOLEAN
    BY Zenon DEF Init
  <2> QED BY <2>1, <2>2, <2>3, <2>4, <2>5 DEF TypeOK
<1>2. JobShape
  BY DEF Init, JobShape, NoJob
<1>3. ReadyQueueExact /\ CrashLeavesFailed
  BY DEF Init, ReadyQueueExact, CrashLeavesFailed, Elements, Waiting, NoJob
<1>4. WorkerJob /\ HolderJob /\ InsertDurable /\ Harmless
  BY DEF Init, WorkerJob, HolderJob, InsertDurable, Harmless, Free, Idle, Callers
<1> QED BY <1>1, <1>2, <1>3, <1>4 DEF IInv

LEMMA StepIInv == IInv /\ [Next]_vars => IInv'
<1> SUFFICES ASSUME IInv, [Next]_vars PROVE IInv'
  OBVIOUS
<1>1. ASSUME NEW k \in Keys, BeginAdmit(k) PROVE IInv'
  BY <1>1, BeginAdmitStep
<1>2. ASSUME NEW i \in Ids, BeginRetry(i) PROVE IInv'
  BY <1>2, BeginRetryStep
<1>3. CASE HolderStep
  BY <1>3, StaleRemovedStep, CheckCapacityStep, VictimRemovedStep, InsertedStep,
     RetriedStep, RefinedStep DEF HolderStep
<1>4. CASE WorkerAlone
  BY <1>4, StartSyncStep, WorkerMoves, PersistOutcomeStep DEF WorkerAlone
<1>5. CASE WorkerLocking
  BY <1>5, TakeJobStep, PersistRunningStep, EndJobStep, BeginRefineStep
     DEF WorkerLocking
<1>6. CASE WriterStep
  BY <1>6, WriterApplyStep, WriterRejectStep DEF WriterStep
<1>7. ASSUME NEW c \in Callers, Timeout(c) PROVE IInv'
  BY <1>7, TimeoutStep
<1>8. CASE Restart
  BY <1>8, RestartStep
<1>9. CASE UNCHANGED vars
  <2>1. UNCHANGED <<jobs, byId, ready, demandJobs, mutex, poisoned, worker,
                    commands, reply, index, uncertain>>
    BY <1>9 DEF vars
  <2>2. TypeOK' /\ JobShape' /\ ReadyQueueExact' /\ WorkerJob' /\ HolderJob'
    BY <2>1 DEF IInv, TypeOK, JobShape, ReadyQueueExact, WorkerJob, HolderJob,
                Elements, Waiting
  <2>3. Harmless' /\ InsertDurable' /\ CrashLeavesFailed'
    BY <2>1 DEF IInv, Harmless, HarmlessCommand, InsertDurable, CrashLeavesFailed,
                Unfinished, Succeeded
  <2> QED BY <2>2, <2>3 DEF IInv
<1> QED BY <1>1, <1>2, <1>3, <1>4, <1>5, <1>6, <1>7, <1>8, <1>9 DEF Next

\* For every instance, the invariant that makes JobCoordinator crash-safe
\* holds in every reachable state.
THEOREM InductiveInvariant == Spec => []IInv
  BY InitIInv, StepIInv, PTL DEF Spec

\* For every instance, jobs, queues and table keep their types and the
\* writer's queue its bound.
THEOREM TypeCorrect == Spec => []TypeOK
<1>1. IInv => TypeOK
  BY DEF IInv
<1> QED BY <1>1, InductiveInvariant, PTL

\* For every instance, the ready queue of JobCoordinator lists each queued
\* job exactly once, and no other.
THEOREM ReadyQueueCorrect == Spec => []ReadyQueueExact
<1>1. IInv => ReadyQueueExact
  BY DEF IInv
<1> QED BY <1>1, InductiveInvariant, PTL

\* For every instance, a crash at any step finds every unfinished or failed
\* job of memory unfinished in the index_jobs table, so that recovery makes
\* it failed.
THEOREM CrashSafe == Spec => []CrashLeavesFailed
<1>1. IInv => CrashLeavesFailed
  BY DEF IInv
<1> QED BY <1>1, InductiveInvariant, PTL

-----------------------------------------------------------------------------
(* The counter of unfinished jobs *)

Unended == {k \in Keys : jobs[k].state \in Pending}
CountInv == IsFiniteSet(Unended) /\ DemandCountExact

\* Queueing a job that is not pending counts one more.
LEMMA EnqueueCount ==
    ASSUME TypeOK, CountInv, NEW k \in Keys, NEW i, Enqueue(k, i),
           jobs[k].state \notin Pending
    PROVE  CountInv'
<1>1. /\ jobs \in [Keys -> Job] /\ demandJobs' = demandJobs + 1
      /\ jobs' = [jobs EXCEPT ![k] = [id |-> i, state |-> "queued"]]
  BY DEF TypeOK, Enqueue
<1>2. Unended' = Unended \cup {k} /\ k \notin Unended
  BY <1>1 DEF Unended, Pending
<1>3. IsFiniteSet(Unended') /\ Cardinality(Unended') = Cardinality(Unended) + 1
  BY <1>2, FS_AddElement DEF CountInv
<1> QED BY <1>1, <1>3 DEF CountInv, DemandCountExact, Unended

\* The end of a pending job counts one less.
LEMMA EndCount ==
    ASSUME TypeOK, CountInv, NEW k \in Keys, jobs[k].state \in Pending,
           jobs'[k].state \notin Pending,
           \A l \in Keys \ {k} : jobs'[l].state = jobs[l].state,
           demandJobs' = demandJobs - 1
    PROVE  CountInv'
<1>1. Unended' = Unended \ {k} /\ k \in Unended
  BY DEF Unended
<1>2. /\ IsFiniteSet(Unended') /\ Cardinality(Unended') = Cardinality(Unended) - 1
      /\ Cardinality(Unended) \in Nat
  BY <1>1, FS_RemoveElement, FS_CardinalityType DEF CountInv
<1> QED BY <1>2 DEF CountInv, DemandCountExact, Unended

\* No other step changes which jobs are pending and what is counted, except
\* that a refined key stands for the one it replaces.
LEMMA SameCount ==
    ASSUME CountInv, demandJobs' = demandJobs,
           \A k \in Keys : jobs'[k].state \in Pending <=> jobs[k].state \in Pending
    PROVE  CountInv'
<1>1. Unended' = Unended
  BY DEF Unended
<1> QED BY <1>1 DEF CountInv, DemandCountExact, Unended

LEMMA RefinedCount ==
    ASSUME IInv, CountInv, Refined PROVE CountInv'
<1>1. CASE reply["holder"] = "ok"
  <2>1. /\ jobs' = Rekey /\ demandJobs' = demandJobs /\ jobs \in [Keys -> Job]
        /\ mutex.key \in Keys /\ jobs[mutex.key].state = "none"
        /\ worker.key \in Keys /\ jobs[worker.key].state = "running"
    BY <1>1 DEF Refined, IInv, HolderJob, WorkerJob, TypeOK
  <2>2. /\ Unended' = (Unended \ {worker.key}) \cup {mutex.key}
        /\ worker.key \in Unended /\ mutex.key \notin Unended \ {worker.key}
    BY <2>1 DEF Unended, Rekey, Pending, NoJob
  <2>3. /\ IsFiniteSet(Unended \ {worker.key})
        /\ Cardinality(Unended \ {worker.key}) = Cardinality(Unended) - 1
        /\ Cardinality(Unended) \in Nat
    BY <2>2, FS_RemoveElement, FS_CardinalityType DEF CountInv
  <2>4. /\ IsFiniteSet(Unended')
        /\ Cardinality(Unended') = Cardinality(Unended \ {worker.key}) + 1
    BY <2>2, <2>3, FS_AddElement
  <2> QED BY <2>1, <2>3, <2>4 DEF CountInv, DemandCountExact, Unended
<1>2. CASE reply["holder"] # "ok"
  BY <1>2, SameCount DEF Refined
<1> QED BY <1>1, <1>2

LEMMA StepCount ==
    ASSUME IInv, CountInv, [Next]_vars PROVE CountInv'
<1> USE DEF IInv
<1>1. ASSUME NEW k \in Keys, BeginAdmit(k) PROVE CountInv'
  BY <1>1, SameCount DEF BeginAdmit, memory
<1>2. ASSUME NEW i \in Ids, BeginRetry(i) PROVE CountInv'
  BY <1>2, SameCount DEF BeginRetry, memory
<1>3. CASE HolderStep
  <2>1. CASE StaleRemoved
    <3>1. /\ \/ jobs' = [jobs EXCEPT ![mutex.key] = NoJob]
             \/ jobs' = jobs
          /\ jobs[mutex.key].state = "ready" /\ demandJobs' = demandJobs
      BY <2>1 DEF StaleRemoved, HolderJob
    <3>2. \A k \in Keys : jobs'[k].state \in Pending <=> jobs[k].state \in Pending
      BY <3>1 DEF TypeOK, NoJob, Pending
    <3> QED BY <3>1, <3>2, SameCount
  <2>2. CASE CheckCapacity
    <3>1. /\ demandJobs' = demandJobs
          /\ \/ jobs' = jobs
             \/ \E v \in Keys :
                   jobs[v].state = "ready" /\ jobs' = [jobs EXCEPT ![v] = NoJob]
      BY <2>2 DEF CheckCapacity, Evictable
    <3>2. \A k \in Keys : jobs'[k].state \in Pending <=> jobs[k].state \in Pending
      BY <3>1 DEF TypeOK, NoJob, Pending
    <3> QED BY <3>1, <3>2, SameCount
  <2>3. CASE VictimRemoved
    BY <2>3, SameCount DEF VictimRemoved
  <2>4. CASE Inserted
    <3>1. mutex.key \in Keys /\ jobs[mutex.key].state \notin Pending
      BY <2>4 DEF Inserted, HolderJob, Pending
    <3>2. CASE reply["holder"] = "ok"
      BY <2>4, <3>1, <3>2, EnqueueCount DEF Inserted
    <3>3. CASE reply["holder"] # "ok"
      BY <2>4, <3>3, SameCount DEF Inserted, memory
    <3> QED BY <3>2, <3>3
  <2>5. CASE Retried
    <3>1. mutex.key \in Keys /\ jobs[mutex.key].state \notin Pending
      BY <2>5 DEF Retried, HolderJob, Pending
    <3>2. CASE reply["holder"] = "ok"
      BY <2>5, <3>1, <3>2, EnqueueCount DEF Retried
    <3>3. CASE reply["holder"] # "ok"
      BY <2>5, <3>3, SameCount DEF Retried
    <3> QED BY <3>2, <3>3
  <2>6. CASE Refined
    BY <2>6, RefinedCount
  <2> QED BY <1>3, <2>1, <2>2, <2>3, <2>4, <2>5, <2>6 DEF HolderStep
<1>4. CASE WorkerAlone
  BY <1>4, SameCount DEF WorkerAlone, StartSync, SyncSucceeds, SyncFails, LeaveKey,
                         PersistOutcome, memory
<1>5. CASE WorkerLocking
  <2>1. CASE TakeJob
    <3>1. /\ Head(ready) \in Keys /\ jobs[Head(ready)].state = "queued"
          /\ jobs' = [jobs EXCEPT ![Head(ready)].state = "running"]
      BY <2>1, TakeReady DEF TakeJob
    <3>2. \A k \in Keys : jobs'[k].state \in Pending <=> jobs[k].state \in Pending
      BY <3>1 DEF TypeOK, Pending, Job
    <3>3. demandJobs' = demandJobs
      BY <2>1 DEF TakeJob
    <3> QED BY <3>2, <3>3, SameCount
  <2>2. CASE PersistRunning \/ \E r \in Keys : BeginRefine(r)
    BY <2>2, SameCount DEF PersistRunning, BeginRefine, memory
  <2>3. CASE RefuseSync \/ FinishJob
    <3>1. worker.key \in Keys /\ jobs[worker.key].state = "running" /\ jobs \in [Keys -> Job]
      BY <2>3 DEF RefuseSync, FinishJob, WorkerJob, TypeOK
    <3>2. /\ jobs'[worker.key].state \in {"ready", "failed"}
          /\ \A l \in Keys \ {worker.key} : jobs'[l].state = jobs[l].state
          /\ demandJobs' = demandJobs - 1
      BY <2>3, <3>1 DEF RefuseSync, FinishJob, Outcome, Job
    <3> QED BY <3>1, <3>2, EndCount DEF Pending
  <2> QED BY <1>5, <2>1, <2>2, <2>3 DEF WorkerLocking
<1>6. CASE WriterStep
  BY <1>6, SameCount DEF WriterStep, WriterApply, WriterReject, memory
<1>7. ASSUME NEW c \in Callers, Timeout(c) PROVE CountInv'
  BY <1>7, SameCount DEF Timeout, memory
<1>8. CASE Restart
  <2>1. demandJobs' = 0
    BY <1>8 DEF Restart
  <2>3. \A k \in Keys : jobs'[k].state \notin Pending
    BY <1>8, RestartJobs DEF Pending
  <2>4. Unended' = {}
    BY <2>3 DEF Unended
  <2> QED BY <2>1, <2>4, FS_EmptySet DEF CountInv, DemandCountExact, Unended
<1>9. CASE UNCHANGED vars
  BY <1>9, SameCount DEF vars
<1> QED BY <1>1, <1>2, <1>3, <1>4, <1>5, <1>6, <1>7, <1>8, <1>9 DEF Next

\* For every instance, demand_jobs counts the queued and running jobs, on every
\* path through the worker and across restarts.
THEOREM DemandCountCorrect == Spec => []DemandCountExact
<1>1. Init => CountInv
  <2> SUFFICES ASSUME Init PROVE CountInv
    OBVIOUS
  <2>1. Unended = {} /\ demandJobs = 0
    BY DEF Init, Unended, NoJob, Pending
  <2> QED BY <2>1, FS_EmptySet DEF CountInv, DemandCountExact, Unended
<1>2. IInv /\ CountInv /\ [Next]_vars => CountInv'
  BY StepCount
<1>3. CountInv => DemandCountExact
  BY DEF CountInv
<1> QED BY <1>1, <1>2, <1>3, InductiveInvariant, PTL DEF Spec

-----------------------------------------------------------------------------
(* The ledger.  On top of IInv it needs LedgerInv of IndexJobs: only the   *)
(* worker's job runs, the job that just succeeded has its row, and rows    *)
(* have keys of their own, so that a restart finds each job under the id   *)
(* it had.                                                                 *)

(* LedgerInv is kept *)

\* The worker takes a job when it has none, and gives it up when it ends.
LEMMA OnlyWorkerRunsStep ==
    ASSUME IInv, LedgerInv, [Next]_vars PROVE OnlyWorkerRuns'
<1> USE DEF IInv, LedgerInv
<1>1. jobs \in [Keys -> Job] /\ worker \in [pc : Stages, key : Keys \cup {NoKey},
                                             id : Ids \cup {NoId}, ok : BOOLEAN]
  BY DEF TypeOK
<1>2. ASSUME worker'.pc # "idle" /\ worker'.key = worker.key,
             \A k \in Keys : jobs'[k].state = "running" => jobs[k].state = "running"
      PROVE  OnlyWorkerRuns'
  BY <1>2 DEF OnlyWorkerRuns
<1>3. ASSUME worker' = worker,
             \A k \in Keys : jobs'[k].state = "running" => jobs[k].state = "running"
      PROVE  OnlyWorkerRuns'
  BY <1>3 DEF OnlyWorkerRuns
<1>4. ASSUME NEW k \in Keys, BeginAdmit(k) PROVE OnlyWorkerRuns'
  BY <1>3, <1>4 DEF BeginAdmit, memory
<1>5. ASSUME NEW i \in Ids, BeginRetry(i) PROVE OnlyWorkerRuns'
  BY <1>3, <1>5 DEF BeginRetry, memory
<1>6. CASE HolderStep
  <2>1. CASE StaleRemoved \/ CheckCapacity \/ VictimRemoved
    <3>1. /\ worker' = worker
          /\ \/ jobs' = jobs
             \/ \E v \in Keys : jobs' = [jobs EXCEPT ![v] = NoJob]
      <4>1. CASE StaleRemoved
        BY <4>1 DEF StaleRemoved, HolderJob
      <4>2. CASE CheckCapacity
        <5>1. worker' = worker
          BY <4>2 DEF CheckCapacity
        <5>2. jobs' = jobs \/ \E v \in Keys : jobs' = [jobs EXCEPT ![v] = NoJob]
          BY <4>2 DEF CheckCapacity, Insert, Submit
        <5> QED BY <5>1, <5>2
      <4>3. CASE VictimRemoved
        BY <4>3 DEF VictimRemoved
      <4> QED BY <2>1, <4>1, <4>2, <4>3
    <3> QED BY <1>1, <1>3, <3>1 DEF NoJob
  <2>2. CASE Inserted \/ Retried
    <3>1. worker' = worker /\ (jobs' = jobs \/ \E i : Enqueue(mutex.key, i))
      <4>1. CASE Inserted
        BY <4>1 DEF Inserted, memory
      <4>2. CASE Retried
        BY <4>2 DEF Retried
      <4> QED BY <2>2, <4>1, <4>2
    <3>2. ASSUME NEW i, Enqueue(mutex.key, i), NEW k \in Keys, jobs'[k].state = "running"
          PROVE  jobs[k].state = "running"
      <4>1. jobs' = [jobs EXCEPT ![mutex.key] = [id |-> i, state |-> "queued"]]
        BY <3>2 DEF Enqueue
      <4> QED BY <1>1, <3>2, <4>1
    <3> QED BY <1>3, <3>1, <3>2
  <2>3. CASE Refined /\ reply["holder"] = "ok"
    <3>1. /\ jobs' = [jobs EXCEPT ![mutex.key] = jobs[worker.key], ![worker.key] = NoJob]
          /\ worker'.pc = "closing" /\ worker'.key = mutex.key
          /\ worker.pc # "idle"
      BY <1>1, <2>3 DEF Refined, Rekey, HolderJob
    <3> QED BY <1>1, <3>1 DEF OnlyWorkerRuns, NoJob
  <2>4. CASE Refined /\ reply["holder"] # "ok"
    BY <1>1, <1>2, <2>4 DEF Refined
  <2> QED BY <1>6, <2>1, <2>2, <2>3, <2>4 DEF HolderStep
<1>7. CASE WorkerAlone
  <2>1. jobs' = jobs /\ worker'.pc # "idle" /\ worker'.key = worker.key
    BY <1>1, <1>7 DEF WorkerAlone, StartSync, SyncSucceeds, SyncFails, LeaveKey,
                      PersistOutcome, memory
  <2> QED BY <1>2, <2>1
<1>8. CASE WorkerLocking
  <2>1. CASE TakeJob
    <3>1. /\ worker.pc = "idle" /\ worker'.pc = "taken" /\ worker'.key = Head(ready)
          /\ jobs' = [jobs EXCEPT ![Head(ready)].state = "running"]
      BY <2>1 DEF TakeJob, Idle
    <3> QED BY <1>1, <3>1 DEF OnlyWorkerRuns
  <2>2. CASE PersistRunning \/ \E r \in Keys : BeginRefine(r)
    <3>1. /\ jobs' = jobs
          /\ worker' = worker \/ (worker'.pc # "idle" /\ worker'.key = worker.key)
      BY <1>1, <2>2 DEF PersistRunning, BeginRefine, memory
    <3> QED BY <1>2, <1>3, <3>1
  <2>3. CASE RefuseSync \/ FinishJob
    <3>1. jobs'[worker.key].state # "running"
      BY <1>1, <2>3 DEF RefuseSync, FinishJob, Outcome, WorkerJob, Job
    <3>2. \A k \in Keys \ {worker.key} : jobs'[k] = jobs[k]
      BY <1>1, <2>3 DEF RefuseSync, FinishJob
    <3> QED BY <3>1, <3>2 DEF OnlyWorkerRuns
  <2> QED BY <1>8, <2>1, <2>2, <2>3 DEF WorkerLocking
<1>9. CASE WriterStep
  BY <1>3, <1>9 DEF WriterStep, WriterApply, WriterReject, memory
<1>10. ASSUME NEW c \in Callers, Timeout(c) PROVE OnlyWorkerRuns'
  BY <1>3, <1>10 DEF Timeout, memory
<1>11. CASE Restart
  <2>1. \A k \in Keys : jobs'[k].state # "running"
    BY <1>11, RestartJobs
  <2> QED BY <2>1 DEF OnlyWorkerRuns
<1>12. CASE UNCHANGED vars
  BY <1>3, <1>12 DEF vars
<1> QED BY <1>4, <1>5, <1>6, <1>7, <1>8, <1>9, <1>10, <1>11, <1>12 DEF Next

\* Where the table and the worker's last stage come from.
LEMMA IndexChanges ==
    ASSUME [Next]_vars PROVE index' = index \/ WriterApply \/ Restart
<1>1. ASSUME NEW k \in Keys, BeginAdmit(k) PROVE index' = index
  BY <1>1 DEF BeginAdmit
<1>2. ASSUME NEW i \in Ids, BeginRetry(i) PROVE index' = index
  BY <1>2 DEF BeginRetry
<1>3. CASE HolderStep
  BY <1>3 DEF HolderStep, StaleRemoved, CheckCapacity, VictimRemoved, Inserted,
              Retried, Refined
<1>4. CASE WorkerAlone
  BY <1>4 DEF WorkerAlone, StartSync, SyncSucceeds, SyncFails, LeaveKey, PersistOutcome
<1>5. CASE WorkerLocking
  BY <1>5 DEF WorkerLocking, TakeJob, PersistRunning, RefuseSync, BeginRefine, FinishJob
<1>6. CASE WriterStep
  BY <1>6 DEF WriterStep, WriterReject
<1>7. ASSUME NEW c \in Callers, Timeout(c) PROVE index' = index
  BY <1>7 DEF Timeout
<1>8. CASE UNCHANGED vars
  BY <1>8 DEF vars
<1> QED BY <1>1, <1>2, <1>3, <1>4, <1>5, <1>6, <1>7, <1>8 DEF Next

LEMMA WorkerFinishes ==
    ASSUME [Next]_vars, TypeOK, worker'.pc = "finishing"
    PROVE  worker' = worker \/ PersistOutcome
<1>1. ASSUME NEW k \in Keys, BeginAdmit(k) PROVE worker' = worker
  BY <1>1 DEF BeginAdmit
<1>2. ASSUME NEW i \in Ids, BeginRetry(i) PROVE worker' = worker
  BY <1>2 DEF BeginRetry
<1>3. CASE HolderStep
  <2>1. CASE Refined
    BY <2>1 DEF Refined, TypeOK
  <2> QED BY <1>3, <2>1 DEF HolderStep, StaleRemoved, CheckCapacity, VictimRemoved,
                            Inserted, Retried
<1>4. CASE WorkerAlone
  BY <1>4 DEF WorkerAlone, StartSync, SyncSucceeds, SyncFails, LeaveKey, TypeOK
<1>5. CASE WorkerLocking
  <2>1. CASE TakeJob \/ RefuseSync \/ FinishJob
    <3>1. CASE TakeJob
      BY <3>1 DEF TakeJob, Idle
    <3>2. CASE RefuseSync \/ FinishJob
      BY <3>2 DEF RefuseSync, FinishJob, Idle
    <3> QED BY <2>1, <3>1, <3>2
  <2>2. CASE PersistRunning
    <3>1. worker' = [worker EXCEPT !.pc = "starting", !.id = jobs[worker.key].id]
      BY <2>2 DEF PersistRunning
    <3> QED BY <3>1 DEF TypeOK
  <2>3. ASSUME NEW r \in Keys, BeginRefine(r) PROVE worker' = worker
    <3>1. worker' = [worker EXCEPT !.pc = "closing"] \/ worker' = worker
      BY <2>3 DEF BeginRefine
    <3> QED BY <3>1 DEF TypeOK
  <2> QED BY <1>5, <2>1, <2>2, <2>3 DEF WorkerLocking
<1>6. CASE WriterStep
  BY <1>6 DEF WriterStep, WriterApply, WriterReject
<1>7. ASSUME NEW c \in Callers, Timeout(c) PROVE worker' = worker
  BY <1>7 DEF Timeout
<1>8. CASE Restart
  BY <1>8 DEF Restart, Idle
<1>9. CASE UNCHANGED vars
  BY <1>9 DEF vars
<1> QED BY <1>1, <1>2, <1>3, <1>4, <1>5, <1>6, <1>7, <1>8, <1>9 DEF Next

\* The command the writer applies, and what it leaves of the rows.
LEMMA WriterRows ==
    ASSUME IInv, KeysSent, WriterApply
    PROVE  \E m \in Command :
              /\ Accepts(m) /\ HarmlessCommand(m)
              /\ m.kind \in {"insert", "rekey"} => m.key \in Keys
              /\ m.id \in Ids /\ index'[m.id] = Applied(m)
              /\ \A i \in Ids \ {m.id} : index'[i] = index[i]
<1> USE DEF IInv
<1> DEFINE m == Head(commands)
<1>1. /\ commands # <<>> /\ commands \in Seq(Command) /\ Accepts(m)
      /\ index' = [index EXCEPT ![m.id] = Applied(m)] /\ index \in [Ids -> Row]
  BY DEF WriterApply, TypeOK
<1>2. m \in Command /\ m = commands[1] /\ 1 \in DOMAIN commands
  BY <1>1
<1>3. HarmlessCommand(m) /\ (m.kind \in {"insert", "rekey"} => m.key \in Keys)
  BY <1>2 DEF Harmless, KeysSent
<1>4. m.id \in Ids
  BY <1>2 DEF Command
<1>5. index'[m.id] = Applied(m) /\ \A i \in Ids \ {m.id} : index'[i] = index[i]
  BY <1>1, <1>4
<1> QED BY <1>1, <1>2, <1>3, <1>4, <1>5

\* No command removes the row of the job that just succeeded.
LEMMA SuccessStoredStep ==
    ASSUME IInv, LedgerInv, [Next]_vars PROVE SuccessStored'
<1> USE DEF IInv, LedgerInv
<1>1. WorkerJob'
  BY StepIInv
<1>2. SUFFICES ASSUME NEW k \in Keys, jobs'[k].state = "running", Succeeded(k)'
               PROVE  jobs'[k].id \in Stored'
  BY DEF SuccessStored
<1>3. worker'.key = k /\ worker'.ok /\ worker'.pc = "finishing"
  BY <1>2 DEF Succeeded
<1>4. CASE PersistOutcome
  <2>1. jobs' = jobs /\ index' = index /\ worker.pc = "closing"
    BY <1>4 DEF PersistOutcome, memory
  <2>2. jobs[k].id \in Ids /\ Unfinished(jobs[k].id)
    BY <1>2, <2>1 DEF CrashLeavesFailed, Succeeded, JobShape, TypeOK, Job
  <2> QED BY <2>1, <2>2 DEF Unfinished, Stored
<1>5. CASE worker' = worker
  <2>1. /\ jobs[k].state = "running" /\ Succeeded(k)
        /\ jobs[k].id = worker.id /\ jobs'[k].id = worker.id
    BY <1>1, <1>3, <1>5 DEF WorkerJob, Succeeded
  <2>2. worker.id \in Stored /\ worker.id \in Ids
    BY <2>1 DEF SuccessStored, Stored
  <2>3. CASE index' = index
    BY <2>1, <2>2, <2>3 DEF Stored
  <2>4. CASE WriterApply
    <3>1. PICK m \in Command :
              /\ Accepts(m) /\ HarmlessCommand(m)
              /\ m.id \in Ids /\ index'[m.id] = Applied(m)
              /\ \A i \in Ids \ {m.id} : index'[i] = index[i]
      BY <2>4, WriterRows
    <3>2. CASE m.id = worker.id
      <4>1. m.kind # "remove" /\ m.kind # "insert"
        BY <2>1, <2>2, <3>1, <3>2 DEF HarmlessCommand, Accepts
      <4>2. m.kind \in {"state", "rekey"} /\ (m.kind = "state" => m.state # "none")
        BY <3>1, <4>1 DEF Command, HarmlessCommand, States
      <4> QED BY <2>1, <2>2, <3>1, <3>2, <4>2 DEF Applied, Stored
    <3>3. CASE m.id # worker.id
      BY <2>1, <2>2, <3>1, <3>3 DEF Stored
    <3> QED BY <3>2, <3>3
  <2>5. CASE Restart
    BY <1>3, <2>5 DEF Restart, Idle
  <2> QED BY <2>3, <2>4, <2>5, IndexChanges
<1> QED BY <1>3, <1>4, <1>5, WorkerFinishes

\* The table's UNIQUE(job_key) and the keys that commands bring.
LEMMA KeysStoredStep ==
    ASSUME IInv, LedgerInv, [Next]_vars PROVE KeysStored'
<1> USE DEF IInv, LedgerInv
<1>1. CASE index' = index
  BY <1>1 DEF KeysStored, Stored
<1>2. CASE WriterApply
  <2>1. PICK m \in Command :
            /\ Accepts(m)
            /\ m.kind \in {"insert", "rekey"} => m.key \in Keys
            /\ m.id \in Ids /\ index'[m.id] = Applied(m)
            /\ \A i \in Ids \ {m.id} : index'[i] = index[i]
    BY <1>2, WriterRows
  <2>2. m.id \in Stored' =>
           \/ /\ m.kind \in {"insert", "rekey"} /\ index'[m.id].key = m.key
           \/ /\ m.id \in Stored /\ index'[m.id].key = index[m.id].key
    BY <2>1 DEF Stored, Applied, NoRow
  <2>3. \A i \in Ids \ {m.id} : i \in Stored' => i \in Stored /\ index'[i].key = index[i].key
    BY <2>1 DEF Stored
  <2>4. \A i \in Stored' : i \in Ids
    BY DEF Stored
  <2>5. \A i \in Stored' : index'[i].key \in Keys
    BY <2>1, <2>2, <2>3, <2>4 DEF KeysStored
  <2>6. \A i \in Stored' \ {m.id} : m.id \in Stored' => index'[i].key # index'[m.id].key
    BY <2>1, <2>2, <2>3, <2>4 DEF KeysStored, Accepts
  <2>7. \A i, j \in Stored' : index'[i].key = index'[j].key => i = j
    BY <2>3, <2>4, <2>6 DEF KeysStored
  <2> QED BY <2>5, <2>7 DEF KeysStored
<1>3. CASE Restart
  BY <1>3, RestartJobs DEF KeysStored, Stored
<1> QED BY <1>1, <1>2, <1>3, IndexChanges

LEMMA SubmitKeys ==
    ASSUME TypeOK, KeysSent, NEW c, NEW m, Submit(c, m),
           m.kind \in {"insert", "rekey"} => m.key \in Keys
    PROVE  KeysSent'
<1>1. commands \in Seq(Command)
  BY DEF TypeOK
<1>2. CASE commands' = commands
  BY <1>2 DEF KeysSent
<1>3. CASE commands' = Append(commands, Call(c, m))
  <2>1. /\ DOMAIN commands' = 1 .. (Len(commands) + 1) /\ Len(commands) \in Nat
        /\ DOMAIN commands = 1 .. Len(commands)
        /\ \A n \in DOMAIN commands : commands'[n] = commands[n]
        /\ commands'[Len(commands) + 1] = Call(c, m)
    BY <1>1, <1>3
  <2>2. Call(c, m).kind = m.kind /\ Call(c, m).key = m.key
    BY DEF Call
  <2>3. ASSUME NEW n \in DOMAIN commands', commands'[n].kind \in {"insert", "rekey"}
        PROVE  commands'[n].key \in Keys
    <3>1. CASE n \in DOMAIN commands
      BY <2>1, <2>3, <3>1 DEF KeysSent
    <3>2. CASE n = Len(commands) + 1
      BY <2>1, <2>2, <2>3, <3>2
    <3> QED BY <2>1, <3>1, <3>2
  <2> QED BY <2>3 DEF KeysSent
<1> QED BY <1>2, <1>3 DEF Submit

\* Every submission has a key of its caller's hands: that of the request, or
\* the refined one.
LEMMA KeysSentStep ==
    ASSUME IInv, LedgerInv, [Next]_vars PROVE KeysSent'
<1> USE DEF IInv, LedgerInv
<1>1. ASSUME commands' = commands PROVE KeysSent'
  BY <1>1 DEF KeysSent
<1>2. ASSUME commands # <<>>, commands' = Tail(commands) PROVE KeysSent'
  <2>1. /\ DOMAIN commands = 1 .. Len(commands) /\ Len(commands) \in Nat \ {0}
        /\ DOMAIN commands' = 1 .. (Len(commands) - 1)
        /\ \A n \in DOMAIN commands' : commands'[n] = commands[n + 1]
    BY <1>2, HeadTailProperties DEF TypeOK
  <2> QED BY <2>1 DEF KeysSent
<1>3. ASSUME NEW i, NEW c, Submit(c, RemoveRow(i)) PROVE KeysSent'
  <2>1. RemoveRow(i).kind = "remove"
    BY DEF RemoveRow
  <2> QED BY <1>3, <2>1, SubmitKeys
<1>4. ASSUME NEW i, NEW s, NEW c, Submit(c, SetState(i, s)) PROVE KeysSent'
  <2>1. SetState(i, s).kind = "state"
    BY DEF SetState
  <2> QED BY <1>4, <2>1, SubmitKeys
<1>5. ASSUME NEW k \in Keys, Insert(k) PROVE KeysSent'
  <2>1. PICK i \in FreshIds : Submit("holder", InsertRow(i, k))
    BY <1>5 DEF Insert
  <2>2. InsertRow(i, k).key = k
    BY DEF InsertRow
  <2> QED BY <2>1, <2>2, SubmitKeys
<1>6. ASSUME NEW k \in Keys, BeginAdmit(k) PROVE KeysSent'
  BY <1>1, <1>3, <1>6 DEF BeginAdmit, channel
<1>7. ASSUME NEW i \in Ids, BeginRetry(i) PROVE KeysSent'
  BY <1>1, <1>4, <1>7 DEF BeginRetry, channel
<1>8. CASE HolderStep
  <2>1. CASE StaleRemoved
    BY <1>1, <2>1 DEF StaleRemoved, Clear
  <2>2. CASE CheckCapacity
    <3>1. mutex.key \in Keys
      BY <2>2 DEF CheckCapacity, HolderJob
    <3> QED BY <1>1, <1>3, <1>5, <2>2, <3>1 DEF CheckCapacity, channel
  <2>3. CASE VictimRemoved
    <3>1. mutex.key \in Keys
      BY <2>3 DEF VictimRemoved, HolderJob
    <3> QED BY <1>1, <1>5, <2>3, <3>1 DEF VictimRemoved, Clear
  <2>4. CASE Inserted \/ Retried \/ Refined
    BY <1>1, <2>4 DEF Inserted, Retried, Refined, Clear
  <2> QED BY <1>8, <2>1, <2>2, <2>3, <2>4 DEF HolderStep
<1>9. CASE WorkerAlone
  BY <1>1, <1>4, <1>9 DEF WorkerAlone, StartSync, SyncSucceeds, SyncFails, LeaveKey,
                          PersistOutcome, Clear, channel
<1>10. CASE WorkerLocking
  <2>1. CASE TakeJob \/ RefuseSync \/ FinishJob
    BY <1>1, <2>1 DEF TakeJob, RefuseSync, FinishJob, Clear, channel
  <2>2. CASE PersistRunning
    BY <1>4, <2>2 DEF PersistRunning
  <2>3. ASSUME NEW r \in Keys, BeginRefine(r) PROVE KeysSent'
    <3>1. ASSUME NEW i, Submit("holder", UpdateKey(i, r)) PROVE KeysSent'
      <4>1. UpdateKey(i, r).key = r
        BY DEF UpdateKey
      <4> QED BY <3>1, <4>1, SubmitKeys
    <3> QED BY <1>1, <2>3, <3>1 DEF BeginRefine, channel
  <2> QED BY <1>10, <2>1, <2>2, <2>3 DEF WorkerLocking
<1>11. CASE WriterStep
  BY <1>2, <1>11 DEF WriterStep, WriterApply, WriterReject
<1>12. ASSUME NEW c \in Callers, Timeout(c) PROVE KeysSent'
  <2>1. /\ DOMAIN commands' = DOMAIN commands
        /\ \A n \in DOMAIN commands :
              commands'[n] = commands[n]
                \/ commands'[n] = [commands[n] EXCEPT !.caller = "nobody"]
    BY <1>12 DEF Timeout
  <2>2. \A n \in DOMAIN commands : commands[n] \in Command
    BY DEF TypeOK
  <2>3. \A n \in DOMAIN commands :
           commands'[n].kind = commands[n].kind /\ commands'[n].key = commands[n].key
    BY <2>1, <2>2 DEF Command
  <2> QED BY <2>1, <2>3 DEF KeysSent
<1>13. CASE Restart
  BY <1>13 DEF Restart, KeysSent
<1>14. CASE UNCHANGED vars
  BY <1>1, <1>14 DEF vars
<1> QED BY <1>6, <1>7, <1>8, <1>9, <1>10, <1>11, <1>12, <1>13, <1>14 DEF Next

-----------------------------------------------------------------------------
(* Ids and by_id *)

\* by_id leads the id of every job to the key of the job.
Finds(js, b) == \A k \in Keys : js[k].id \in Ids => b[js[k].id] = k

LEMMA FindsById ==
    /\ IInv => (JobFoundById <=> Finds(jobs, byId))
    /\ IInv' => (JobFoundById' <=> Finds(jobs', byId'))
BY ConstantsAssumption
   DEF ConstantsAssumption, IInv, JobShape, TypeOK, Job, JobFoundById, Known, Finds

\* What a step can do to jobs and by_id.
Same == jobs' = jobs /\ byId' = byId
Turns(k, s) ==
    /\ byId' = byId
    /\ jobs'[k].id = jobs[k].id /\ jobs'[k].state = s
    /\ \A l \in Keys \ {k} : jobs'[l] = jobs[l]
JobTurns ==
    \E k \in Keys :
        /\ jobs[k].id \in Ids
        /\ \/ jobs[k].state = "failed" /\ Turns(k, "queued")
           \/ /\ jobs[k].state = "queued" /\ Turns(k, "running")
              /\ \A l \in Keys : jobs[l].state # "running"
           \/ jobs[k].state = "running" /\ (Turns(k, "ready") \/ Turns(k, "failed"))
StaleLeaves ==
    \E k \in Keys :
        /\ jobs[k].state = "ready" /\ jobs[k].id \in Ids
        /\ jobs' = [jobs EXCEPT ![k] = NoJob]
        /\ byId' = [byId EXCEPT ![jobs[k].id] = NoKey]
VictimLeaves ==
    \E k \in Keys :
        /\ jobs[k].state = "ready" /\ jobs[k].id \in Ids
        /\ jobs' = [jobs EXCEPT ![k] = NoJob]
        /\ byId' = byId
VictimForgotten ==
    \E i \in Ids :
        /\ \A k \in Keys : jobs[k].id # i
        /\ jobs' = jobs
        /\ byId' = [byId EXCEPT ![i] = NoKey]
JobComes ==
    \E k \in Keys, i \in Ids :
        /\ jobs[k].id = NoId
        /\ \A l \in Keys : jobs[l].id # i
        /\ byId[i] = NoKey
        /\ jobs' = [jobs EXCEPT ![k] = [id |-> i, state |-> "queued"]]
        /\ byId' = [byId EXCEPT ![i] = k]
JobRefined ==
    \E k, r \in Keys :
        /\ jobs[k].state = "running" /\ jobs[k].id \in Ids
        /\ jobs[r].id = NoId
        /\ jobs' = [jobs EXCEPT ![r] = jobs[k], ![k] = NoJob]
        /\ byId' = [byId EXCEPT ![jobs[k].id] = r]
Changes == Same \/ JobTurns \/ StaleLeaves \/ VictimLeaves \/ VictimForgotten
             \/ JobComes \/ JobRefined

LEMMA HolderChanges ==
    ASSUME IInv, FreshInserted, HolderStep PROVE Changes
<1> USE DEF IInv
<1>1. /\ jobs \in [Keys -> Job] /\ byId \in [Ids -> Keys \cup {NoKey}]
      /\ \A k \in Keys : jobs[k].state # "none" => jobs[k].id \in Ids
      /\ \A k \in Keys : jobs[k].state = "none" => jobs[k].id = NoId
  BY DEF TypeOK, JobShape, Job
<1>2. CASE StaleRemoved /\ reply["holder"] = "ok"
  <2>1. /\ mutex.key \in Keys /\ jobs[mutex.key].state = "ready"
        /\ jobs[mutex.key].id = mutex.id
        /\ jobs' = [jobs EXCEPT ![mutex.key] = NoJob]
        /\ byId' = [byId EXCEPT ![mutex.id] = NoKey]
    BY <1>2 DEF StaleRemoved, HolderJob
  <2>2. StaleLeaves
    BY <1>1, <2>1 DEF StaleLeaves
  <2> QED BY <2>2 DEF Changes
<1>3. CASE CheckCapacity
  <2>1. byId' = byId
    BY <1>3 DEF CheckCapacity
  <2>2. \/ jobs' = jobs
        \/ \E v \in Keys : Evictable(v) /\ jobs' = [jobs EXCEPT ![v] = NoJob]
    BY <1>3 DEF CheckCapacity
  <2>3. Same \/ VictimLeaves
    BY <1>1, <2>1, <2>2 DEF Evictable, VictimLeaves, Same
  <2> QED BY <2>3 DEF Changes
<1>4. CASE VictimRemoved
  <2>1. /\ jobs' = jobs /\ mutex.id \in Ids /\ \A k \in Keys : jobs[k].id # mutex.id
        /\ byId' = byId \/ byId' = [byId EXCEPT ![mutex.id] = NoKey]
    BY <1>4 DEF VictimRemoved, HolderJob
  <2>2. Same \/ VictimForgotten
    BY <2>1 DEF VictimForgotten, Same
  <2> QED BY <2>2 DEF Changes
<1>5. CASE Inserted /\ reply["holder"] = "ok"
  <2>1. /\ mutex.op = "inserting" /\ Enqueue(mutex.key, mutex.id)
        /\ byId' = [byId EXCEPT ![mutex.id] = mutex.key]
    BY <1>5 DEF Inserted
  <2>2. /\ mutex.key \in Keys /\ mutex.id \in Ids /\ jobs[mutex.key].state = "none"
        /\ \A k \in Keys : jobs[k].id # mutex.id
        /\ byId[mutex.id] = NoKey
    BY <2>1 DEF HolderJob, FreshInserted
  <2>3. JobComes
    BY <1>1, <2>1, <2>2 DEF Enqueue, JobComes
  <2> QED BY <2>3 DEF Changes
<1>6. CASE Retried /\ reply["holder"] = "ok"
  <2>1. /\ mutex.op = "retrying" /\ Enqueue(mutex.key, jobs[mutex.key].id)
        /\ byId' = byId
    BY <1>6 DEF Retried
  <2>2. mutex.key \in Keys /\ jobs[mutex.key].state = "failed"
    BY <2>1 DEF HolderJob
  <2>3. Turns(mutex.key, "queued")
    BY <1>1, <2>1, <2>2 DEF Enqueue, Turns
  <2>4. JobTurns
    BY <1>1, <2>2, <2>3 DEF JobTurns
  <2> QED BY <2>4 DEF Changes
<1>7. CASE Refined /\ reply["holder"] = "ok"
  <2>1. /\ mutex.op = "refining" /\ jobs' = Rekey
        /\ byId' = [byId EXCEPT ![jobs[worker.key].id] = mutex.key]
    BY <1>7 DEF Refined
  <2>2. /\ mutex.key \in Keys /\ jobs[mutex.key].state = "none"
        /\ worker.key \in Keys /\ jobs[worker.key].state = "running"
    BY <2>1 DEF HolderJob, WorkerJob
  <2>3. JobRefined
    BY <1>1, <2>1, <2>2 DEF Rekey, JobRefined
  <2> QED BY <2>3 DEF Changes
<1>8. CASE reply["holder"] # "ok" /\ (StaleRemoved \/ Inserted \/ Retried \/ Refined)
  <2>1. Same
    BY <1>8 DEF StaleRemoved, Inserted, Retried, Refined, memory, Same
  <2> QED BY <2>1 DEF Changes
<1> QED BY <1>2, <1>3, <1>4, <1>5, <1>6, <1>7, <1>8 DEF HolderStep

LEMMA WorkerChanges ==
    ASSUME IInv, OnlyWorkerRuns, WorkerLocking PROVE Changes
<1> USE DEF IInv
<1>1. /\ jobs \in [Keys -> Job]
      /\ \A k \in Keys : jobs[k].state # "none" => jobs[k].id \in Ids
  BY DEF TypeOK, JobShape, Job
<1>2. CASE TakeJob
  <2> DEFINE k == Head(ready)
  <2>1. /\ k \in Keys /\ jobs[k].state = "queued"
        /\ jobs' = [jobs EXCEPT ![k].state = "running"] /\ byId' = byId
        /\ worker.pc = "idle"
    BY <1>2, TakeReady DEF TakeJob, TypeOK
  <2>2. Turns(k, "running")
    BY <1>1, <2>1 DEF Turns, Job
  <2>3. \A l \in Keys : jobs[l].state # "running"
    BY <2>1 DEF OnlyWorkerRuns
  <2>4. JobTurns
    BY <1>1, <2>1, <2>2, <2>3 DEF JobTurns
  <2> QED BY <2>4 DEF Changes
<1>3. CASE RefuseSync \/ FinishJob
  <2>1. worker.key \in Keys /\ jobs[worker.key].state = "running"
    BY <1>3 DEF RefuseSync, FinishJob, WorkerJob
  <2>2. byId' = byId /\ \E s \in {"ready", "failed"} :
                             jobs' = [jobs EXCEPT ![worker.key].state = s]
    BY <1>1, <1>3, <2>1 DEF RefuseSync, FinishJob, Outcome
  <2>3. Turns(worker.key, "ready") \/ Turns(worker.key, "failed")
    BY <1>1, <2>1, <2>2 DEF Turns, Job
  <2>4. JobTurns
    BY <1>1, <2>1, <2>3 DEF JobTurns
  <2> QED BY <2>4 DEF Changes
<1>4. CASE PersistRunning \/ \E r \in Keys : BeginRefine(r)
  <2>1. Same
    BY <1>4 DEF PersistRunning, BeginRefine, memory, Same
  <2> QED BY <2>1 DEF Changes
<1> QED BY <1>2, <1>3, <1>4 DEF WorkerLocking

LEMMA StepChanges ==
    ASSUME IInv, LedgerInv, [Next]_vars PROVE Changes \/ Restart
<1>1. ASSUME Same PROVE Changes
  BY <1>1 DEF Changes
<1>2. ASSUME NEW k \in Keys, BeginAdmit(k) PROVE Same
  BY <1>2 DEF BeginAdmit, memory, Same
<1>3. ASSUME NEW i \in Ids, BeginRetry(i) PROVE Same
  BY <1>3 DEF BeginRetry, memory, Same
<1>4. CASE HolderStep
  BY <1>4, HolderChanges DEF LedgerInv
<1>5. CASE WorkerAlone
  <2>1. Same
    BY <1>5 DEF WorkerAlone, StartSync, SyncSucceeds, SyncFails, LeaveKey,
                PersistOutcome, memory, Same
  <2> QED BY <1>1, <2>1
<1>6. CASE WorkerLocking
  BY <1>6, WorkerChanges DEF LedgerInv
<1>7. CASE WriterStep
  <2>1. Same
    BY <1>7 DEF WriterStep, WriterApply, WriterReject, memory, Same
  <2> QED BY <1>1, <2>1
<1>8. ASSUME NEW c \in Callers, Timeout(c) PROVE Same
  BY <1>8 DEF Timeout, memory, Same
<1>9. CASE UNCHANGED vars
  <2>1. Same
    BY <1>9 DEF vars, Same
  <2> QED BY <1>1, <2>1
<1> QED BY <1>1, <1>2, <1>3, <1>4, <1>5, <1>6, <1>7, <1>8, <1>9 DEF Next

\* The id of every job keeps leading to it.
LEMMA FoundByIdStep ==
    ASSUME IInv, LedgerInv, [Next]_vars PROVE JobFoundById'
<1> SUFFICES Finds(jobs', byId')
  BY StepIInv, FindsById
<1> USE DEF IInv
<1>1. /\ jobs \in [Keys -> Job] /\ byId \in [Ids -> Keys \cup {NoKey}]
      /\ NoId \notin Ids /\ JobShape
  BY ConstantsAssumption DEF TypeOK, ConstantsAssumption
<1>2. Finds(jobs, byId)
  BY FindsById DEF LedgerInv
<1>3. CASE Same \/ JobTurns
  <2>1. byId' = byId /\ \A k \in Keys : jobs'[k].id = jobs[k].id
    BY <1>3 DEF Same, JobTurns, Turns
  <2> QED BY <1>2, <2>1 DEF Finds
<1>4. CASE StaleLeaves
  BY <1>1, <1>2, <1>4 DEF StaleLeaves, Finds, JobShape, NoJob
<1>5. CASE VictimLeaves
  BY <1>1, <1>2, <1>5 DEF VictimLeaves, Finds, NoJob
<1>6. CASE VictimForgotten
  BY <1>1, <1>2, <1>6 DEF VictimForgotten, Finds
<1>7. CASE JobComes
  BY <1>1, <1>2, <1>7 DEF JobComes, Finds
<1>8. CASE JobRefined
  <2>1. PICK k, r \in Keys :
           /\ jobs[k].state = "running" /\ jobs[k].id \in Ids
           /\ jobs[r].id = NoId
           /\ jobs' = [jobs EXCEPT ![r] = jobs[k], ![k] = NoJob]
           /\ byId' = [byId EXCEPT ![jobs[k].id] = r]
    BY <1>8 DEF JobRefined
  <2>2. k # r
    BY <1>1, <2>1
  <2>3. /\ jobs'[r] = jobs[k] /\ jobs'[k].id = NoId
        /\ \A l \in Keys \ {k, r} : jobs'[l] = jobs[l] /\ jobs[l].id # jobs[k].id
        /\ byId'[jobs[k].id] = r
        /\ \A i \in Ids \ {jobs[k].id} : byId'[i] = byId[i]
    BY <1>1, <2>1, <2>2 DEF NoJob, JobShape
  <2> QED BY <1>1, <1>2, <2>3 DEF Finds
<1>9. CASE Restart
  <2>1. byId' = [i \in Ids |-> IF i \in Stored THEN index[i].key ELSE NoKey]
    BY <1>9 DEF Restart
  <2>2. ASSUME NEW k \in Keys, jobs'[k].id \in Ids PROVE byId'[jobs'[k].id] = k
    <3>1. /\ jobs'[k].state # "none" /\ index[jobs'[k].id].key = k
          /\ index[jobs'[k].id].state # "none"
      BY <1>1, <1>9, <2>2, RestartJobs
    <3> QED BY <2>1, <2>2, <3>1 DEF Stored
  <2> QED BY <2>2 DEF Finds
<1> QED
  BY <1>2, <1>3, <1>4, <1>5, <1>6, <1>7, <1>8, <1>9, StepChanges
     DEF Changes

\* An admission draws an id that by_id does not have.
LEMMA FreshInsertedStep ==
    ASSUME IInv, FreshInserted, [Next]_vars PROVE FreshInserted'
<1> USE DEF IInv
<1>1. mutex \in [op : Ops, key : Keys \cup {NoKey}, id : Ids \cup {NoId}]
      /\ byId \in [Ids -> Keys \cup {NoKey}]
  BY DEF TypeOK
<1>2. ASSUME byId' = byId, mutex' = mutex \/ mutex'.op # "inserting"
      PROVE  FreshInserted'
  BY <1>2 DEF FreshInserted
<1>3. ASSUME NEW i \in FreshIds, mutex'.id = i,
             byId' = byId \/ byId' = [byId EXCEPT ![mutex.id] = NoKey]
      PROVE  FreshInserted'
  BY <1>1, <1>3 DEF FreshInserted, FreshIds
<1>4. ASSUME NEW k \in Keys, BeginAdmit(k) PROVE FreshInserted'
  BY <1>2, <1>4 DEF BeginAdmit, memory
<1>5. ASSUME NEW i \in Ids, BeginRetry(i) PROVE FreshInserted'
  BY <1>2, <1>5 DEF BeginRetry, memory
<1>6. CASE StaleRemoved \/ Inserted \/ Retried \/ Refined
  <2>1. mutex'.op # "inserting"
    BY <1>6 DEF StaleRemoved, Inserted, Retried, Refined, Release, Free
  <2> QED BY <2>1 DEF FreshInserted
<1>7. CASE CheckCapacity
  <2>1. byId' = byId
    BY <1>7 DEF CheckCapacity
  <2>2. mutex'.op # "inserting" \/ Insert(mutex.key)
    BY <1>7 DEF CheckCapacity, Release, Free
  <2>3. ASSUME Insert(mutex.key) PROVE \E i \in FreshIds : mutex'.id = i
    BY <2>3 DEF Insert
  <2> QED BY <1>2, <1>3, <2>1, <2>2, <2>3
<1>8. CASE VictimRemoved
  <2>1. byId' = byId \/ byId' = [byId EXCEPT ![mutex.id] = NoKey]
    BY <1>8 DEF VictimRemoved
  <2>2. (byId' = byId /\ mutex'.op # "inserting") \/ Insert(mutex.key)
    BY <1>8 DEF VictimRemoved, Release, Free
  <2>3. ASSUME Insert(mutex.key) PROVE \E i \in FreshIds : mutex'.id = i
    BY <2>3 DEF Insert
  <2> QED BY <1>2, <1>3, <2>1, <2>2, <2>3
<1>9. CASE WorkerAlone
  BY <1>2, <1>9 DEF WorkerAlone, StartSync, SyncSucceeds, SyncFails, LeaveKey,
                    PersistOutcome, memory
<1>10. CASE WorkerLocking
  <2>1. byId' = byId
    BY <1>10 DEF WorkerLocking, TakeJob, PersistRunning, RefuseSync, BeginRefine,
                 FinishJob, memory
  <2>2. mutex' = mutex \/ mutex'.op # "inserting"
    BY <1>10 DEF WorkerLocking, TakeJob, PersistRunning, RefuseSync, BeginRefine,
                 FinishJob
  <2> QED BY <1>2, <2>1, <2>2
<1>11. CASE WriterStep
  BY <1>2, <1>11 DEF WriterStep, WriterApply, WriterReject, memory
<1>12. ASSUME NEW c \in Callers, Timeout(c) PROVE FreshInserted'
  BY <1>2, <1>12 DEF Timeout, memory
<1>13. CASE Restart
  BY <1>13 DEF Restart, Free, FreshInserted
<1>14. CASE UNCHANGED vars
  BY <1>2, <1>14 DEF vars
<1> QED
  BY <1>4, <1>5, <1>6, <1>7, <1>8, <1>9, <1>10, <1>11, <1>12, <1>13, <1>14
     DEF Next, HolderStep

-----------------------------------------------------------------------------
(* The invariant of the ledger *)

LEMMA InitLedgerInv == Init => LedgerInv
BY DEF Init, LedgerInv, OnlyWorkerRuns, JobFoundById, FreshInserted, SuccessStored,
       KeysStored, KeysSent, Stored, Known, NoJob, NoRow, Free

LEMMA StepLedgerInv == IInv /\ LedgerInv /\ [Next]_vars => LedgerInv'
BY OnlyWorkerRunsStep, FoundByIdStep, FreshInsertedStep, SuccessStoredStep, KeysStoredStep,
   KeysSentStep DEF LedgerInv

\* For every instance: only the worker's job runs, and the table has what a
\* restart needs to find each job again.
THEOREM LedgerInvariant == Spec => []LedgerInv
BY InitLedgerInv, StepLedgerInv, InductiveInvariant, PTL DEF Spec

\* For every instance, by_id leads the id of every job in memory to the key of
\* that job, so no two jobs share an id.
THEOREM IdsFound == Spec => []JobFoundById
<1>1. LedgerInv => JobFoundById
  BY DEF LedgerInv
<1> QED BY <1>1, LedgerInvariant, PTL

-----------------------------------------------------------------------------
(* What status says *)

\* StateOf and Lost, for any jobs and by_id: before the step and after it.
Shown(js, b, i) == IF b[i] = NoKey THEN "none" ELSE js[b[i]].state
Left(js, b) == {i \in Ids : b[i] # NoKey /\ js[b[i]].id # i}

LEMMA Showing ==
    /\ Lost = Left(jobs, byId) /\ Lost' = Left(jobs', byId')
    /\ \A i \in Ids : JobStates[i] = Shown(jobs, byId, i)
    /\ \A i \in Ids : JobStates'[i] = Shown(jobs', byId', i)
    /\ JobStates' = [i \in Ids |-> Shown(jobs', byId', i)]
BY DEF Lost, Left, JobStates, StateOf, Shown

\* Jobs and by_id as every step leaves them.
Consistent(js, b) ==
    /\ js \in [Keys -> Job] /\ b \in [Ids -> Keys \cup {NoKey}]
    /\ \A k \in Keys : js[k].state = "none" <=> js[k].id = NoId
    /\ Finds(js, b)

LEMMA StepConsistent ==
    ASSUME IInv, LedgerInv, [Next]_vars
    PROVE  Consistent(jobs, byId) /\ Consistent(jobs', byId')
<1>1. IInv' /\ LedgerInv'
  BY StepIInv, StepLedgerInv
<1> QED BY <1>1, FindsById DEF IInv, LedgerInv, TypeOK, JobShape, Consistent

\* An id in by_id is lost, or leads to its job; a job's id is not lost.
LEMMA LostOrFound ==
    ASSUME NEW js, NEW b, Consistent(js, b)
    PROVE  /\ Left(js, b) = {i \in Ids : b[i] # NoKey /\ \A k \in Keys : js[k].id # i}
           /\ \A k \in Keys : js[k].id \in Ids =>
                 /\ js[k].id \notin Left(js, b)
                 /\ Shown(js, b, js[k].id) = js[k].state
BY ConstantsAssumption DEF ConstantsAssumption, Consistent, Finds, Left, Shown

\* A lost id shows nothing, or the job of an id that is not lost.
LEMMA LostBorrow ==
    ASSUME NEW js, NEW b, Consistent(js, b), NEW i \in Left(js, b)
    PROVE  \/ Shown(js, b, i) = "none"
           \/ \E j \in Ids \ Left(js, b) : Shown(js, b, i) = Shown(js, b, j)
<1> DEFINE k == b[i]
<1>1. i \in Ids /\ k \in Keys /\ Shown(js, b, i) = js[k].state
  BY DEF Left, Shown, Consistent
<1>2. CASE js[k].id = NoId
  BY <1>1, <1>2 DEF Consistent
<1>3. CASE js[k].id \in Ids
  BY <1>1, <1>3, LostOrFound
<1>4. js[k].id \in Ids \cup {NoId}
  BY <1>1 DEF Consistent, Job
<1> QED BY <1>2, <1>3, <1>4

\* Whatever the step of the ledger, it leaves states, and lost ids borrow them.
LEMMA StepShows ==
    ASSUME IInv, LedgerInv, [Next]_vars
    PROVE  /\ JobStates' \in [Ids -> {Ledger!Unknown, "queued", "running", "ready", "failed"}]
           /\ Ledger!Borrowed'
<1>1. Consistent(jobs', byId')
  BY StepConsistent
<1>2. \A i \in Ids :
         Shown(jobs', byId', i) \in {"none", "queued", "running", "ready", "failed"}
  BY <1>1 DEF Consistent, Shown, Job, States
<1>3. JobStates' \in [Ids -> {Ledger!Unknown, "queued", "running", "ready", "failed"}]
  BY <1>2, Showing DEF Ledger!Unknown
<1>4. ASSUME NEW i \in Lost'
      PROVE  \/ JobStates'[i] = "none"
             \/ \E j \in Ids \ Lost' : JobStates'[i] = JobStates'[j]
  <2>1. i \in Left(jobs', byId') /\ i \in Ids
    BY <1>4, Showing DEF Left
  <2> QED BY <1>1, <2>1, LostBorrow, Showing
<1>5. Ledger!Borrowed'
  BY <1>4 DEF Ledger!Borrowed, Ledger!Unknown
<1> QED BY <1>3, <1>5

\* The step of the ledger for the change of one id, the others staying.
LEMMA OthersStay ==
    ASSUME NEW i \in Ids,
           \A j \in Ids \ {i} : j \notin Left(jobs', byId') =>
               Shown(jobs', byId', j) = Shown(jobs, byId, j)
    PROVE  Ledger!Others(i)
BY Showing DEF Ledger!Others

-----------------------------------------------------------------------------
(* The steps of the ledger *)

\* What the ledger calls a step of its own, without what StepShows adds.
LedgerStep ==
    \/ \E i \in Ids : \/ Ledger!Admit(i) \/ Ledger!Start(i) \/ Ledger!End(i)
                      \/ Ledger!Retry(i) \/ Ledger!Forget(i)
                      \/ Ledger!Evict(i) \/ Ledger!Evicted(i)
    \/ Ledger!Drift
    \/ Ledger!Crash

\* A job that only changes its state.
LEMMA TurnGoes ==
    ASSUME Consistent(jobs, byId), Consistent(jobs', byId'),
           NEW k \in Keys, NEW s, jobs[k].id \in Ids, Turns(k, s)
    PROVE  /\ JobStates[jobs[k].id] = jobs[k].state
           /\ Ledger!Goes(jobs[k].id, s)
<1> DEFINE i == jobs[k].id
<1>1. /\ byId' = byId /\ jobs'[k].id = i /\ jobs'[k].state = s
      /\ \A l \in Keys : jobs'[l].id = jobs[l].id
      /\ \A l \in Keys \ {k} : jobs'[l] = jobs[l]
  BY DEF Turns
<1>2. Left(jobs', byId') = Left(jobs, byId) /\ i \notin Left(jobs, byId)
  BY <1>1, LostOrFound
<1>3. Shown(jobs, byId, i) = jobs[k].state /\ Shown(jobs', byId', i) = s
  BY <1>1, LostOrFound
<1>4. ASSUME NEW j \in Ids \ {i}, j \notin Left(jobs', byId')
      PROVE  Shown(jobs', byId', j) = Shown(jobs, byId, j)
  <2>1. byId[j] # k \/ byId[j] = NoKey
    BY <1>1, <1>4 DEF Left
  <2> QED BY <1>1, <2>1 DEF Shown, Consistent
<1>5. Ledger!Others(i)
  BY <1>4, OthersStay
<1> QED BY <1>2, <1>3, <1>5, Showing DEF Ledger!Goes

LEMMA TurnLedger ==
    ASSUME Consistent(jobs, byId), Consistent(jobs', byId'), JobTurns
    PROVE  LedgerStep
<1>1. PICK k \in Keys :
         /\ jobs[k].id \in Ids
         /\ \/ jobs[k].state = "failed" /\ Turns(k, "queued")
            \/ /\ jobs[k].state = "queued" /\ Turns(k, "running")
               /\ \A l \in Keys : jobs[l].state # "running"
            \/ jobs[k].state = "running" /\ (Turns(k, "ready") \/ Turns(k, "failed"))
  BY DEF JobTurns
<1>2. CASE jobs[k].state = "failed" /\ Turns(k, "queued")
  <2>1. Ledger!Retry(jobs[k].id)
    BY <1>1, <1>2, TurnGoes DEF Ledger!Retry
  <2> QED BY <1>1, <2>1 DEF LedgerStep
<1>3. CASE /\ jobs[k].state = "queued" /\ Turns(k, "running")
           /\ \A l \in Keys : jobs[l].state # "running"
  <2>1. \A j \in Ids : JobStates[j] # "running"
    BY <1>3, Showing DEF Shown, Consistent
  <2>2. Ledger!Start(jobs[k].id)
    BY <1>1, <1>3, <2>1, TurnGoes DEF Ledger!Start
  <2> QED BY <1>1, <2>2 DEF LedgerStep
<1>4. CASE jobs[k].state = "running" /\ (Turns(k, "ready") \/ Turns(k, "failed"))
  <2>1. Ledger!End(jobs[k].id)
    BY <1>1, <1>4, TurnGoes DEF Ledger!End
  <2> QED BY <1>1, <2>1 DEF LedgerStep
<1> QED BY <1>1, <1>2, <1>3, <1>4

\* A published job that leaves memory: its id with it, or later.
LEMMA LeaveLedger ==
    ASSUME Consistent(jobs, byId), Consistent(jobs', byId'),
           StaleLeaves \/ VictimLeaves
    PROVE  LedgerStep
<1>1. PICK k \in Keys :
         /\ jobs[k].state = "ready" /\ jobs[k].id \in Ids
         /\ jobs' = [jobs EXCEPT ![k] = NoJob]
         /\ byId' = byId \/ byId' = [byId EXCEPT ![jobs[k].id] = NoKey]
  BY DEF StaleLeaves, VictimLeaves
<1> DEFINE i == jobs[k].id
<1>2. /\ byId[i] = k /\ NoId \notin Ids /\ NoKey \notin Keys
      /\ jobs'[k].id = NoId /\ jobs'[k].state = "none"
      /\ \A l \in Keys \ {k} : jobs'[l] = jobs[l]
      /\ \A j \in Ids \ {i} : byId'[j] = byId[j]
      /\ byId'[i] \in {NoKey, k}
  BY <1>1, ConstantsAssumption DEF ConstantsAssumption, Consistent, Finds, NoJob
<1>3. i \notin Left(jobs, byId) /\ Shown(jobs, byId, i) = "ready"
  BY <1>1, LostOrFound
<1>4. Shown(jobs', byId', i) = "none"
  BY <1>2 DEF Shown
<1>5. ASSUME NEW j \in Ids \ {i}, j \notin Left(jobs', byId')
      PROVE  Shown(jobs', byId', j) = Shown(jobs, byId, j)
  BY <1>2, <1>5 DEF Shown, Left, Consistent
<1>6. Ledger!Others(i)
  BY <1>1, <1>5, OthersStay
<1>7. \A j \in Ids \ {i} : j \in Left(jobs', byId') <=> j \in Left(jobs, byId)
  BY <1>2 DEF Left, Consistent, Finds
<1>8. CASE byId'[i] = NoKey
  <2>1. Left(jobs', byId') = Left(jobs, byId)
    BY <1>3, <1>7, <1>8 DEF Left
  <2>2. Ledger!Forget(i)
    BY <1>1, <1>3, <1>4, <1>6, <2>1, Showing
       DEF Ledger!Forget, Ledger!Goes, Ledger!Unknown
  <2> QED BY <1>1, <2>2 DEF LedgerStep
<1>9. CASE byId'[i] = k
  <2>1. i \in Left(jobs', byId')
    BY <1>1, <1>2, <1>9 DEF Left
  <2>2. Left(jobs', byId') = Left(jobs, byId) \cup {i}
    BY <1>7, <2>1 DEF Left
  <2>3. Ledger!Evict(i)
    BY <1>1, <1>3, <1>4, <1>6, <2>2, Showing DEF Ledger!Evict, Ledger!Unknown
  <2> QED BY <1>1, <2>3 DEF LedgerStep
<1> QED BY <1>2, <1>8, <1>9

\* by_id forgets a job that has left memory.
LEMMA ForgetLedger ==
    ASSUME Consistent(jobs, byId), Consistent(jobs', byId'), VictimForgotten
    PROVE  LedgerStep
<1>1. PICK i \in Ids :
         /\ \A k \in Keys : jobs[k].id # i
         /\ jobs' = jobs
         /\ byId' = [byId EXCEPT ![i] = NoKey]
  BY DEF VictimForgotten
<1>2. byId'[i] = NoKey /\ \A j \in Ids \ {i} : byId'[j] = byId[j]
  BY <1>1 DEF Consistent
<1>3. Left(jobs', byId') = Left(jobs, byId) \ {i}
  BY <1>1, <1>2 DEF Left
<1>4. Shown(jobs', byId', i) = "none"
  BY <1>2 DEF Shown
<1>5. \A j \in Ids \ {i} : Shown(jobs', byId', j) = Shown(jobs, byId, j)
  BY <1>1, <1>2 DEF Shown
<1>6. Ledger!Others(i)
  BY <1>5, OthersStay
<1>7. CASE i \in Left(jobs, byId)
  <2>1. Ledger!Evicted(i)
    BY <1>3, <1>4, <1>6, <1>7, Showing DEF Ledger!Evicted, Ledger!Unknown
  <2> QED BY <2>1 DEF LedgerStep
<1>8. CASE i \notin Left(jobs, byId)
  <2>1. byId[i] = NoKey
    BY <1>1, <1>8, LostOrFound
  <2>2. \A j \in Ids : Shown(jobs', byId', j) = Shown(jobs, byId, j)
    BY <1>4, <1>5, <2>1 DEF Shown
  <2>3. Ledger!Drift
    BY <1>3, <1>8, <2>2, Showing DEF Ledger!Drift
  <2> QED BY <2>3 DEF LedgerStep
<1> QED BY <1>7, <1>8

\* A job comes with an id that by_id does not have.
LEMMA ComeLedger ==
    ASSUME Consistent(jobs, byId), Consistent(jobs', byId'), JobComes
    PROVE  LedgerStep
<1>1. PICK k \in Keys, i \in Ids :
         /\ jobs[k].id = NoId
         /\ \A l \in Keys : jobs[l].id # i
         /\ byId[i] = NoKey
         /\ jobs' = [jobs EXCEPT ![k] = [id |-> i, state |-> "queued"]]
         /\ byId' = [byId EXCEPT ![i] = k]
  BY DEF JobComes
<1>2. /\ NoId \notin Ids /\ NoKey \notin Keys
      /\ jobs'[k].id = i /\ jobs'[k].state = "queued"
      /\ \A l \in Keys \ {k} : jobs'[l] = jobs[l]
      /\ byId'[i] = k /\ \A j \in Ids \ {i} : byId'[j] = byId[j]
  BY <1>1, ConstantsAssumption DEF ConstantsAssumption, Consistent
<1>3. /\ i \notin Left(jobs, byId) /\ Shown(jobs, byId, i) = "none"
      /\ i \notin Left(jobs', byId') /\ Shown(jobs', byId', i) = "queued"
  BY <1>1, <1>2 DEF Left, Shown
<1>4. \A j \in Ids \ {i} : j \in Left(jobs', byId') <=> j \in Left(jobs, byId)
  BY <1>1, <1>2 DEF Left, Consistent
<1>5. Left(jobs', byId') = Left(jobs, byId)
  BY <1>3, <1>4 DEF Left
<1>6. ASSUME NEW j \in Ids \ {i}, j \notin Left(jobs', byId')
      PROVE  Shown(jobs', byId', j) = Shown(jobs, byId, j)
  BY <1>2, <1>6 DEF Shown, Left, Consistent
<1>7. Ledger!Others(i)
  BY <1>6, OthersStay
<1>8. Ledger!Admit(i)
  BY <1>3, <1>5, <1>7, Showing DEF Ledger!Admit, Ledger!Goes, Ledger!Unknown
<1> QED BY <1>8 DEF LedgerStep

\* The job of a refined key only changes its place.
LEMMA RefinedLedger ==
    ASSUME Consistent(jobs, byId), Consistent(jobs', byId'), JobRefined
    PROVE  LedgerStep
<1>1. PICK k, r \in Keys :
         /\ jobs[k].state = "running" /\ jobs[k].id \in Ids
         /\ jobs[r].id = NoId
         /\ jobs' = [jobs EXCEPT ![r] = jobs[k], ![k] = NoJob]
         /\ byId' = [byId EXCEPT ![jobs[k].id] = r]
  BY DEF JobRefined
<1> DEFINE i == jobs[k].id
<1>2. /\ NoId \notin Ids /\ NoKey \notin Keys /\ k # r
      /\ byId[i] = k /\ byId'[i] = r
      /\ \A j \in Ids \ {i} : byId'[j] = byId[j]
  BY <1>1, ConstantsAssumption DEF ConstantsAssumption, Consistent, Finds
<1>3. /\ jobs'[r] = jobs[k] /\ jobs'[k].id = NoId
      /\ \A l \in Keys \ {k, r} : jobs'[l] = jobs[l]
  BY <1>1, <1>2 DEF Consistent, NoJob
<1>4. /\ i \notin Left(jobs, byId) /\ i \notin Left(jobs', byId')
      /\ Shown(jobs', byId', i) = Shown(jobs, byId, i)
  BY <1>1, <1>2, <1>3 DEF Left, Shown
<1>5. \A j \in Ids \ {i} : j \in Left(jobs', byId') <=> j \in Left(jobs, byId)
  BY <1>1, <1>2, <1>3 DEF Left, Consistent
<1>6. Left(jobs', byId') = Left(jobs, byId)
  BY <1>4, <1>5 DEF Left
<1>7. ASSUME NEW j \in Ids, j \notin Left(jobs, byId)
      PROVE  Shown(jobs', byId', j) = Shown(jobs, byId, j)
  <2>1. CASE j = i
    BY <1>4, <2>1
  <2>2. CASE j # i
    BY <1>1, <1>2, <1>3, <1>7, <2>2 DEF Shown, Left, Consistent
  <2> QED BY <2>1, <2>2
<1>8. Ledger!Drift
  BY <1>6, <1>7, Showing DEF Ledger!Drift
<1> QED BY <1>8 DEF LedgerStep

\* A restart finds the job of every row under the id of the row, and no id lost.
LEMMA RestartLedger ==
    ASSUME IInv, LedgerInv, Restart, Consistent(jobs, byId), Consistent(jobs', byId')
    PROVE  LedgerStep
<1> USE DEF IInv, LedgerInv
<1>1. byId' = [i \in Ids |-> IF i \in Stored THEN index[i].key ELSE NoKey]
  BY DEF Restart
<1>2. ASSUME NEW i \in Stored
      PROVE  /\ i \in Ids /\ byId'[i] \in Keys /\ jobs'[byId'[i]].id = i
             /\ jobs'[byId'[i]].state = Recovered(index[i]).state
  <2> DEFINE k == index[i].key
             j == jobs'[k].id
  <2>1. i \in Ids /\ k \in Keys /\ byId'[i] = k
    BY <1>1 DEF KeysStored, Stored
  <2>2. /\ jobs'[k].state # "none" /\ j \in Ids /\ index[j].key = k
        /\ jobs'[k].state = index'[j].state /\ index'[j] = Recovered(index[j])
        /\ index[j].state # "none"
    BY <2>1, RestartJobs DEF Stored
  <2>3. j = i
    BY <2>2 DEF KeysStored, Stored
  <2> QED BY <2>1, <2>2, <2>3
<1>3. Left(jobs', byId') = {}
  BY <1>1, <1>2 DEF Left
<1>4. \A i \in Ids : Shown(jobs', byId', i) =
                        IF i \in Stored THEN Recovered(index[i]).state ELSE "none"
  BY <1>1, <1>2, ConstantsAssumption DEF ConstantsAssumption, Shown
<1>5. \A i \in Ids : Shown(jobs', byId', i) \in {"none", "ready", "failed"}
  BY <1>4 DEF Recovered, Pending, TypeOK, Row, States
<1>6. ASSUME NEW i \in Ids, i \notin Left(jobs, byId),
             Shown(jobs, byId, i) \in {"queued", "running", "failed"}
      PROVE  /\ Shown(jobs, byId, i) # "running" => Shown(jobs', byId', i) = "failed"
             /\ Shown(jobs', byId', i) \in {"failed", "ready"}
  <2>1. PICK k \in Keys : jobs[k].id = i /\ jobs[k].state = Shown(jobs, byId, i)
    BY <1>6 DEF Shown, Left, Consistent
  <2>2. CASE ~Succeeded(k)
    <3>1. Unfinished(i)
      BY <1>6, <2>1, <2>2 DEF CrashLeavesFailed
    <3>2. i \in Stored /\ Recovered(index[i]).state = "failed"
      BY <3>1 DEF Unfinished, Stored, Recovered, Pending, TypeOK, Row
    <3> QED BY <1>4, <3>2
  <2>3. CASE Succeeded(k)
    <3>1. jobs[k].state = "running" /\ i \in Stored
      BY <2>1, <2>3 DEF Succeeded, WorkerJob, SuccessStored
    <3>2. Shown(jobs', byId', i) # "none"
      BY <1>4, <3>1 DEF Recovered, Stored, TypeOK, Row
    <3> QED BY <1>5, <2>1, <3>1, <3>2
  <2> QED BY <2>2, <2>3
<1>7. Ledger!Crash
  <2>1. \A i \in Ids : JobStates'[i] \in Ledger!AfterCrash(i)
    BY <1>5, <1>6, Showing DEF Ledger!AfterCrash, Ledger!Unknown
  <2> QED BY <1>3, <2>1, Showing DEF Ledger!Crash
<1> QED BY <1>7 DEF LedgerStep

LEMMA StepLedger ==
    ASSUME IInv, LedgerInv, [Next]_vars PROVE [Ledger!Next]_(Ledger!vars)
<1>1. Consistent(jobs, byId) /\ Consistent(jobs', byId')
  BY StepConsistent
<1>2. CASE Same
  <2>1. JobStates' = JobStates /\ Lost' = Lost
    BY <1>2 DEF Same, JobStates, StateOf, Lost
  <2> QED BY <2>1 DEF Ledger!vars
<1>3. ASSUME LedgerStep PROVE Ledger!Next
  BY <1>3, StepShows DEF LedgerStep, Ledger!Next
<1> QED
  BY <1>1, <1>2, <1>3, StepChanges, TurnLedger, LeaveLedger, ForgetLedger, ComeLedger,
     RefinedLedger, RestartLedger DEF Changes

\* For every instance, JobCoordinator with its table and writer implements the
\* ledger: what status says of the id a client was given moves only as promised,
\* whatever fails, times out or crashes, until an eviction leaves the id behind.
THEOREM LedgerImplemented == Spec => LedgerKept
<1>1. Init => Ledger!Init
  <2> SUFFICES ASSUME Init PROVE Ledger!Init
    OBVIOUS
  <2>1. \A i \in Ids : StateOf(i) = "none" /\ i \notin Lost
    BY DEF Init, StateOf, Lost
  <2>2. Lost = {}
    BY <2>1 DEF Lost
  <2> QED BY <2>1, <2>2 DEF JobStates, Ledger!Init, Ledger!Unknown
<1>2. IInv /\ LedgerInv /\ [Next]_vars => [Ledger!Next]_(Ledger!vars)
  BY StepLedger
<1> QED
  BY <1>1, <1>2, InductiveInvariant, LedgerInvariant, PTL
     DEF Spec, LedgerKept, Ledger!Spec

-----------------------------------------------------------------------------
(* No implicit replay.  On top of IInv and LedgerInv it needs ReplayInv of *)
(* IndexJobs, which every step keeps as long as the worker's own wait for  *)
(* the writer does not expire.                                             *)

(* The commands with a key *)

\* A command that neither changes a key nor has the holder waiting for it.
Unbound(m) == m.kind # "rekey" /\ m.caller # "holder"
AllUnbound == \A n \in DOMAIN commands : Unbound(commands[n])

\* Only such commands are on their way while the holder of the mutex, or
\* nobody, does not wait for the writer.
LEMMA HolderQuiet ==
    ASSUME IInv, CommandsOwn, reply["holder"] # "waiting" PROVE AllUnbound
BY DEF IInv, Harmless, HarmlessCommand, CommandsOwn, OwnCommand, AllUnbound, Unbound

LEMMA UnboundOwn == ASSUME NEW m, Unbound(m) PROVE OwnCommand(m)'
BY DEF Unbound, OwnCommand

\* Commands that stay in order and one more keep CommandsOwn.
LEMMA AppendOwn ==
    ASSUME TypeOK, NEW x, commands' \in {commands, Append(commands, x)},
           OwnCommand(x)',
           \A n \in DOMAIN commands : \E o : o = commands[n] /\ OwnCommand(o)'
    PROVE  CommandsOwn'
<1>1. commands \in Seq(Command)
  BY DEF TypeOK
<1>2. CASE commands' = commands
  <2>1. \A n \in DOMAIN commands' : \E o : o = commands'[n] /\ OwnCommand(o)'
    BY <1>2
  <2> QED BY <2>1 DEF CommandsOwn
<1>3. CASE commands' = Append(commands, x)
  <2>1. /\ DOMAIN commands' = 1 .. (Len(commands) + 1) /\ Len(commands) \in Nat
        /\ DOMAIN commands = 1 .. Len(commands)
        /\ \A n \in DOMAIN commands : commands'[n] = commands[n]
        /\ commands'[Len(commands) + 1] = x
    BY <1>1, <1>3
  <2>2. \A n \in DOMAIN commands' : n \in DOMAIN commands \/ n = Len(commands) + 1
    BY <2>1
  <2>3. \A n \in DOMAIN commands' : \E o : o = commands'[n] /\ OwnCommand(o)'
    BY <2>1, <2>2
  <2> QED BY <2>3 DEF CommandsOwn
<1> QED BY <1>2, <1>3

\* From then on the commands may be whatever the next holder sends.
LEMMA QuietKeeps ==
    ASSUME AllUnbound, commands' = commands PROVE CommandsOwn'
<1>1. \A n \in DOMAIN commands' : \E o : o = commands'[n] /\ OwnCommand(o)'
  BY UnboundOwn DEF AllUnbound
<1> QED BY <1>1 DEF CommandsOwn

LEMMA QuietSubmits ==
    ASSUME TypeOK, AllUnbound, NEW m, Submit("holder", m), OwnCommand(Call("holder", m))'
    PROVE  CommandsOwn'
<1>1. \A n \in DOMAIN commands : \E o : o = commands[n] /\ OwnCommand(o)'
  BY UnboundOwn DEF AllUnbound
<1>2. commands' \in {commands, Append(commands, Call("holder", m))}
  BY DEF Submit
<1> QED BY <1>1, <1>2, AppendOwn

\* The worker's own commands only set states.
LEMMA WorkerSubmits ==
    ASSUME TypeOK, CommandsOwn, NEW i, NEW s, Submit("worker", SetState(i, s)),
           mutex' = mutex, mutex.op = "refining" => worker'.id = worker.id
    PROVE  CommandsOwn'
<1>1. \A m : OwnCommand(m) => OwnCommand(m)'
  BY DEF OwnCommand
<1>2. \A n \in DOMAIN commands : \E o : o = commands[n] /\ OwnCommand(o)'
  BY <1>1 DEF CommandsOwn
<1>3. Unbound(Call("worker", SetState(i, s)))
  BY DEF Unbound, Call, SetState
<1>4. commands' \in {commands, Append(commands, Call("worker", SetState(i, s)))}
  BY DEF Submit
<1> QED BY <1>2, <1>3, <1>4, UnboundOwn, AppendOwn

\* A step that leaves the mutex and the id of a refining worker alone.
LEMMA OwnStays ==
    ASSUME CommandsOwn, mutex' = mutex, mutex.op = "refining" => worker'.id = worker.id,
           commands' = commands
    PROVE  CommandsOwn'
BY DEF CommandsOwn, OwnCommand

\* An insert of the holder has the key of its admission.
LEMMA InsertOwn ==
    ASSUME TypeOK, AllUnbound, NEW k, Insert(k), k = mutex.key PROVE CommandsOwn'
<1>1. PICK i \in FreshIds : /\ mutex' = [op |-> "inserting", key |-> k, id |-> i]
                            /\ Submit("holder", InsertRow(i, k))
  BY DEF Insert
<1>2. OwnCommand(Call("holder", InsertRow(i, k)))'
  BY <1>1 DEF OwnCommand, Call, InsertRow
<1> QED BY <1>1, <1>2, QuietSubmits

\* While its mutex is refining, the worker waits for it.
LEMMA RefiningWorker == ASSUME IInv, mutex.op = "refining" PROVE worker.pc = "refining"
BY DEF IInv, HolderJob

LEMMA CommandsOwnStep ==
    ASSUME ~WorkerTimesOut, IInv, CommandsOwn, [Next]_vars PROVE CommandsOwn'
<1> USE DEF IInv
<1>1. worker \in [pc : Stages, key : Keys \cup {NoKey}, id : Ids \cup {NoId}, ok : BOOLEAN]
  BY DEF TypeOK
<1>2. ASSUME NEW i, Submit("holder", RemoveRow(i)), AllUnbound,
             mutex'.op \notin {"refining", "inserting"}
      PROVE  CommandsOwn'
  <2>1. OwnCommand(Call("holder", RemoveRow(i)))'
    BY <1>2 DEF OwnCommand, Call, RemoveRow
  <2> QED BY <1>2, <2>1, QuietSubmits
<1>3. ASSUME Unlocked PROVE AllUnbound
  <2>1. reply["holder"] = "none"
    BY <1>3 DEF Unlocked, Free, HolderJob
  <2> QED BY <2>1, HolderQuiet
<1>4. ASSUME NEW k \in Keys, BeginAdmit(k) PROVE CommandsOwn'
  <2>1. AllUnbound
    BY <1>3, <1>4 DEF BeginAdmit
  <2>2. \/ commands' = commands
        \/ /\ mutex' = [op |-> "removing", key |-> k, id |-> jobs[k].id]
           /\ Submit("holder", RemoveRow(jobs[k].id))
    BY <1>4 DEF BeginAdmit, channel
  <2> QED BY <1>2, <2>1, <2>2, QuietKeeps
<1>5. ASSUME NEW i \in Ids, BeginRetry(i) PROVE CommandsOwn'
  <2>1. AllUnbound
    BY <1>3, <1>5 DEF BeginRetry
  <2>2. \/ commands' = commands
        \/ /\ mutex'.op = "retrying"
           /\ Submit("holder", SetState(i, "queued"))
    BY <1>5 DEF BeginRetry, channel
  <2>3. mutex'.op = "retrying" => OwnCommand(Call("holder", SetState(i, "queued")))'
    BY DEF OwnCommand, Call, SetState
  <2> QED BY <2>1, <2>2, <2>3, QuietKeeps, QuietSubmits
<1>6. CASE HolderStep
  <2>1. reply["holder"] # "waiting"
    BY <1>6 DEF HolderStep, StaleRemoved, CheckCapacity, VictimRemoved, Inserted,
                Retried, Refined, Answered, HolderJob
  <2>2. AllUnbound
    BY <2>1, HolderQuiet
  <2>3. CASE StaleRemoved \/ Inserted \/ Retried \/ Refined
    <3>1. commands' = commands
      BY <2>3 DEF StaleRemoved, Inserted, Retried, Refined, Clear
    <3> QED BY <2>2, <3>1, QuietKeeps
  <2>4. CASE CheckCapacity
    <3>1. \/ commands' = commands
          \/ Insert(mutex.key)
          \/ \E i : mutex'.op = "evicting" /\ Submit("holder", RemoveRow(i))
      BY <2>4 DEF CheckCapacity, channel
    <3> QED BY <1>2, <2>2, <3>1, QuietKeeps, InsertOwn
  <2>5. CASE VictimRemoved
    <3>1. commands' = commands \/ Insert(mutex.key)
      BY <2>5 DEF VictimRemoved, Clear
    <3> QED BY <2>2, <3>1, QuietKeeps, InsertOwn
  <2> QED BY <1>6, <2>3, <2>4, <2>5 DEF HolderStep
<1>7. CASE WorkerAlone
  <2>1. mutex' = mutex /\ worker'.id = worker.id
    BY <1>1, <1>7 DEF WorkerAlone, StartSync, SyncSucceeds, SyncFails, LeaveKey,
                      PersistOutcome
  <2>2. CASE PersistOutcome
    BY <2>1, <2>2, WorkerSubmits DEF PersistOutcome
  <2>3. CASE StartSync \/ SyncSucceeds \/ SyncFails \/ LeaveKey
    <3>1. commands' = commands
      BY <2>3 DEF StartSync, SyncSucceeds, SyncFails, LeaveKey, Clear, channel
    <3> QED BY <2>1, <3>1, OwnStays
  <2> QED BY <1>7, <2>2, <2>3 DEF WorkerAlone
<1>8. CASE WorkerLocking
  <2>1. AllUnbound
    BY <1>3, <1>8 DEF WorkerLocking, TakeJob, PersistRunning, RefuseSync, BeginRefine,
                      FinishJob
  <2>2. CASE TakeJob \/ RefuseSync \/ FinishJob
    <3>1. commands' = commands
      BY <2>2 DEF TakeJob, RefuseSync, FinishJob, Clear, channel
    <3> QED BY <2>1, <3>1, QuietKeeps
  <2>3. CASE PersistRunning
    <3>1. mutex' = mutex /\ mutex.op # "refining"
      BY <2>3 DEF PersistRunning, Unlocked, Free
    <3> QED BY <2>3, <3>1, WorkerSubmits DEF PersistRunning
  <2>4. ASSUME NEW r \in Keys, BeginRefine(r) PROVE CommandsOwn'
    <3>1. CASE commands' = commands
      BY <2>1, <3>1, QuietKeeps
    <3>2. ASSUME mutex' = [op |-> "refining", key |-> r, id |-> worker.id],
                 Submit("holder", UpdateKey(jobs[worker.key].id, r)),
                 worker' = worker
          PROVE  CommandsOwn'
      <4>1. PICK i : i = jobs[worker.key].id
        OBVIOUS
      <4>2. worker'.id = i
        BY <2>4, <3>2, <4>1 DEF BeginRefine, WorkerJob
      <4>3. OwnCommand(Call("holder", UpdateKey(i, r)))'
        BY <3>2, <4>2 DEF OwnCommand, Call, UpdateKey
      <4> QED BY <2>1, <3>2, <4>1, <4>3, QuietSubmits
    <3> QED BY <2>4, <3>1, <3>2 DEF BeginRefine, channel
  <2> QED BY <1>8, <2>2, <2>3, <2>4 DEF WorkerLocking
<1>9. CASE WriterStep
  <2>1. commands # <<>> /\ commands' = Tail(commands) /\ mutex' = mutex /\ worker' = worker
    BY <1>9 DEF WriterStep, WriterApply, WriterReject
  <2>2. /\ DOMAIN commands = 1 .. Len(commands) /\ Len(commands) \in Nat \ {0}
        /\ DOMAIN commands' = 1 .. (Len(commands) - 1)
        /\ \A n \in DOMAIN commands' : commands'[n] = commands[n + 1]
    BY <2>1, HeadTailProperties DEF TypeOK
  <2> QED BY <2>1, <2>2 DEF CommandsOwn, OwnCommand
<1>10. ASSUME NEW c \in Callers, Timeout(c) PROVE CommandsOwn'
  <2>1. c = "holder" /\ mutex.op # "refining" /\ mutex' = mutex /\ worker' = worker
    BY <1>10 DEF Timeout, Callers
  <2>2. /\ DOMAIN commands' = DOMAIN commands
        /\ \A n \in DOMAIN commands :
              IF commands[n].caller = "holder"
              THEN commands'[n] = [commands[n] EXCEPT !.caller = "nobody"]
              ELSE commands'[n] = commands[n]
    BY <1>10, <2>1 DEF Timeout
  <2>3. ASSUME NEW n \in DOMAIN commands'
        PROVE  \E o : o = commands'[n] /\ OwnCommand(o)'
    <3>1. PICK x \in Command : x = commands[n]
      BY <2>2, <2>3 DEF TypeOK
    <3>2. OwnCommand(x)
      BY <2>2, <3>1 DEF CommandsOwn
    <3>3. commands'[n] = IF x.caller = "holder" THEN [x EXCEPT !.caller = "nobody"] ELSE x
      BY <2>2, <3>1
    <3>4. commands'[n].kind # "rekey" /\ commands'[n].caller # "holder"
      BY <2>1, <3>1, <3>2, <3>3 DEF OwnCommand, Command
    <3> QED BY <3>4, UnboundOwn DEF Unbound
  <2> QED BY <2>3 DEF CommandsOwn
<1>11. CASE Restart
  BY <1>11 DEF Restart, CommandsOwn
<1>12. CASE UNCHANGED vars
  BY <1>12, OwnStays DEF vars, channel
<1> QED BY <1>4, <1>5, <1>6, <1>7, <1>8, <1>9, <1>10, <1>11, <1>12 DEF Next

(* The keys of the rows *)

\* A step that touches neither the table nor a refinement, and makes no job
\* unfinished or failed that was not.
LEMMA RowsStay ==
    ASSUME RowsKeyed, index' = index,
           \A k \in Keys :
              jobs'[k].state \in {"queued", "running", "failed"} =>
                 /\ jobs[k].state \in {"queued", "running", "failed"}
                 /\ jobs'[k].id = jobs[k].id,
           mutex.op = "refining" =>
              /\ mutex' = mutex /\ reply'["holder"] = reply["holder"]
              /\ worker'.key = worker.key /\ worker'.id = worker.id,
           mutex'.op = "refining" => mutex.op = "refining",
           mutex'.op = "inserting" /\ reply'["holder"] = "ok" =>
              mutex' = mutex /\ reply["holder"] = "ok"
    PROVE  RowsKeyed'
BY DEF RowsKeyed

LEMMA HolderRowsKeyed ==
    ASSUME IInv, RowsKeyed, HolderStep PROVE RowsKeyed'
<1> USE DEF IInv
<1>1. /\ jobs \in [Keys -> Job] /\ reply \in [Callers -> {"none", "waiting", "ok", "error"}]
      /\ worker \in [pc : Stages, key : Keys \cup {NoKey}, id : Ids \cup {NoId}, ok : BOOLEAN]
  BY DEF TypeOK
<1>2. ASSUME NEW k, Insert(k)
      PROVE  mutex'.op = "inserting" /\ reply'["holder"] # "ok"
    BY <1>1, <1>2 DEF Insert, Submit, Callers
<1>3. CASE StaleRemoved
  <2>1. /\ index' = index /\ mutex.op = "removing" /\ mutex'.op \in {"checking", "free"}
        /\ jobs' = jobs \/ jobs' = [jobs EXCEPT ![mutex.key] = NoJob]
    BY <1>3 DEF StaleRemoved, Release, Free
  <2> QED BY <1>1, <2>1, RowsStay DEF NoJob
<1>4. CASE CheckCapacity
  <2>1. /\ index' = index /\ mutex.op = "checking" /\ mutex'.op # "refining"
        /\ mutex'.op = "inserting" => reply'["holder"] # "ok"
    BY <1>2, <1>4 DEF CheckCapacity, Release, Free
  <2>2. jobs' = jobs \/ \E v \in Keys : jobs' = [jobs EXCEPT ![v] = NoJob]
    BY <1>4 DEF CheckCapacity
  <2> QED BY <1>1, <2>1, <2>2, RowsStay DEF NoJob
<1>5. CASE VictimRemoved
  <2>1. /\ index' = index /\ mutex.op = "evicting" /\ mutex'.op # "refining" /\ jobs' = jobs
        /\ mutex'.op = "inserting" => reply'["holder"] # "ok"
    BY <1>2, <1>5 DEF VictimRemoved, Release, Free
  <2> QED BY <2>1, RowsStay
<1>6. CASE Inserted
  <2>1. index' = index /\ mutex.op = "inserting" /\ mutex'.op = "free"
    BY <1>6 DEF Inserted, Release, Free
  <2>2. CASE jobs' = jobs
    BY <2>1, <2>2, RowsStay
  <2>3. CASE reply["holder"] = "ok" /\ Enqueue(mutex.key, mutex.id)
    <3>1. jobs' = [jobs EXCEPT ![mutex.key] = [id |-> mutex.id, state |-> "queued"]]
      BY <2>3 DEF Enqueue
    <3>2. index[mutex.id].key = mutex.key /\ mutex.key \in Keys
      BY <2>1, <2>3 DEF RowsKeyed, HolderJob
    <3>3. \A k \in Keys : jobs'[k].state \in {"queued", "running", "failed"}
                              => index'[jobs'[k].id].key = k
      BY <1>1, <2>1, <3>1, <3>2 DEF RowsKeyed
    <3> QED BY <2>1, <3>3 DEF RowsKeyed
  <2> QED BY <1>6, <2>2, <2>3 DEF Inserted, memory
<1>7. CASE Retried
  <2>1. index' = index /\ mutex.op = "retrying" /\ mutex'.op = "free"
    BY <1>7 DEF Retried, Release, Free
  <2>2. jobs[mutex.key].state = "failed" /\ mutex.key \in Keys
    BY <2>1 DEF HolderJob
  <2>3. \/ jobs' = jobs
        \/ jobs' = [jobs EXCEPT ![mutex.key] = [id |-> jobs[mutex.key].id, state |-> "queued"]]
    BY <1>7 DEF Retried, Enqueue
  <2>4. \A k \in Keys :
           jobs'[k].state \in {"queued", "running", "failed"} =>
              jobs[k].state \in {"queued", "running", "failed"} /\ jobs'[k].id = jobs[k].id
    BY <1>1, <2>2, <2>3
  <2> QED BY <2>1, <2>4, RowsStay
<1>8. CASE Refined
  <2>1. /\ index' = index /\ mutex.op = "refining" /\ mutex'.op = "free"
        /\ jobs[worker.key].state = "running" /\ jobs[worker.key].id = worker.id
        /\ worker.key \in Keys /\ mutex.key \in Keys /\ jobs[mutex.key].state = "none"
    BY <1>8 DEF Refined, Release, Free, HolderJob, WorkerJob
  <2>2. CASE reply["holder"] = "ok"
    <3>1. jobs' = [jobs EXCEPT ![mutex.key] = jobs[worker.key], ![worker.key] = NoJob]
      BY <1>8, <2>2 DEF Refined, Rekey
    <3>2. index[worker.id].key = mutex.key
      BY <2>1, <2>2 DEF RowsKeyed
    <3>3. \A k \in Keys : jobs'[k].state \in {"queued", "running", "failed"}
                              => index'[jobs'[k].id].key = k
      BY <1>1, <2>1, <3>1, <3>2 DEF RowsKeyed, NoJob
    <3> QED BY <2>1, <3>3 DEF RowsKeyed
  <2>3. CASE reply["holder"] # "ok"
    <3>1. jobs' = jobs
      BY <1>8, <2>3 DEF Refined
    <3>2. index[worker.id].key = worker.key
      BY <2>1, <2>3 DEF RowsKeyed
    <3>3. \A k \in Keys : jobs'[k].state \in {"queued", "running", "failed"}
                              => index'[jobs'[k].id].key = k
      BY <1>1, <2>1, <3>1, <3>2 DEF RowsKeyed
    <3> QED BY <2>1, <3>3 DEF RowsKeyed
  <2> QED BY <2>2, <2>3
<1> QED BY <1>3, <1>4, <1>5, <1>6, <1>7, <1>8 DEF HolderStep

LEMMA WorkerRowsKeyed ==
    ASSUME IInv, RowsKeyed, WorkerAlone \/ WorkerLocking PROVE RowsKeyed'
<1> USE DEF IInv
<1>1. /\ jobs \in [Keys -> Job] /\ reply \in [Callers -> {"none", "waiting", "ok", "error"}]
      /\ worker \in [pc : Stages, key : Keys \cup {NoKey}, id : Ids \cup {NoId}, ok : BOOLEAN]
  BY DEF TypeOK
<1>2. CASE WorkerAlone
  <2>1. /\ jobs' = jobs /\ index' = index /\ mutex' = mutex
        /\ worker'.key = worker.key /\ worker'.id = worker.id
    BY <1>1, <1>2 DEF WorkerAlone, StartSync, SyncSucceeds, SyncFails, LeaveKey,
                      PersistOutcome, memory
  <2>2. reply'["holder"] = reply["holder"]
    BY <1>1, <1>2 DEF WorkerAlone, StartSync, SyncSucceeds, SyncFails, LeaveKey,
                      PersistOutcome, Clear, Submit, Callers, channel
  <2> QED BY <2>1, <2>2, RowsStay
<1>3. CASE TakeJob \/ PersistRunning \/ RefuseSync \/ FinishJob
  <2>1. index' = index /\ mutex' = mutex /\ mutex.op = "free"
    BY <1>3 DEF TakeJob, PersistRunning, RefuseSync, FinishJob, Unlocked, Free
  <2>2. \A k \in Keys :
           jobs'[k].state \in {"queued", "running", "failed"} =>
              jobs[k].state \in {"queued", "running", "failed"} /\ jobs'[k].id = jobs[k].id
    <3>1. CASE TakeJob
      <4>1. /\ jobs' = [jobs EXCEPT ![Head(ready)].state = "running"]
            /\ Head(ready) \in Keys /\ jobs[Head(ready)].state = "queued"
        BY <3>1, HeadTailProperties DEF TakeJob, TypeOK, ReadyQueueExact, Elements, Waiting
      <4> QED BY <1>1, <4>1 DEF Job
    <3>2. CASE PersistRunning
      BY <3>2 DEF PersistRunning, memory
    <3>3. CASE RefuseSync \/ FinishJob
      <4>1. worker.key \in Keys /\ jobs[worker.key].state = "running"
        BY <3>3 DEF RefuseSync, FinishJob, WorkerJob
      <4>2. \E s : jobs' = [jobs EXCEPT ![worker.key].state = s]
        BY <3>3 DEF RefuseSync, FinishJob
      <4> QED BY <1>1, <4>1, <4>2 DEF Job
    <3> QED BY <1>3, <3>1, <3>2, <3>3
  <2> QED BY <2>1, <2>2, RowsStay
<1>4. ASSUME NEW r \in Keys, BeginRefine(r) PROVE RowsKeyed'
  <2>1. /\ jobs' = jobs /\ index' = index /\ mutex.op = "free"
        /\ worker.key \in Keys /\ jobs[worker.key].state = "running"
        /\ jobs[worker.key].id = worker.id
    BY <1>4 DEF BeginRefine, Unlocked, Free, memory, WorkerJob
  <2>2. CASE mutex' = mutex
    BY <2>1, <2>2, RowsStay
  <2>3. CASE /\ mutex' = [op |-> "refining", key |-> r, id |-> worker.id]
             /\ Submit("holder", UpdateKey(jobs[worker.key].id, r))
             /\ worker' = worker
    <3>1. reply'["holder"] # "ok"
      BY <1>1, <2>3 DEF Submit, Callers
    <3>2. index[worker.id].key = worker.key
      BY <2>1 DEF RowsKeyed
    <3> QED BY <2>1, <2>3, <3>1, <3>2 DEF RowsKeyed
  <2> QED BY <1>4, <2>2, <2>3 DEF BeginRefine
<1> QED BY <1>2, <1>3, <1>4 DEF WorkerLocking

\* The writer changes the key of an unfinished or failed job only when it
\* answers the refinement, and gives a new row the key of its admission.
LEMMA WriterRowsKeyed ==
    ASSUME IInv, LedgerInv, CommandsOwn, RowsKeyed, WriterApply PROVE RowsKeyed'
<1> USE DEF IInv, LedgerInv
<1> PICK m : m = Head(commands)
  OBVIOUS
<1>1. /\ m \in Command /\ Accepts(m) /\ HarmlessCommand(m) /\ OwnCommand(m)
      /\ m.id \in Ids /\ index'[m.id] = Applied(m)
      /\ \A i \in Ids \ {m.id} : index'[i] = index[i]
      /\ UNCHANGED <<jobs, mutex, worker>>
      /\ Answer(m.caller, "ok")
  <2>1. /\ commands # <<>> /\ commands \in Seq(Command) /\ Accepts(m)
        /\ index' = [index EXCEPT ![m.id] = Applied(m)] /\ index \in [Ids -> Row]
        /\ Answer(m.caller, "ok")
        /\ UNCHANGED <<jobs, mutex, worker>>
    BY DEF WriterApply, TypeOK, memory
  <2>2. m \in Command /\ m = commands[1] /\ 1 \in DOMAIN commands
    BY <2>1
  <2>3. HarmlessCommand(m) /\ OwnCommand(m)
    BY <2>2 DEF Harmless, CommandsOwn
  <2> QED BY <2>1, <2>2, <2>3 DEF Command
<1>2. /\ m.caller = "holder" => reply["holder"] = "waiting" /\ reply'["holder"] = "ok"
      /\ m.caller # "holder" => reply'["holder"] = reply["holder"]
  BY <1>1 DEF HarmlessCommand, Answer, TypeOK, Callers, Command
<1>3. ASSUME NEW i \in Stored, m.kind # "rekey" \/ m.id # i, m.kind # "remove" \/ m.id # i
      PROVE  index'[i].key = index[i].key
  <2>1. CASE m.id # i
    BY <1>1, <2>1 DEF Stored
  <2>2. CASE m.id = i
    <3>1. m.kind = "state"
      BY <1>1, <1>3, <2>2 DEF Accepts, Command
    <3> QED BY <1>1, <1>3, <2>2, <3>1 DEF Applied
  <2> QED BY <2>1, <2>2
<1>4. ASSUME NEW k \in Keys, jobs[k].state \in {"queued", "running", "failed"}
      PROVE  /\ jobs[k].id \in Stored
             /\ m.kind # "remove" \/ m.id # jobs[k].id
  <2>1. jobs[k].id \in Ids
    BY <1>4 DEF JobShape, TypeOK, Job
  <2>2. CASE Succeeded(k)
    <3>1. jobs[k].state = "running"
      BY <2>2 DEF Succeeded, WorkerJob
    <3> QED BY <1>1, <1>4, <2>2, <3>1 DEF SuccessStored, HarmlessCommand
  <2>3. CASE ~Succeeded(k)
    BY <1>1, <1>4, <2>1, <2>3 DEF CrashLeavesFailed, Unfinished, Stored, HarmlessCommand
  <2> QED BY <2>2, <2>3
<1>5. ASSUME NEW k \in Keys, jobs[k].state \in {"queued", "running", "failed"},
             ~(mutex.op = "refining" /\ k = worker.key)
      PROVE  index'[jobs[k].id].key = k
  <2>1. index[jobs[k].id].key = k
    BY <1>5 DEF RowsKeyed
  <2>2. m.kind # "rekey" \/ m.id # jobs[k].id
    <3>1. SUFFICES ASSUME m.kind = "rekey" PROVE m.id # jobs[k].id
      OBVIOUS
    <3>2. mutex.op = "refining" /\ m.id = worker.id
      BY <1>1, <3>1 DEF OwnCommand
    <3>3. worker.key \in Keys /\ jobs[worker.key].id = worker.id
      BY <3>2 DEF HolderJob, WorkerJob
    <3>4. k # worker.key
      BY <1>5, <3>2
    <3> QED BY <1>5, <3>2, <3>3, <3>4 DEF JobShape
  <2> QED BY <1>3, <1>4, <1>5, <2>1, <2>2
<1>6. ASSUME mutex.op = "inserting", reply'["holder"] = "ok"
      PROVE  index'[mutex.id].key = mutex.key
  <2>1. CASE m.caller = "holder"
    <3>1. m.kind = "insert" /\ m.id = mutex.id /\ m.key = mutex.key
      BY <1>1, <1>6, <2>1 DEF HarmlessCommand, OwnCommand
    <3> QED BY <1>1, <3>1 DEF Applied
  <2>2. CASE m.caller # "holder"
    <3>1. reply["holder"] = "ok" /\ mutex.id \in Stored
      BY <1>2, <1>6, <2>2 DEF InsertDurable, Unfinished, Stored, HolderJob
    <3>2. m.id # mutex.id
      BY <1>1, <1>6, <3>1 DEF HarmlessCommand, Accepts
    <3> QED BY <1>1, <1>6, <3>1, <3>2 DEF RowsKeyed, Stored
  <2> QED BY <2>1, <2>2
<1>7. ASSUME mutex.op = "refining"
      PROVE  index'[worker.id].key = IF reply'["holder"] = "ok" THEN mutex.key
                                     ELSE worker.key
  <2>1. /\ worker.key \in Keys /\ jobs[worker.key].id = worker.id
        /\ jobs[worker.key].state = "running"
    BY <1>7 DEF HolderJob, WorkerJob
  <2>2. worker.id \in Stored /\ (m.kind # "remove" \/ m.id # worker.id)
    BY <1>4, <2>1
  <2>3. CASE m.caller = "holder"
    <3>1. m.kind = "rekey" /\ m.id = worker.id /\ m.key = mutex.key
      BY <1>1, <1>7, <2>3 DEF OwnCommand
    <3>2. index'[worker.id].key = mutex.key
      BY <1>1, <2>2, <3>1 DEF Applied
    <3> QED BY <1>2, <2>3, <3>2
  <2>4. CASE m.caller # "holder"
    <3>1. m.kind # "rekey"
      BY <1>1, <2>4 DEF OwnCommand
    <3>2. index'[worker.id].key = index[worker.id].key
      BY <1>3, <2>2, <3>1
    <3> QED BY <1>2, <1>7, <2>4, <3>2 DEF RowsKeyed
  <2> QED BY <2>3, <2>4
<1> QED BY <1>1, <1>5, <1>6, <1>7 DEF RowsKeyed

LEMMA RowsKeyedStep ==
    ASSUME ~WorkerTimesOut, IInv, LedgerInv, CommandsOwn, RowsKeyed, [Next]_vars
    PROVE  RowsKeyed'
<1> USE DEF IInv
<1>1. ASSUME NEW k \in Keys, BeginAdmit(k) PROVE RowsKeyed'
  <2>1. /\ jobs' = jobs /\ index' = index /\ mutex.op = "free"
        /\ mutex'.op \in {"checking", "removing"}
    BY <1>1 DEF BeginAdmit, memory, Unlocked, Free
  <2> QED BY <2>1, RowsStay
<1>2. ASSUME NEW i \in Ids, BeginRetry(i) PROVE RowsKeyed'
  <2>1. /\ jobs' = jobs /\ index' = index /\ mutex.op = "free"
        /\ mutex' = mutex \/ mutex'.op = "retrying"
    BY <1>2 DEF BeginRetry, memory, Unlocked, Free
  <2> QED BY <2>1, RowsStay
<1>3. CASE WriterReject
  <2>1. /\ UNCHANGED <<jobs, index, mutex, worker>> /\ commands # <<>>
        /\ Answer(Head(commands).caller, "error")
    BY <1>3 DEF WriterReject, memory
  <2>2. PICK m \in Command : m = Head(commands) /\ HarmlessCommand(m)
    <3>1. commands \in Seq(Command)
      BY DEF TypeOK
    <3>2. Head(commands) = commands[1] /\ 1 \in DOMAIN commands /\ commands[1] \in Command
      BY <2>1, <3>1
    <3> QED BY <3>2 DEF Harmless
  <2>3. \/ reply'["holder"] = reply["holder"]
        \/ reply["holder"] = "waiting" /\ reply'["holder"] = "error"
    BY <2>1, <2>2 DEF HarmlessCommand, Answer, TypeOK, Callers, Command
  <2> QED BY <2>1, <2>3 DEF RowsKeyed
<1>4. ASSUME NEW c \in Callers, Timeout(c) PROVE RowsKeyed'
  <2>1. /\ UNCHANGED <<jobs, index, mutex, worker>> /\ mutex.op # "refining"
        /\ reply[c] = "waiting" /\ reply' = [reply EXCEPT ![c] = "error"]
    BY <1>4 DEF Timeout, memory
  <2>2. reply'["holder"] = "ok" => reply["holder"] = "ok"
    BY <2>1 DEF TypeOK, Callers
  <2> QED BY <2>1, <2>2, RowsStay
<1>5. CASE Restart
  <2>1. mutex'.op = "free"
    BY <1>5 DEF Restart, Free
  <2>2. \A k \in Keys : jobs'[k].state # "none" => index'[jobs'[k].id].key = k
    BY <1>5, RestartJobs
  <2> QED BY <2>1, <2>2 DEF RowsKeyed
<1>6. CASE UNCHANGED vars
  BY <1>6, RowsStay DEF vars
<1> QED
  BY <1>1, <1>2, <1>3, <1>4, <1>5, <1>6, HolderRowsKeyed, WorkerRowsKeyed, WriterRowsKeyed
     DEF Next, WriterStep

(* The uncertain keys *)

\* A step of another thread, which leaves failed and running jobs alone.
LEMMA UncertainStays ==
    ASSUME UncertainFails, worker' = worker, uncertain' \subseteq uncertain,
           \A k \in uncertain' : jobs[k].state = "failed" => jobs'[k].state = "failed"
    PROVE  UncertainFails'
BY DEF UncertainFails

\* A restart finds the row of an uncertain key under that key, and fails it.
LEMMA RestartUncertain ==
    ASSUME IInv, LedgerInv, RowsKeyed, UncertainFails, Restart PROVE UncertainFails'
<1> USE DEF IInv
<1>1. uncertain' = uncertain /\ worker' = Idle
  BY DEF Restart
<1>2. ASSUME NEW k \in uncertain PROVE jobs'[k].state = "failed"
  <2>1. /\ k \in Keys /\ jobs[k].state \in {"running", "failed"} /\ ~Succeeded(k)
        /\ ~(mutex.op = "refining" /\ k = worker.key)
    <3>1. k \in Keys
      BY DEF TypeOK
    <3>2. CASE jobs[k].state = "failed"
      BY <3>1, <3>2 DEF WorkerJob, HolderJob, Succeeded
    <3>3. CASE worker.key = k /\ ~worker.ok /\ worker.pc \in {"syncing", "closing", "finishing"}
      BY <3>1, <3>3 DEF WorkerJob, HolderJob, Succeeded
    <3> QED BY <1>2, <3>2, <3>3 DEF UncertainFails
  <2>2. /\ jobs[k].id \in Ids /\ Unfinished(jobs[k].id)
        /\ jobs[k].id \in Stored /\ index[jobs[k].id].key = k
    BY <2>1 DEF CrashLeavesFailed, RowsKeyed, Unfinished, Stored, JobShape, TypeOK, Job
  <2>3. jobs'[k].state # "none"
    BY <2>1, <2>2, RestartJobs
  <2>4. /\ jobs'[k].id \in Ids /\ index[jobs'[k].id].key = k
        /\ jobs'[k].state = index'[jobs'[k].id].state
    BY <2>1, <2>3, RestartJobs
  <2>5. jobs'[k].id \in Stored
    BY <2>3, <2>4, RestartJobs DEF Stored
  <2>6. jobs'[k].id = jobs[k].id
    BY <2>2, <2>4, <2>5 DEF LedgerInv, KeysStored
  <2>7. index' = [i \in Ids |-> Recovered(index[i])]
    BY DEF Restart
  <2> QED BY <2>2, <2>4, <2>6, <2>7 DEF Recovered, Unfinished, Pending, TypeOK, Row
<1> QED BY <1>1, <1>2 DEF UncertainFails, Idle

LEMMA UncertainStep ==
    ASSUME IInv, LedgerInv, RowsKeyed, UncertainFails, [Next]_vars PROVE UncertainFails'
<1> USE DEF IInv
<1>1. /\ jobs \in [Keys -> Job] /\ uncertain \subseteq Keys
      /\ worker \in [pc : Stages, key : Keys \cup {NoKey}, id : Ids \cup {NoId}, ok : BOOLEAN]
  BY DEF TypeOK
<1>2. ASSUME NEW k \in Keys, BeginAdmit(k) PROVE UncertainFails'
  BY <1>2, UncertainStays DEF BeginAdmit, memory
<1>3. ASSUME NEW i \in Ids, BeginRetry(i) PROVE UncertainFails'
  BY <1>3, UncertainStays DEF BeginRetry, memory
<1>4. CASE HolderStep
  <2>1. CASE StaleRemoved
    <3>1. /\ worker' = worker /\ uncertain' = uncertain
          /\ jobs' = jobs \/ jobs' = [jobs EXCEPT ![mutex.key] = NoJob]
          /\ jobs[mutex.key].state = "ready"
      BY <2>1 DEF StaleRemoved, HolderJob
    <3> QED BY <1>1, <3>1, UncertainStays
  <2>2. CASE CheckCapacity
    <3>1. /\ worker' = worker /\ uncertain' = uncertain
          /\ \/ jobs' = jobs
             \/ \E v \in Keys : jobs[v].state = "ready" /\ jobs' = [jobs EXCEPT ![v] = NoJob]
      BY <2>2 DEF CheckCapacity, Evictable
    <3> QED BY <1>1, <3>1, UncertainStays
  <2>3. CASE VictimRemoved
    BY <2>3, UncertainStays DEF VictimRemoved
  <2>4. CASE Inserted
    <3>1. /\ worker' = worker /\ uncertain' = uncertain
          /\ jobs[mutex.key].state = "none"
          /\ \/ jobs' = jobs
             \/ jobs' = [jobs EXCEPT ![mutex.key] = [id |-> mutex.id, state |-> "queued"]]
      BY <2>4 DEF Inserted, HolderJob, Enqueue, memory
    <3> QED BY <1>1, <3>1, UncertainStays
  <2>5. CASE Retried
    <3>1. /\ worker' = worker
          /\ \/ jobs' = jobs /\ uncertain' = uncertain
             \/ /\ jobs' = [jobs EXCEPT ![mutex.key] =
                               [id |-> jobs[mutex.key].id, state |-> "queued"]]
                /\ uncertain' = uncertain \ {mutex.key}
      BY <2>5 DEF Retried, Enqueue
    <3> QED BY <1>1, <3>1, UncertainStays
  <2>6. CASE Refined
    <3>1. /\ worker.pc = "refining" /\ jobs[worker.key].state = "running"
          /\ jobs[mutex.key].state = "none" /\ uncertain' = uncertain
          /\ worker'.pc = "closing"
          /\ jobs' = jobs \/ jobs' = [jobs EXCEPT ![mutex.key] = jobs[worker.key],
                                                  ![worker.key] = NoJob]
      BY <1>1, <2>6 DEF Refined, HolderJob, WorkerJob, Rekey
    <3>2. \A k \in uncertain : jobs[k].state = "failed"
      BY <3>1 DEF UncertainFails
    <3>3. \A k \in uncertain : jobs'[k].state = "failed"
      BY <1>1, <3>1, <3>2
    <3> QED BY <3>1, <3>3 DEF UncertainFails
  <2> QED BY <1>4, <2>1, <2>2, <2>3, <2>4, <2>5, <2>6 DEF HolderStep
<1>5. CASE WorkerAlone
  <2>1. jobs' = jobs /\ worker'.key = worker.key /\ worker.key \in Keys
    BY <1>1, <1>5 DEF WorkerAlone, StartSync, SyncSucceeds, SyncFails, LeaveKey,
                      PersistOutcome, memory, WorkerJob
  <2>2. CASE StartSync
    <3>1. /\ worker.pc = "starting" /\ worker'.pc = "syncing" /\ worker'.ok = worker.ok
          /\ uncertain' = uncertain \cup {worker.key}
      BY <1>1, <2>2 DEF StartSync
    <3> QED BY <1>1, <2>1, <3>1 DEF UncertainFails
  <2>3. CASE SyncSucceeds
    <3>1. worker.pc = "syncing" /\ worker'.pc = "refining" /\ uncertain' = uncertain \ {worker.key}
      BY <1>1, <2>3 DEF SyncSucceeds
    <3> QED BY <2>1, <3>1 DEF UncertainFails
  <2>4. CASE SyncFails \/ PersistOutcome
    <3>1. /\ worker.pc \in {"syncing", "closing"} /\ worker'.pc \in {"closing", "finishing"}
          /\ worker'.ok = worker.ok /\ uncertain' = uncertain
      BY <1>1, <2>4 DEF SyncFails, PersistOutcome
    <3> QED BY <2>1, <3>1 DEF UncertainFails
  <2>5. CASE LeaveKey
    <3>1. worker.pc = "refining" /\ worker'.pc = "closing" /\ uncertain' = uncertain
      BY <1>1, <2>5 DEF LeaveKey
    <3> QED BY <2>1, <3>1 DEF UncertainFails
  <2> QED BY <1>5, <2>2, <2>3, <2>4, <2>5 DEF WorkerAlone
<1>6. CASE WorkerLocking
  <2>1. uncertain' = uncertain
    BY <1>6 DEF WorkerLocking, TakeJob, PersistRunning, RefuseSync, BeginRefine, FinishJob
  <2>2. CASE TakeJob
    <3>1. /\ jobs' = [jobs EXCEPT ![Head(ready)].state = "running"]
          /\ Head(ready) \in Keys /\ jobs[Head(ready)].state = "queued"
          /\ worker.pc = "idle" /\ worker'.pc = "taken" /\ ~worker'.ok
      BY <2>2, HeadTailProperties DEF TakeJob, TypeOK, ReadyQueueExact, Elements, Waiting, Idle
    <3> QED BY <1>1, <2>1, <3>1 DEF UncertainFails
  <2>3. CASE PersistRunning
    <3>1. /\ jobs' = jobs /\ worker.pc = "taken" /\ worker'.pc = "starting"
          /\ worker'.ok = worker.ok
      BY <1>1, <2>3 DEF PersistRunning, memory
    <3> QED BY <2>1, <3>1 DEF UncertainFails
  <2>4. CASE RefuseSync
    <3>1. /\ jobs' = [jobs EXCEPT ![worker.key].state = "failed"] /\ worker.pc = "starting"
          /\ worker' = Idle
      BY <2>4 DEF RefuseSync
    <3> QED BY <1>1, <2>1, <3>1 DEF UncertainFails, Idle, Job
  <2>5. ASSUME NEW r \in Keys, BeginRefine(r) PROVE UncertainFails'
    <3>1. /\ jobs' = jobs /\ worker.pc = "refining" /\ worker'.pc \in {"refining", "closing"}
      BY <1>1, <2>5 DEF BeginRefine, memory
    <3> QED BY <2>1, <3>1 DEF UncertainFails
  <2>6. CASE FinishJob
    <3>1. /\ worker.pc = "finishing" /\ worker' = Idle
          /\ worker.key \in Keys /\ jobs[worker.key].state = "running"
          /\ jobs' = [jobs EXCEPT ![worker.key].state =
                         IF jobs[worker.key].state = "none" THEN jobs[worker.key].state
                         ELSE Outcome]
      BY <2>6 DEF FinishJob, WorkerJob
    <3>2. ~worker.ok => Outcome = "failed"
      BY DEF Outcome
    <3>3. \A k \in uncertain : jobs'[k].state = "failed"
      BY <1>1, <3>1, <3>2 DEF UncertainFails, Job
    <3> QED BY <2>1, <3>1, <3>3 DEF UncertainFails, Idle
  <2> QED BY <1>6, <2>2, <2>3, <2>4, <2>5, <2>6 DEF WorkerLocking
<1>7. CASE WriterStep
  BY <1>7, UncertainStays DEF WriterStep, WriterApply, WriterReject, memory
<1>8. ASSUME NEW c \in Callers, Timeout(c) PROVE UncertainFails'
  BY <1>8, UncertainStays DEF Timeout, memory
<1>9. CASE Restart
  BY <1>9, RestartUncertain
<1>10. CASE UNCHANGED vars
  BY <1>10, UncertainStays DEF vars
<1> QED BY <1>2, <1>3, <1>4, <1>5, <1>6, <1>7, <1>8, <1>9, <1>10 DEF Next

(* The theorem *)

\* Work begins in one step, and never for an uncertain key.
LEMMA StartIsCertain ==
    ASSUME IInv, UncertainFails, [Next]_vars, worker.pc # "syncing", worker'.pc = "syncing"
    PROVE  worker'.key \notin uncertain
<1> USE DEF IInv
<1>1. worker \in [pc : Stages, key : Keys \cup {NoKey}, id : Ids \cup {NoId}, ok : BOOLEAN]
  BY DEF TypeOK
<1>2. StartSync
  <2>1. ASSUME NEW k \in Keys, BeginAdmit(k) PROVE worker' = worker
    BY <2>1 DEF BeginAdmit
  <2>2. ASSUME NEW i \in Ids, BeginRetry(i) PROVE worker' = worker
    BY <2>2 DEF BeginRetry
  <2>3. ASSUME HolderStep PROVE worker'.pc # "syncing"
    <3>1. CASE Refined
      BY <1>1, <3>1 DEF Refined
    <3> QED BY <2>3, <3>1 DEF HolderStep, StaleRemoved, CheckCapacity, VictimRemoved,
                              Inserted, Retried
  <2>4. ASSUME WorkerAlone PROVE StartSync
    BY <1>1, <2>4 DEF WorkerAlone, SyncSucceeds, SyncFails, LeaveKey, PersistOutcome
  <2>5. ASSUME WorkerLocking PROVE worker'.pc # "syncing"
    <3>1. CASE TakeJob \/ RefuseSync \/ FinishJob
      <4>1. CASE TakeJob
        BY <4>1 DEF TakeJob, Idle
      <4>2. CASE RefuseSync \/ FinishJob
        <5>1. worker' = Idle
          BY <4>2 DEF RefuseSync, FinishJob
        <5> QED BY <5>1 DEF Idle
      <4> QED BY <3>1, <4>1, <4>2
    <3>2. CASE PersistRunning
      <4>1. worker' = [worker EXCEPT !.pc = "starting", !.id = jobs[worker.key].id]
        BY <3>2 DEF PersistRunning
      <4> QED BY <1>1, <4>1
    <3>3. ASSUME NEW r \in Keys, BeginRefine(r) PROVE worker'.pc # "syncing"
      <4>1. worker' = [worker EXCEPT !.pc = "closing"] \/ worker' = worker
        BY <3>3 DEF BeginRefine
      <4>2. worker.pc = "refining"
        BY <3>3 DEF BeginRefine
      <4> QED BY <1>1, <4>1, <4>2
    <3> QED BY <2>5, <3>1, <3>2, <3>3 DEF WorkerLocking
  <2>6. ASSUME WriterStep PROVE worker' = worker
    BY <2>6 DEF WriterStep, WriterApply, WriterReject
  <2>7. ASSUME NEW c \in Callers, Timeout(c) PROVE worker' = worker
    BY <2>7 DEF Timeout
  <2>8. ASSUME Restart PROVE worker'.pc # "syncing"
    BY <2>8 DEF Restart, Idle
  <2> QED BY <2>1, <2>2, <2>3, <2>4, <2>5, <2>6, <2>7, <2>8 DEF Next, vars
<1>3. worker.pc = "starting" /\ worker'.key = worker.key /\ jobs[worker.key].state = "running"
  BY <1>1, <1>2 DEF StartSync, WorkerJob
<1> QED BY <1>3 DEF UncertainFails

LEMMA StepReplayInv ==
    ASSUME ~WorkerTimesOut, IInv, LedgerInv, ReplayInv, [Next]_vars PROVE ReplayInv'
BY CommandsOwnStep, RowsKeyedStep, UncertainStep DEF ReplayInv

\* For every instance whose worker waits as long as the writer needs, work that
\* failed or was cut short runs again only after a retry: no lost, rejected or
\* late write, no admission, refinement or crash replays it.
THEOREM NoReplay == ASSUME ~WorkerTimesOut PROVE Spec => NoImplicitReplay
<1>1. Init => ReplayInv
  <2> SUFFICES ASSUME Init PROVE ReplayInv
    OBVIOUS
  <2>1. CommandsOwn /\ RowsKeyed
    BY DEF Init, CommandsOwn, RowsKeyed, NoJob, Free
  <2>2. UncertainFails
    BY DEF Init, UncertainFails, Idle
  <2> QED BY <2>1, <2>2 DEF ReplayInv
<1>2. IInv /\ LedgerInv /\ ReplayInv /\ [Next]_vars => ReplayInv'
  BY StepReplayInv
<1>3. IInv /\ ReplayInv /\ [Next]_vars =>
         [worker.pc # "syncing" /\ worker'.pc = "syncing"
             => worker'.key \notin uncertain]_vars
  BY StartIsCertain DEF ReplayInv
<1> QED
  BY <1>1, <1>2, <1>3, InductiveInvariant, LedgerInvariant, PTL DEF Spec, NoImplicitReplay
=============================================================================

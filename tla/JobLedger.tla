----------------------------- MODULE JobLedger -----------------------------
(***************************************************************************)
(* What the indexing coordinator promises of a job, whatever becomes of    *)
(* its key, its queue, the writer and the process: a client that holds the *)
(* id of a job sees it go through these states.  The promise ends when the *)
(* job is evicted and its row cannot be removed: until the process ends,   *)
(* its id shows nothing or another job.  IndexJobs implements it.          *)
(***************************************************************************)
CONSTANT Ids

VARIABLES
    state,  \* what status says of the id
    lost    \* the ids of jobs whose eviction was not finished

vars == <<state, lost>>

Unknown == "none"

Init == state = [i \in Ids |-> Unknown] /\ lost = {}

\* The ids a client can rely on that a step leaves alone.
Others(i) == \A j \in Ids \ (lost' \cup {i}) : state'[j] = state[j]

Goes(i, s) ==
    /\ i \notin lost /\ lost' = lost
    /\ state'[i] = s
    /\ Others(i)

Admit(i) == state[i] = Unknown /\ Goes(i, "queued")

\* One job runs at a time.
Start(i) ==
    /\ state[i] = "queued"
    /\ \A j \in Ids \ lost : state[j] # "running"
    /\ Goes(i, "running")

End(i) ==
    /\ state[i] = "running"
    /\ Goes(i, "ready") \/ Goes(i, "failed")

\* Only by the request of a client.
Retry(i) == state[i] = "failed" /\ Goes(i, "queued")

\* Only the result of a job that was published is forgotten, when its row is
\* gone ...
Forget(i) == state[i] = "ready" /\ Goes(i, Unknown)

\* ... or to make room, before its row is.
Evict(i) ==
    /\ state[i] = "ready" /\ i \notin lost
    /\ lost' = lost \cup {i}
    /\ state'[i] = Unknown
    /\ Others(i)
Evicted(i) ==
    /\ i \in lost
    /\ lost' = lost \ {i}
    /\ state'[i] = Unknown
    /\ Others(i)

\* What a lost id shows changes with a job that is not its own.
Drift == lost' = lost /\ \A j \in Ids \ lost : state'[j] = state[j]

\* A lost id shows nothing, or what the id of another job shows.
Borrowed ==
    \A i \in lost : state[i] = Unknown \/ \E j \in Ids \ lost : state[i] = state[j]

\* The process ends and another one starts.  Unfinished work is failed, and
\* failed work stays so; a published result may be forgotten, or its job be
\* taken for failed; a job that was given up while the process ran, or lost,
\* may be back.
AfterCrash(i) ==
    CASE i \notin lost /\ state[i] \in {"queued", "failed"} -> {"failed"}
      [] i \notin lost /\ state[i] = "running" -> {"failed", "ready"}
      [] OTHER -> {Unknown, "ready", "failed"}

Crash == lost' = {} /\ \A i \in Ids : state'[i] \in AfterCrash(i)

Next ==
    /\ \/ \E i \in Ids : Admit(i) \/ Start(i) \/ End(i) \/ Retry(i) \/ Forget(i)
       \/ \E i \in Ids : Evict(i) \/ Evicted(i)
       \/ Drift
       \/ Crash
    /\ state' \in [Ids -> {Unknown, "queued", "running", "ready", "failed"}]
    /\ Borrowed'

Spec == Init /\ [][Next]_vars
=============================================================================

------------------------------ MODULE Startup ------------------------------
(***************************************************************************)
(* How clients find or start the one service of a home: ensure_service,    *)
(* the startup lock (a file with its owner's name, zmem-svc lib.rs), the   *)
(* service owner (an OS lock that dies with its process) and the state     *)
(* file, with the daemons that serve() makes of the started processes.     *)
(*                                                                         *)
(* The startup lock is not exclusive: it is taken for stale by its age     *)
(* alone, and removed by its name after it was read.  All processes may    *)
(* die at any step.  Deadlines are steps that may happen at any time.      *)
(***************************************************************************)
EXTENDS Integers, FiniteSets

CONSTANTS
    Clients,   \* zmem commands that need the service, each once
    Probers,   \* status and stop commands, which look at the owner lock
    Daemons,   \* the processes they may start
    Nobody

ASSUME ConstantsAssumption ==
    /\ Clients \cap Probers = {} /\ Clients \cap Daemons = {}
    /\ Probers \cap Daemons = {} /\ Nobody \notin Clients \cup Probers \cup Daemons
    /\ IsFiniteSet(Clients) /\ IsFiniteSet(Daemons)
    /\ Cardinality(Daemons) >= Cardinality(Clients)

VARIABLES
    at,       \* where the client is in ensure_service
    phase,    \* which of its healthy_state calls it makes
    seen,     \* the state record that it read
    result,   \* what it returns
    lock,     \* service-start.lock: who created it, and whether it is old
    owner,    \* holder of service-owner.lock
    state,    \* service.json: the daemon it names
    daemon    \* the daemon processes

client == <<at, phase, seen, result>>
vars   == <<client, lock, owner, state, daemon>>

NoLock == [by |-> Nobody, old |-> FALSE]
Owning == {"owner", "serving", "stopping", "removing", "exiting"}

Init ==
    /\ at = [c \in Clients |-> "read"] /\ phase = [c \in Clients |-> "first"]
    /\ seen = [c \in Clients |-> Nobody] /\ result = [c \in Clients |-> Nobody]
    /\ lock = NoLock /\ owner = Nobody /\ state = Nobody
    /\ daemon = [d \in Daemons |-> "none"]
-----------------------------------------------------------------------------
(* Clients *)

Goto(c, place) == at' = [at EXCEPT ![c] = place]
EndWith(c, r) ==
    /\ result' = [result EXCEPT ![c] = r]
    /\ Goto(c, IF phase[c] = "first" THEN "done" ELSE "inspect")
    /\ UNCHANGED phase

\* healthy_state reads the record first ...
ReadState(c) ==
    /\ at[c] = "read"
    /\ seen' = [seen EXCEPT ![c] = state]
    /\ Goto(c, "ping")
    /\ UNCHANGED <<phase, result, lock, owner, state, daemon>>

\* ... and then asks the daemon it names.
Ping(c) ==
    /\ at[c] = "ping"
    /\ IF seen[c] # Nobody /\ daemon[seen[c]] = "serving" THEN EndWith(c, seen[c])
       ELSE /\ Goto(c, CASE phase[c] = "first"   -> "lock"
                         [] phase[c] = "locked"  -> "probe"
                         [] phase[c] = "spawned" -> "read")
            /\ UNCHANGED <<phase, result>>
    /\ UNCHANGED <<seen, lock, owner, state, daemon>>

\* Faulty variant, to show that the properties notice it: the wait for the
\* started daemon has no deadline of its own.
ExpireLock(c) ==
    /\ at[c] = "lock" /\ lock # NoLock /\ ~lock.old
    /\ EndWith(c, "timeout")
    /\ UNCHANGED <<seen, lock, owner, state, daemon>>

\* The deadlines: of a lock that is there and not stale, and of the started
\* daemon.  A failed ping alone ends nothing.
Expire(c) ==
    /\ \/ at[c] = "lock" /\ lock # NoLock /\ ~lock.old
       \/ at[c] = "read" /\ phase[c] = "spawned"
    /\ EndWith(c, "timeout")
    /\ UNCHANGED <<seen, lock, owner, state, daemon>>

\* An error of the file system or of spawn().
Fail(c) ==
    /\ at[c] \in {"lock", "probe", "spawn"}
    /\ EndWith(c, "error")
    /\ UNCHANGED <<seen, lock, owner, state, daemon>>

\* StartupLock::acquire: create the file, or look at the record in it.
Create(c) ==
    /\ at[c] = "lock" /\ lock = NoLock
    /\ lock' = [by |-> c, old |-> FALSE]
    /\ phase' = [phase EXCEPT ![c] = "locked"] /\ Goto(c, "read")
    /\ UNCHANGED <<seen, result, owner, state, daemon>>

FindStale(c) ==
    /\ at[c] = "lock" /\ lock # NoLock /\ lock.old
    /\ Goto(c, "remove")
    /\ UNCHANGED <<phase, seen, result, lock, owner, state, daemon>>

RemoveStale(c) ==
    /\ at[c] = "remove" /\ lock' = NoLock /\ Goto(c, "lock")
    /\ UNCHANGED <<phase, seen, result, owner, state, daemon>>

\* A removal that fails is ignored.  Either way the client tries again at
\* once: past a stale lock it does not look at its deadline.
KeepStale(c) ==
    /\ at[c] = "remove" /\ Goto(c, "lock")
    /\ UNCHANGED <<phase, seen, result, lock, owner, state, daemon>>

\* is_held takes the lock and gives it back, or finds it taken.
Probe(c) ==
    /\ at[c] = "probe"
    /\ IF owner = Nobody
       THEN /\ owner' = c /\ Goto(c, "release")
            /\ UNCHANGED <<phase, result>>
       ELSE EndWith(c, "busy") /\ UNCHANGED owner
    /\ UNCHANGED <<seen, lock, state, daemon>>

Release(c) ==
    /\ at[c] = "release" /\ owner' = Nobody /\ Goto(c, "spawn")
    /\ UNCHANGED <<phase, seen, result, lock, state, daemon>>

\* There is a process left for every client: ConstantsAssumption.
Spawn(c) ==
    /\ at[c] = "spawn" /\ \E d \in Daemons : daemon[d] = "none"
    /\ LET new == CHOOSE d \in Daemons : daemon[d] = "none"
       IN  daemon' = [daemon EXCEPT ![new] = "starting"]
    /\ phase' = [phase EXCEPT ![c] = "spawned"] /\ Goto(c, "read")
    /\ UNCHANGED <<seen, result, lock, owner, state>>

\* StartupLock::drop: read the record, then remove the file if it was its own;
\* a removal that fails is ignored.
Inspect(c) ==
    /\ at[c] = "inspect"
    /\ Goto(c, IF lock.by = c THEN "unlock" ELSE "done")
    /\ UNCHANGED <<phase, seen, result, lock, owner, state, daemon>>

Unlock(c) ==
    /\ at[c] = "unlock" /\ lock' \in {NoLock, lock} /\ Goto(c, "done")
    /\ UNCHANGED <<phase, seen, result, owner, state, daemon>>

\* The client dies: its file stays, its OS lock does not.
Die(c) ==
    /\ at[c] # "done" /\ Goto(c, "done")
    /\ owner' = IF owner = c THEN Nobody ELSE owner
    /\ UNCHANGED <<phase, seen, result, lock, state, daemon>>

\* Ten seconds after its creation, whoever holds it.
GrowOld ==
    /\ lock # NoLock /\ ~lock.old /\ lock' = [lock EXCEPT !.old = TRUE]
    /\ UNCHANGED <<client, owner, state, daemon>>

\* status, when the service does not answer, and stop, until it is gone.
StartProbe(p) ==
    /\ owner = Nobody /\ owner' = p
    /\ UNCHANGED <<client, lock, state, daemon>>

EndProbe(p) ==
    /\ owner = p /\ owner' = Nobody
    /\ UNCHANGED <<client, lock, state, daemon>>
-----------------------------------------------------------------------------
(* serve() *)

Become(d, life) == daemon' = [daemon EXCEPT ![d] = life]

\* Faulty variant, to show that the properties notice it: the owner lock is
\* looked at before the start only.
OwnRegardless(d) ==
    /\ daemon[d] = "starting" /\ owner' = d /\ Become(d, "owner")
    /\ UNCHANGED <<client, lock, state>>

\* ServiceOwner::acquire, first of all and without waiting.
Own(d) ==
    /\ daemon[d] = "starting"
    /\ IF owner = Nobody THEN owner' = d /\ Become(d, "owner")
       ELSE Become(d, "ended") /\ UNCHANGED owner
    /\ UNCHANGED <<client, lock, state>>

\* The database, the writer and the listener are there: write_state.
Serve(d) ==
    /\ daemon[d] = "owner" /\ state' = d /\ Become(d, "serving")
    /\ UNCHANGED <<client, lock, owner>>

\* A stop request, or an error of the accept loop.
StopServing(d) ==
    /\ daemon[d] = "serving" /\ Become(d, "stopping")
    /\ UNCHANGED <<client, lock, owner, state>>

\* Faulty variant, to show that the properties notice it: the owner lock is
\* dropped before the state file is removed.
CheckStateReleased(d) ==
    /\ daemon[d] = "stopping"
    /\ Become(d, IF state = d THEN "removing" ELSE "exiting")
    /\ owner' = Nobody
    /\ UNCHANGED <<client, lock, state>>

\* After all threads ended: the state file, if it is still its own.
CheckState(d) ==
    /\ daemon[d] = "stopping"
    /\ Become(d, IF state = d THEN "removing" ELSE "exiting")
    /\ UNCHANGED <<client, lock, owner, state>>

RemoveState(d) ==
    /\ daemon[d] = "removing" /\ state' = Nobody /\ Become(d, "exiting")
    /\ UNCHANGED <<client, lock, owner>>

\* The process returns, fails or is killed, at any point.
Exit(d) ==
    /\ daemon[d] \notin {"none", "ended"} /\ Become(d, "ended")
    /\ owner' = IF owner = d THEN Nobody ELSE owner
    /\ UNCHANGED <<client, lock, state>>

ClientStep(c) ==
    \/ ReadState(c) \/ Ping(c) \/ Expire(c) \/ Fail(c) \/ Create(c)
    \/ FindStale(c) \/ RemoveStale(c) \/ KeepStale(c) \/ Probe(c) \/ Release(c)
    \/ Spawn(c) \/ Inspect(c) \/ Unlock(c)

Next ==
    \/ \E c \in Clients : ClientStep(c) \/ Die(c)
    \/ \E p \in Probers : StartProbe(p) \/ EndProbe(p)
    \/ GrowOld
    \/ \E d \in Daemons :
          Own(d) \/ Serve(d) \/ StopServing(d) \/ CheckState(d) \/ RemoveState(d)
             \/ Exit(d)

Spec == Init /\ [][Next]_vars

\* Clients keep running and their deadlines pass.
FairSpec ==
    Spec /\ \A c \in Clients : WF_vars(ClientStep(c)) /\ SF_vars(Expire(c))
-----------------------------------------------------------------------------
(* Properties *)

TypeOK ==
    /\ at \in [Clients -> {"read", "ping", "lock", "remove", "probe", "release",
                           "spawn", "inspect", "unlock", "done"}]
    /\ phase \in [Clients -> {"first", "locked", "spawned"}]
    /\ seen \in [Clients -> Daemons \cup {Nobody}]
    /\ result \in [Clients -> Daemons \cup {Nobody, "timeout", "error", "busy"}]
    /\ lock \in [by : Clients \cup {Nobody}, old : BOOLEAN]
    /\ owner \in Clients \cup Probers \cup Daemons \cup {Nobody}
    /\ state \in Daemons \cup {Nobody}
    /\ \A c \in Clients : owner = c <=> at[c] = "release"
    /\ daemon \in [Daemons -> Owning \cup {"none", "starting", "ended"}]

\* The process that holds the owner lock is the only daemon beyond its start,
\* however many hold the startup lock at once and whoever probes.
OneDaemon ==
    \A d \in Daemons : daemon[d] \in Owning <=> owner = d

\* spec.md, "one healthy per-user service owns the active state record": the
\* record of a serving daemon is not replaced or removed by an ending one.
StateOfServing ==
    \A d \in Daemons : daemon[d] = "serving" => state = d

\* A client that died with the lock, one that is slow with it, and one whose
\* lock was removed keep nobody for ever: every client ends, unless it finds a
\* stale lock again and again that it cannot remove.
ClientsEnd ==
    \A c \in Clients : <>(at[c] = "done") \/ []<><<KeepStale(c)>>_vars
=============================================================================

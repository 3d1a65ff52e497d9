--------------------------- MODULE StartupProofs ---------------------------
(***************************************************************************)
(* For any number of clients, probing commands and daemons: the owner lock *)
(* is held by the one daemon beyond its start, although the startup lock   *)
(* is not exclusive, and a serving daemon owns the state record.           *)
(***************************************************************************)
EXTENDS Startup, TLAPS

IInv == TypeOK /\ OneDaemon /\ StateOfServing

USE DEF Owning, NoLock

LEMMA InitInvariant == Init => IInv
BY ConstantsAssumption DEF Init, IInv, TypeOK, OneDaemon, StateOfServing

\* A client's step that leaves the owner lock and the daemons alone, and does
\* not come to or from holding it, keeps the invariant.
LEMMA ClientAlone ==
    ASSUME IInv, NEW c \in Clients,
           UNCHANGED <<owner, state, daemon>>,
           lock' \in [by : Clients \cup {Nobody}, old : BOOLEAN],
           phase' \in [Clients -> {"first", "locked", "spawned"}],
           seen' \in [Clients -> Daemons \cup {Nobody}],
           result' \in [Clients -> Daemons \cup {Nobody, "timeout", "error", "busy"}],
           NEW place \in {"read", "ping", "lock", "remove", "probe", "spawn",
                          "inspect", "unlock", "done"},
           Goto(c, place), at[c] # "release"
    PROVE  IInv'
<1>1. TypeOK'
  BY DEF IInv, TypeOK, Goto
<1> QED
  BY <1>1 DEF IInv, OneDaemon, StateOfServing

\* The result of a client is one of its call.
LEMMA Ended ==
    ASSUME TypeOK, NEW c \in Clients,
           NEW r \in Daemons \cup {Nobody, "timeout", "error", "busy"}, EndWith(c, r)
    PROVE  /\ result' \in [Clients -> Daemons \cup {Nobody, "timeout", "error", "busy"}]
           /\ phase' \in [Clients -> {"first", "locked", "spawned"}]
           /\ \E place \in {"done", "inspect"} : Goto(c, place)
BY DEF EndWith, TypeOK

\* Client steps that touch neither the owner lock nor a daemon.
LEMMA QuietClient ==
    ASSUME IInv, NEW c \in Clients,
           \/ ReadState(c) \/ Ping(c) \/ Expire(c) \/ Fail(c) \/ Create(c)
           \/ FindStale(c) \/ RemoveStale(c) \/ KeepStale(c) \/ Inspect(c)
           \/ Unlock(c)
    PROVE  IInv'
<1>0. TypeOK
  BY DEF IInv
<1>1. CASE ReadState(c)
  <2>1. seen' \in [Clients -> Daemons \cup {Nobody}]
    BY <1>0, <1>1 DEF ReadState, TypeOK
  <2> QED
    BY <1>0, <1>1, <2>1, ClientAlone DEF ReadState, TypeOK
<1>2. CASE Ping(c)
  <2>1. CASE seen[c] # Nobody /\ daemon[seen[c]] = "serving"
    <3>1. seen[c] \in Daemons /\ EndWith(c, seen[c])
      BY <1>0, <1>2, <2>1 DEF Ping, TypeOK
    <3>2. PICK place \in {"done", "inspect"} : Goto(c, place)
      BY <1>0, <3>1, Ended
    <3> QED
      BY <1>0, <1>2, <3>1, <3>2, Ended, ClientAlone DEF Ping, TypeOK
  <2>2. CASE ~(seen[c] # Nobody /\ daemon[seen[c]] = "serving")
    <3>1. PICK place \in {"lock", "probe", "read"} : Goto(c, place)
      <4>1. phase[c] \in {"first", "locked", "spawned"}
        BY <1>0 DEF TypeOK
      <4> QED
        BY <1>2, <2>2, <4>1 DEF Ping
    <3> QED
      BY <1>0, <1>2, <2>2, <3>1, ClientAlone DEF Ping, TypeOK
  <2> QED
    BY <2>1, <2>2
<1>3. CASE Expire(c)
  <2>1. PICK place \in {"done", "inspect"} : Goto(c, place)
    BY <1>0, <1>3, Ended DEF Expire
  <2> QED
    BY <1>0, <1>3, <2>1, Ended, ClientAlone DEF Expire, TypeOK
<1>4. CASE Fail(c)
  <2>1. PICK place \in {"done", "inspect"} : Goto(c, place)
    BY <1>0, <1>4, Ended DEF Fail
  <2> QED
    BY <1>0, <1>4, <2>1, Ended, ClientAlone DEF Fail, TypeOK
<1>5. CASE Create(c)
  BY <1>0, <1>5, ClientAlone DEF Create, TypeOK
<1>6. CASE FindStale(c)
  BY <1>0, <1>6, ClientAlone DEF FindStale, TypeOK
<1>7. CASE RemoveStale(c)
  BY <1>0, <1>7, ClientAlone DEF RemoveStale, TypeOK
<1>8. CASE Inspect(c)
  <2>1. PICK place \in {"unlock", "done"} : Goto(c, place)
    BY <1>8 DEF Inspect
  <2> QED
    BY <1>0, <1>8, <2>1, ClientAlone DEF Inspect, TypeOK
<1>9. CASE Unlock(c)
  <2>1. CASE lock' = NoLock
    BY <1>0, <1>9, <2>1, ClientAlone DEF Unlock, TypeOK
  <2>2. CASE lock' = lock
    BY <1>0, <1>9, <2>2, ClientAlone DEF Unlock, TypeOK
  <2> QED
    BY <1>9, <2>1, <2>2 DEF Unlock
<1>10. CASE KeepStale(c)
  BY <1>0, <1>10, ClientAlone DEF KeepStale, TypeOK
<1> QED
  BY <1>1, <1>2, <1>3, <1>4, <1>5, <1>6, <1>7, <1>8, <1>9, <1>10

\* Only the owner lock tells daemons apart: a client that takes it finds no
\* daemon beyond its start.
LEMMA ProbeStep ==
    ASSUME IInv, NEW c \in Clients, Probe(c) \/ Release(c)
    PROVE  IInv'
<1>1. CASE Probe(c) /\ owner = Nobody
  BY <1>1, ConstantsAssumption
  DEF Probe, Goto, IInv, TypeOK, OneDaemon, StateOfServing
<1>2. CASE Probe(c) /\ owner # Nobody
  <2>1. TypeOK /\ EndWith(c, "busy")
    BY <1>2 DEF Probe, IInv
  <2>2. PICK place \in {"done", "inspect"} : Goto(c, place)
    BY <2>1, Ended
  <2> QED
    BY <1>2, <2>1, <2>2, Ended, ClientAlone DEF Probe, TypeOK
<1>3. CASE Release(c)
  BY <1>3, ConstantsAssumption
  DEF Release, Goto, IInv, TypeOK, OneDaemon, StateOfServing
<1> QED
  BY <1>1, <1>2, <1>3

LEMMA SpawnStep ==
    ASSUME IInv, NEW c \in Clients, Spawn(c)
    PROVE  IInv'
<1> DEFINE new == CHOOSE d \in Daemons : daemon[d] = "none"
<1>1. new \in Daemons /\ daemon[new] = "none" /\ daemon' = [daemon EXCEPT ![new] = "starting"]
  BY DEF Spawn
<1> HIDE DEF new
<1> QED
  BY <1>1 DEF Spawn, Goto, IInv, TypeOK, OneDaemon, StateOfServing

LEMMA DieStep ==
    ASSUME IInv, NEW c \in Clients, Die(c)
    PROVE  IInv'
BY ConstantsAssumption DEF Die, Goto, IInv, TypeOK, OneDaemon, StateOfServing

LEMMA ProberStep ==
    ASSUME IInv, NEW p \in Probers, StartProbe(p) \/ EndProbe(p)
    PROVE  IInv'
BY ConstantsAssumption
DEF StartProbe, EndProbe, client, IInv, TypeOK, OneDaemon, StateOfServing

\* The daemon that acts holds the owner lock, or takes it from nobody: no
\* other one is serving or ending.
LEMMA DaemonStep ==
    ASSUME IInv, NEW d \in Daemons,
           \/ Own(d) \/ Serve(d) \/ StopServing(d) \/ CheckState(d)
           \/ RemoveState(d) \/ Exit(d)
    PROVE  IInv'
<1> USE ConstantsAssumption DEF Become, client
<1>1. CASE Own(d)
  BY <1>1 DEF Own, IInv, TypeOK, OneDaemon, StateOfServing
<1>2. CASE Serve(d)
  BY <1>2 DEF Serve, IInv, TypeOK, OneDaemon, StateOfServing
<1>3. CASE StopServing(d)
  BY <1>3 DEF StopServing, IInv, TypeOK, OneDaemon, StateOfServing
<1>4. CASE CheckState(d)
  BY <1>4 DEF CheckState, IInv, TypeOK, OneDaemon, StateOfServing
<1>5. CASE RemoveState(d)
  BY <1>5 DEF RemoveState, IInv, TypeOK, OneDaemon, StateOfServing
<1>6. CASE Exit(d)
  BY <1>6 DEF Exit, IInv, TypeOK, OneDaemon, StateOfServing
<1> QED
  BY <1>1, <1>2, <1>3, <1>4, <1>5, <1>6

LEMMA StepInvariant == IInv /\ [Next]_vars => IInv'
<1> SUFFICES ASSUME IInv, [Next]_vars PROVE IInv'
  OBVIOUS
<1>1. CASE \E c \in Clients : ClientStep(c) \/ Die(c)
  BY <1>1, QuietClient, ProbeStep, SpawnStep, DieStep DEF ClientStep
<1>2. CASE \E p \in Probers : StartProbe(p) \/ EndProbe(p)
  BY <1>2, ProberStep
<1>3. CASE GrowOld
  BY <1>3 DEF GrowOld, client, IInv, TypeOK, OneDaemon, StateOfServing
<1>4. CASE \E d \in Daemons :
              Own(d) \/ Serve(d) \/ StopServing(d) \/ CheckState(d)
                 \/ RemoveState(d) \/ Exit(d)
  BY <1>4, DaemonStep
<1>5. CASE UNCHANGED vars
  BY <1>5 DEF vars, client, IInv, TypeOK, OneDaemon, StateOfServing
<1> QED
  BY <1>1, <1>2, <1>3, <1>4, <1>5 DEF Next

-----------------------------------------------------------------------------
\* Whoever starts, probes, dies or removes locks of others: the holder of the
\* owner lock is the only daemon beyond its start (ServiceOwner::acquire in
\* serve), and the record of a serving daemon is its own.
THEOREM InductiveInvariant == Spec => []IInv
BY InitInvariant, StepInvariant, PTL DEF Spec

\* At most one daemon is beyond its start, and it has the owner lock
\* (ServiceOwner::acquire is the first thing serve() does).
THEOREM OnlyOneDaemon == Spec => []OneDaemon
BY InductiveInvariant, PTL DEF IInv

\* The state record names the serving daemon: write_state and the comparison
\* and removal at the end of serve() happen under the owner lock.
THEOREM RecordOfServing == Spec => []StateOfServing
BY InductiveInvariant, PTL DEF IInv
=============================================================================

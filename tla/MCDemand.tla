------------------------------ MODULE MCDemand ------------------------------
(* Demand with the repository's proportions on a short clock. *)
EXTENDS Demand, TLC

CONSTANTS t

\* The second lookup of route 1 comes with a longer oid and generation.
MCLookups == {<<1, t, 2, 0>>, <<1, t, 2, 3>>, <<2, t, 1, 0>>}

\* A new route weighs 3, its clone 2, and 3 again after a push into the full
\* clone.  So both routes fit after one of them was cloned, a tracked route may
\* be refused for a sample or for its oid, and the rows that one life wrote may
\* not all fit into the next one, which gives them the room of a new Vec.
MCRouteBytes == [r \in Routes |-> 1]
MCUseBytes == [u \in Trails |-> 1]
=============================================================================

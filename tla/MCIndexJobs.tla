---------------------------- MODULE MCIndexJobs ----------------------------
(***************************************************************************)
(* Instances of IndexJobs for TLC.  p1 is a key with a pending generation, *)
(* v1 the key it is refined to; p2 is a key of another commit.             *)
(***************************************************************************)
EXTENDS IndexJobs, TLC

CONSTANTS p1, v1, p2

MCKeys == {p1, v1, p2}
MCRefinements == [k \in MCKeys |-> IF k = p1 THEN {v1} ELSE {}]

\* Job ids are random: any permutation of them is as good.
Symmetry == Permutations(Ids)
=============================================================================

------------------------ MODULE MCServiceLifecycle ------------------------
(***************************************************************************)
(* Small instances of ServiceLifecycle.                                    *)
(***************************************************************************)
EXTENDS ServiceLifecycle, TLC

\* Connections are interchangeable, and so are job keys.
Symmetry == Permutations(Conns) \cup Permutations(Jobs)
=============================================================================

---------------------------- MODULE MCTrailCache ----------------------------
(***************************************************************************)
(* Instances of TrailCache: a short history with overlapping trails.       *)
(* Trail 1 is of an old head, trail 2 of a later one and shares commit 2   *)
(* with it, trail 3 is of another line with one newer commit.              *)
(***************************************************************************)
EXTENDS TrailCache, TLC

MCTrails == 1..3
MCCommits == 1..3
MCSelected == (1 :> {1, 2}) @@ (2 :> {2}) @@ (3 :> {3})
MCCommitTime == (1 :> 0) @@ (2 :> 0) @@ (3 :> 1)
MCEntries == (1 :> 2) @@ (2 :> 1) @@ (3 :> 1)
MCLinked == {2}

\* Synchronizations are interchangeable.
Symmetry == Permutations(Syncs)
=============================================================================

----------------------------- MODULE MCPrefetch -----------------------------
(***************************************************************************)
(* Small instances of Prefetch: two heads with a common history.           *)
(***************************************************************************)
EXTENDS Prefetch, TLC

CONSTANTS a, b, t

MCWalk == (1 :> <<a, b>>) @@ (2 :> <<b>>)
MCParents == (a :> {b}) @@ (b :> {})
MCTrailCommits == t :> {b}
=============================================================================

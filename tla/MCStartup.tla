----------------------------- MODULE MCStartup -----------------------------
(* Startup with clients that race, and a status command. *)
EXTENDS Startup, TLC

CONSTANTS c1, c2, p1, d1, d2
=============================================================================

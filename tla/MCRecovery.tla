----------------------------- MODULE MCRecovery -----------------------------
(* The worlds TLC explores. *)
EXTENDS Recovery

World(b, fs) == [browser |-> b, faults |-> fs]

(* Loss and failing intras; libav's reference misses with a browser        *)
(* watching; bad frames and decoder restarts.                              *)
MCWorlds == {World(FALSE, {"loss", "raise"}),
             World(TRUE, {"refmiss"}),
             World(FALSE, {"flagged", "raise", "restart"})}
=============================================================================

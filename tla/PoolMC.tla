------------------------------- MODULE PoolMC -------------------------------
(* Instances of Pool for TLC. *)
EXTENDS Pool

CONSTANTS w1, w2, j1, j2, j3, j4, j5

(* Two workers and a channel of four: five jobs fill it and block `send`. *)
TwoWorkers == {w1, w2}
FiveJobs == {j1, j2, j3, j4, j5}
FivePriorities == [j \in FiveJobs |->
    IF j \in {j1, j2} THEN "LatencySensitive" ELSE "Worker"]
=============================================================================

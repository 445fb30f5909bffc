------------------------- MODULE MCSourceController -------------------------
(***************************************************************************)
(* Model-checking instance of SourceController: three revision paths, a   *)
(* clock of a few ticks, one or two request workers.                      *)
(***************************************************************************)
EXTENDS SourceController, TLC

CONSTANTS w1, w2

MCPaths == {1, 2, 3}

MCWorkers1 == {w1}

(* The liveness runs leave the server out: no request changes the store. *)
MCNoWorkers == {}

(* The one worker of the S3 run is served by a follower pod.             *)
MCFollower1 == {w1}

MCPaths2 == {1, 2}

MCWorkers2 == {w1, w2}

WorkerSymmetry == Permutations(MCWorkers2)

=============================================================================

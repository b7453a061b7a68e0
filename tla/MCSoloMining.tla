---------------------------- MODULE MCSoloMining ----------------------------
(***************************************************************************)
(* A small instance of SoloMining for TLC.  The digest is that of          *)
(* MCMiningSession: some nonces meet only the easier target.               *)
(***************************************************************************)
EXTENDS SoloMining

MCTargets == {1, 2}

MCNonces == {0, 2}

MCKeccak(c, a, n) == IF a = "miner" THEN 1 + ((c + n) % 3) ELSE 3

MCReject == {"reject"}

MCNetworkFaults == {"failed", "unanswered"}
=============================================================================

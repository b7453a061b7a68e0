-------------------------- MODULE MCMiningSession ---------------------------
(***************************************************************************)
(* Small instances of MiningSession for TLC.  The digest is a table of     *)
(* challenge and nonce in which some nonces meet only the easier target,   *)
(* some both and some none, so that stale parameters are visible.          *)
(***************************************************************************)
EXTENDS MiningSession

MCTargets == {1, 2}

MCNonces == {0, 1, 2}

MCKeccak(c, a, n) == IF a = HashingAddress THEN 1 + ((c + n) % 3) ELSE 3

MCNoFaults == {}

MCRejectOrAbsent == {"reject", "absent"}
=============================================================================

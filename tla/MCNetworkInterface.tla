------------------------- MODULE MCNetworkInterface -------------------------
(* Small instances of NetworkInterface for TLC. *)
EXTENDS NetworkInterface, TLC

MCSymmetry == Permutations(Blocks)

MCNoFaults == {}

MCFaults == {"failed", "unanswered"}
=============================================================================

----------------------------- MODULE MCCpuMiner -----------------------------
(* A small instance of CpuMiner for TLC. *)
EXTENDS CpuMiner

CONSTANTS n1, w1, w2, l1
=============================================================================

------------------------------ MODULE MCSolver ------------------------------
(***************************************************************************)
(* A small instance of Solver for TLC: the digest is a table in which each *)
(* challenge needs another target, so that a mixture of values is visible. *)
(***************************************************************************)
EXTENDS Solver

CONSTANTS c1, c2, a1, n1, zero

MCKeccak(c, a, n) ==
    CASE a # a1 -> 3
      [] c = c1 -> 1
      [] c = c2 -> 2
      [] OTHER  -> 3

MCTargets == {1, 2}
=============================================================================

------------------------------- MODULE Inputs -------------------------------
(***************************************************************************)
(* An input of one of the functions of the program that keep no state:     *)
(* its kind, and the parts it is put together from.                        *)
(***************************************************************************)
VARIABLES
    input       \* what it is an input of, and its parts

Parts == input.parts
Kind(k) == input.kind = k
=============================================================================

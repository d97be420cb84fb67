------------------------------ MODULE MCRedsocks ------------------------------
(***************************************************************************)
(* Instances of Redsocks for TLC.                                          *)
(***************************************************************************)
EXTENDS Redsocks

CONSTANTS c1, c2   \* connections

=============================================================================

------------------------------ MODULE MCUdpRelay ------------------------------
(***************************************************************************)
(* Instances of UdpRelay for TLC.                                          *)
(***************************************************************************)
EXTENDS UdpRelay, TLC

CONSTANTS l1, l2, l3   \* local addresses

\* Local addresses are only compared with each other.
Symmetry == Permutations(Locals)

=============================================================================

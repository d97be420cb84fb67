---------------------------- MODULE MCRevokeRace ----------------------------
(* RevokeRace for TLC. *)
EXTENDS RevokeRace
=============================================================================

--------------------------- MODULE MCBaseService ---------------------------
(* BaseService for TLC: two stop coroutines, so that a second one can be met. *)
EXTENDS BaseService, TLC
=============================================================================

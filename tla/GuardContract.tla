---------------------------- MODULE GuardContract ----------------------------
(***************************************************************************)
(* What BaseService relies on when it uses a pool of guarded processes: a  *)
(* guard ends only if it has failed or the pool is closed, it fails only   *)
(* in an open pool, and it says so through onFatal exactly once.           *)
(***************************************************************************)
CONSTANT Guards
VARIABLES up,      \* the guards that are at work
          fatal,   \* the guards that have posted onFatal
          closed
vars == <<up, fatal, closed>>

Init == up = {} /\ fatal = {} /\ closed = FALSE

Start(g) ==
  /\ ~closed
  /\ g \notin up \cup fatal
  /\ up' = up \cup {g}
  /\ UNCHANGED <<fatal, closed>>

Fail(g) ==
  /\ ~closed
  /\ g \in up \ fatal
  /\ fatal' = fatal \cup {g}
  /\ up' \in {up, up \ {g}}
  /\ UNCHANGED closed

Close ==
  /\ ~closed
  /\ closed' = TRUE
  /\ UNCHANGED <<up, fatal>>

End(g) ==
  /\ g \in up
  /\ closed \/ g \in fatal
  /\ up' = up \ {g}
  /\ UNCHANGED <<fatal, closed>>

Next == Close \/ \E g \in Guards : Start(g) \/ Fail(g) \/ End(g)

Spec == Init /\ [][Next]_vars
=============================================================================

-------------------------- MODULE ServiceLifecycle --------------------------
(***************************************************************************)
(* What BaseService promises to the clients that watch its state: the      *)
(* order of the states, and whose resources may exist in each of them.     *)
(***************************************************************************)
CONSTANT Sessions
VARIABLES phase,   \* the state the service reports
          holders  \* the sessions that hold a resource or run code
vars == <<phase, holders>>

Init == phase = "Stopped" /\ holders = {}

\* A session begins only on a service that holds nothing.
Begin(s) ==
  /\ phase = "Stopped"
  /\ phase' = "Connecting"
  /\ holders = {} /\ holders' = {s}

Connect ==
  /\ phase = "Connecting"
  /\ phase' = "Connected"
  /\ UNCHANGED holders

\* A session that is refused at once has only its notification to release.
Refuse(s) ==
  /\ phase = "Stopped"
  /\ phase' = "Stopping"
  /\ holders = {} /\ holders' \in {{}, {s}}

Quit ==
  /\ phase \in {"Connecting", "Connected"}
  /\ phase' = "Stopping"
  /\ holders' \in {holders, {}}

Release ==
  /\ phase = "Stopping"
  /\ holders' = {}
  /\ UNCHANGED phase

End ==
  /\ phase = "Stopping"
  /\ holders = {} /\ holders' = {}
  /\ phase' = "Stopped"

Next ==
  \/ \E s \in Sessions : Begin(s) \/ Refuse(s)
  \/ Connect \/ Quit \/ Release \/ End

Spec == Init /\ [][Next]_vars
=============================================================================

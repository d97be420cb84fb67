----------------------------- MODULE RevokeRace -----------------------------
(***************************************************************************)
(* VpnService.onRevoke is called by the system on a binder thread, and it  *)
(* calls stopRunner() there.  Its test of the state, its write of the      *)
(* state and the start of the stop coroutine on the main thread are then   *)
(* three steps, and the main thread takes turns between them.              *)
(***************************************************************************)
EXTENDS BaseService

VARIABLES revoker,  \* the binder thread: "idle", or "checked" the state
          posted    \* stop coroutines launched from it and not yet begun
raceVars == <<vars, revoker, posted>>

RaceInit == Init /\ revoker = "idle" /\ posted = 0

\* `if (data.state == State.Stopping) return`
RevokeChecks ==
  /\ refs["conn"] # None
  /\ revoker = "idle"
  /\ state # "Stopping"
  /\ revoker' = "checked"
  /\ UNCHANGED <<vars, posted>>

\* changeState(Stopping) and GlobalScope.launch(Dispatchers.Main.immediate).
RevokeChangesState ==
  /\ revoker = "checked"
  /\ revoker' = "idle"
  /\ state' = "Stopping"
  /\ posted' = posted + 1
  /\ UNCHANGED <<connectVars, resourceVars, stops, boot, startPending>>

\* The main thread does not leave a stop coroutine that has nothing to wait
\* for, and begins jobs in the order in which they were posted.
Unwaiting(k) == stops[k].pc = "closing" /\ stops[k].waits = {}
Prompt ==
  /\ (\E k \in StopSlots : Unwaiting(k)) => \E k \in StopSlots : Unwaiting(k) /\ StopFinish(k)
  /\ \A r, s \in Sessions : r < s /\ job[r] = "posted" /\ job[s] = "posted" => job'[s] = job[s]

\* The posted coroutine begins on the main thread.
RevokeBody ==
  /\ posted > 0
  /\ posted' = posted - 1
  /\ ~\E k \in StopSlots : Unwaiting(k)
  /\ \E k \in StopSlots :
       /\ stops[k].pc = "none"
       /\ StopBody(k, FALSE, refs, tasks, RunningJob)
  /\ UNCHANGED <<state, session, job, connectingJob, tries, fatals, boot,
                 startPending, revoker>>

RaceNext ==
  \/ Next /\ Prompt /\ UNCHANGED <<revoker, posted>>
  \/ RevokeChecks \/ RevokeChangesState \/ RevokeBody

RaceSpec == RaceInit /\ [][RaceNext]_raceVars
=============================================================================

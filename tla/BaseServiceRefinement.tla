------------------------ MODULE BaseServiceRefinement ------------------------
(***************************************************************************)
(* BaseService implements ServiceLifecycle, for any number of sessions,    *)
(* retries and stop slots.  The inductive invariant of BaseServiceProofs   *)
(* says what exists in each state; what is added here is that everything   *)
(* that exists belongs to the current session, also while it is released.  *)
(***************************************************************************)
EXTENDS BaseServiceProofs

OneHolder == Holders \subseteq {session}

\* A holder is named by a field, by a task or by a job.
LEMMA InHolders ==
  ASSUME NEW x
  PROVE  x \in Holders <=> \/ x # None /\ \E f \in Fields : refs[f] = x
                           \/ \E t \in tasks : t[2] = x
                           \/ x \in LiveJobs
BY DEF Holders

HoldersKnown ==
  /\ state = "Stopped" => Holders = {}
  /\ state \in {"Connecting", "Connected"} =>
       session \in Sessions /\ Holders = {session}

\* In every state but Stopping the holders are known.
LEMMA PhaseHolders == IInv => HoldersKnown
<1> SUFFICES ASSUME IInv PROVE HoldersKnown
  OBVIOUS
<1> USE DEF HoldersKnown
<1>1. CASE state = "Stopped"
  BY <1>1 DEF IInv, PhaseRight, StoppedReleased, Holders, NoRefs
<1>2. CASE state = "Connecting"
  <2>1. session \in LiveJobs /\ session \in Sessions /\ \A s \in LiveJobs : s = session
    BY <1>2 DEF IInv, PhaseRight, OneJob, JobReferenced, LiveJobs
  <2>2. /\ \A f \in Fields : refs[f] \in {None, session}
        /\ \A t \in tasks : t[2] = session
    BY <1>2 DEF IInv, PhaseRight, Whole, Fresh
  <2> QED
    BY <1>2, <2>1, <2>2, InHolders
<1>3. CASE state = "Connected"
  <2>1. session \in Sessions /\ LiveJobs = {}
    BY <1>3 DEF IInv, PhaseRight
  <2>2. /\ \A f \in Fields : refs[f] = session
        /\ \A t \in tasks : t[2] = session
    BY <1>3 DEF IInv, PhaseRight, Whole
  <2>3. session # None /\ "proxy" \in Fields
    BY <2>1, ConstantsAssumption DEF Sessions, None, Fields
  <2> QED
    BY <1>3, <2>1, <2>2, <2>3, InHolders
<1> QED
  BY <1>1, <1>2, <1>3

\* The same after a step.
LEMMA PhaseHoldersNext == IInv' => HoldersKnown'
BY PhaseHolders, PTL

\* The holders are sessions.
LEMMA HoldersSessions == TypeOK => Holders \subseteq Sessions
<1> SUFFICES ASSUME TypeOK, NEW x \in Holders PROVE x \in Sessions
  OBVIOUS
<1>1. CASE x # None /\ \E f \in Fields : refs[f] = x
  BY <1>1, ConstantsAssumption DEF TypeOK, Sessions, None
<1>2. CASE \E t \in tasks : t[2] = x
  BY <1>2 DEF TypeOK, Task
<1>3. CASE x \in LiveJobs
  BY <1>3 DEF LiveJobs
<1> QED
  BY <1>1, <1>2, <1>3, InHolders

-----------------------------------------------------------------------------
(***************************************************************************)
(* Nothing but a start command adds a holder.                              *)
(***************************************************************************)

\* A step after which all that exists belongs to who was there before.
LEMMA Shrinks ==
  ASSUME \A f \in Fields : refs'[f] = None \/ refs'[f] \in Holders,
         \A t \in tasks' : t[2] \in Holders,
         LiveJobs' \subseteq LiveJobs
  PROVE  Holders' \subseteq Holders
<1> SUFFICES ASSUME NEW x, x \in Holders' PROVE x \in Holders
  OBVIOUS
<1>1. \/ x # None /\ \E f \in Fields : refs'[f] = x
      \/ \E t \in tasks' : t[2] = x
      \/ x \in LiveJobs'
  BY DEF Holders
<1> QED
  BY <1>1, InHolders

\* stopRunner leaves the fields it is given or clears them.
LEMMA StopFields ==
  ASSUME NEW restart, NEW r, NEW t, NEW j, stopRunner(restart, r, t, j)
  PROVE  tasks' = t /\ (refs' = r \/ refs' = NoRefs)
BY DEF stopRunner, StopBody

\* What the fields and the tasks name before a step.
LEMMA FieldsHold ==
  /\ \A f \in Fields : refs[f] = None \/ refs[f] \in Holders
  /\ \A t \in tasks : t[2] \in Holders
BY InHolders

\* The handlers that only call stopRunner.
LEMMA StopShrinks ==
  ASSUME NEW restart, stopRunner(restart, refs, tasks, RunningJob), job' = job
  PROVE  Holders' \subseteq Holders
<1>1. tasks' = tasks /\ (refs' = refs \/ refs' = NoRefs)
  BY StopFields
<1>2. \A f \in Fields : refs'[f] = None \/ refs'[f] \in Holders
  BY <1>1, FieldsHold DEF NoRefs
<1> QED
  BY <1>1, <1>2, FieldsHold, Shrinks DEF LiveJobs

\* What a job builds belongs to its session, which the job itself holds.
LEMMA BuiltHolds ==
  ASSUME IInv, NEW s \in Sessions, Alive(s), NEW n \in 1 .. 7
  PROVE  /\ \A f \in Fields : RefsBuilt(s, n)[f] = None \/ RefsBuilt(s, n)[f] \in Holders
         /\ \A t \in TasksBuilt(s, n) : t[2] \in Holders
<1>1. s \in Holders
  BY InHolders DEF Alive, LiveJobs
<1>2. refs["proxy"] = s
  BY AliveConnecting DEF IInv, PhaseRight, Whole, Fresh, Fields
<1> QED
  BY <1>1, <1>2, FieldsHold DEF RefsBuilt, TasksBuilt

\* A job that ends is gone.
LEMMA JobEnds ==
  ASSUME TypeOK, NEW s \in Sessions, job' = [job EXCEPT ![s] = "none"]
  PROVE  LiveJobs' \subseteq LiveJobs
BY DEF TypeOK, LiveJobs

\* A failing job hands what it built to stopRunner.
LEMMA JobFailShrinks ==
  ASSUME IInv, NEW s \in Sessions, NEW r, NEW t, JobFail(s, r, t),
         \A f \in Fields : r[f] = None \/ r[f] \in Holders,
         \A x \in t : x[2] \in Holders
  PROVE  Holders' \subseteq Holders /\ session' = session
<1>1. tasks' = t /\ (refs' = r \/ refs' = NoRefs)
  BY StopFields DEF JobFail
<1>2. \A f \in Fields : refs'[f] = None \/ refs'[f] \in Holders
  BY <1>1 DEF NoRefs
<1>3. LiveJobs' \subseteq LiveJobs
  BY JobEnds DEF JobFail, IInv
<1> QED
  BY <1>1, <1>2, <1>3, Shrinks DEF JobFail

\* The turns of the connecting job.
LEMMA JobShrinks ==
  ASSUME IInv, NEW s \in Sessions, JobStep(s)
  PROVE  Holders' \subseteq Holders /\ session' = session
<1>1. ASSUME UNCHANGED <<refs, tasks, session>>, LiveJobs' \subseteq LiveJobs
      PROVE  Holders' \subseteq Holders /\ session' = session
  BY <1>1, FieldsHold, Shrinks
<1>2. CASE JobBegin(s)
  BY <1>1, <1>2 DEF JobBegin, resourceVars, LiveJobs, IInv, TypeOK, Alive
<1>3. CASE JobFetchRules(s)
  BY <1>1, <1>3 DEF JobFetchRules, resourceVars, LiveJobs, IInv, TypeOK, Alive
<1>4. CASE JobBuild(s)
  <2>1. refs' = RefsBuilt(s, 7) /\ tasks' = TasksBuilt(s, 7) /\ session' = session
    BY <1>4, BuildSteps DEF JobBuild
  <2>2. LiveJobs' \subseteq LiveJobs
    BY <1>4 DEF JobBuild, LiveJobs, IInv, TypeOK, Alive
  <2>3. Alive(s) /\ 7 \in 1 .. 7
    BY <1>4 DEF JobBuild
  <2> QED
    BY <2>1, <2>2, <2>3, BuiltHolds, Shrinks
<1>5. CASE JobBuildFails(s)
  <2>1. CASE JobFail(s, refs, tasks)
    BY <2>1, FieldsHold, JobFailShrinks
  <2>2. ASSUME NEW n \in 1 .. (IF refs["proxy"] = None THEN 2 ELSE Len(BuildOrder) - 1),
               JobFail(s, RefsBuilt(s, n), TasksBuilt(s, n))
        PROVE  Holders' \subseteq Holders /\ session' = session
    <3>1. n \in 1 .. 7 /\ Alive(s)
      BY <1>5, BuildSteps DEF JobBuildFails
    <3> QED
      BY <2>2, <3>1, BuiltHolds, JobFailShrinks
  <2> QED
    BY <1>5, <2>1, <2>2 DEF JobBuildFails
<1>6. CASE JobConnected(s)
  BY <1>1, <1>6, JobEnds DEF JobConnected, resourceVars, IInv
<1>7. CASE JobSendFails(s)
  <2>1. CASE JobFail(s, refs, tasks)
    BY <2>1, FieldsHold, JobFailShrinks
  <2>2. CASE UNCHANGED <<session, job, resourceVars>>
    BY <1>1, <2>2 DEF resourceVars, LiveJobs
  <2> QED
    BY <1>7, <2>1, <2>2 DEF JobSendFails
<1>8. CASE JobCancelled(s)
  <2>1. tasks' = tasks /\ refs' = NoRefs /\ session' = session
    BY <1>8 DEF JobCancelled
  <2>2. LiveJobs' \subseteq LiveJobs
    BY <1>8, JobEnds DEF JobCancelled, IInv
  <2> QED
    BY <2>1, <2>2, FieldsHold, Shrinks DEF NoRefs
<1> QED
  BY <1>2, <1>3, <1>4, <1>5, <1>6, <1>7, <1>8 DEF JobStep

\* Only a start command on a stopped service adds a holder.
LEMMA NextShrinks ==
  ASSUME IInv, [Next]_vars, ~StartAccepted, ~StartInvalid
  PROVE  Holders' \subseteq Holders /\ session' = session
<1> USE DEF connectVars, resourceVars
<1>1. ASSUME UNCHANGED <<refs, session, job>>, tasks' \subseteq tasks
      PROVE  Holders' \subseteq Holders /\ session' = session
  BY <1>1, FieldsHold, Shrinks DEF LiveJobs
<1>2. ASSUME NEW restart, Stop(restart)
      PROVE  Holders' \subseteq Holders /\ session' = session
  BY <1>2, StopShrinks DEF Stop
<1>3. CASE StopStep
  BY <1>1, <1>3 DEF StopStep, StopFinish
<1>4. CASE StartStep
  BY <1>1, <1>2, <1>4 DEF StartStep, StartRefused, StartIgnored
<1>5. ASSUME NEW t \in Task, TaskStep(t)
      PROVE  Holders' \subseteq Holders /\ session' = session
  <2>1. CASE GuardFails(t) \/ TaskEnds(t)
    BY <1>1, <2>1 DEF GuardFails, TaskEnds
  <2>2. CASE OnFatal(t)
    BY <2>2, StopShrinks DEF OnFatal
  <2>3. CASE RestartSendFails(t)
    BY <1>2, <2>3 DEF RestartSendFails
  <2> QED
    BY <1>5, <2>1, <2>2, <2>3 DEF TaskStep
<1>6. CASE EnvironmentStep
  BY <1>1, <1>2, <1>6 DEF EnvironmentStep, CloseBroadcast, ReloadBroadcast, onRevoke,
     UserStart
<1>7. CASE UNCHANGED vars
  BY <1>1, <1>7 DEF vars
<1> QED
  BY <1>3, <1>4, <1>5, <1>6, <1>7, JobShrinks DEF Next

-----------------------------------------------------------------------------
(***************************************************************************)
(* The order of the states.                                                *)
(***************************************************************************)

\* changeState is called with Stopped by a stop coroutine, with Connecting by
\* onStartCommand, with Connected by the job, with Stopping by stopRunner.
LEMMA Transitions ==
  ASSUME IInv, [Next]_vars
  PROVE  \/ state' = state
         \/ state' = "Stopping"
         \/ StartAccepted
         \/ state = "Connecting" /\ state' = "Connected"
         \/ state = "Stopping" /\ state' = "Stopped" /\ Holders = {}
<1> USE DEF connectVars, resourceVars
<1>1. ASSUME NEW restart, NEW r, NEW t, NEW j, stopRunner(restart, r, t, j)
      PROVE  state' = state \/ state' = "Stopping"
  BY <1>1 DEF stopRunner
<1>2. CASE StopStep
  <2>1. PICK k \in StopSlots : StopFinish(k)
    BY <1>2 DEF StopStep
  <2>2. stops[k].pc = "closing" /\ stops[k].waits \cap tasks = {} /\ state' = "Stopped"
    BY <2>1 DEF StopFinish
  <2>3. state = "Stopping"
    BY <2>2 DEF IInv, StopsRight, StopExclusive, ActiveStops
  <2>4. LiveJobs = {} /\ refs = NoRefs /\ tasks = {}
    BY <2>2 DEF IInv, StopsRight
  <2>5. Holders = {}
    BY <2>4, InHolders DEF NoRefs
  <2> QED
    BY <2>2, <2>3, <2>5
<1>3. CASE StartStep
  BY <1>1, <1>3 DEF StartStep, StartRefused, StartIgnored, StartInvalid, Stop
<1>4. ASSUME NEW s \in Sessions, JobStep(s)
      PROVE  state' = state \/ state' = "Stopping"
             \/ (state = "Connecting" /\ state' = "Connected")
  <2>1. CASE JobConnected(s)
    BY <2>1, AliveConnecting DEF JobConnected
  <2>2. CASE ~JobConnected(s)
    BY <1>1, <1>4, <2>2 DEF JobStep, JobBegin, JobFetchRules, JobBuild, JobBuildFails,
       JobSendFails, JobCancelled, JobFail
  <2> QED
    BY <2>1, <2>2
<1>5. ASSUME NEW t \in Task, TaskStep(t)
      PROVE  state' = state \/ state' = "Stopping"
  BY <1>1, <1>5 DEF TaskStep, GuardFails, TaskEnds, OnFatal, RestartSendFails, Stop
<1>6. CASE EnvironmentStep
  BY <1>1, <1>6 DEF EnvironmentStep, CloseBroadcast, ReloadBroadcast, onRevoke,
     UserStart, Stop
<1>7. CASE UNCHANGED vars
  BY <1>7 DEF vars
<1> QED
  BY <1>2, <1>3, <1>4, <1>5, <1>6, <1>7 DEF Next

\* Everything that exists belongs to the current session.
LEMMA StepOneHolder ==
  ASSUME IInv, IInv', OneHolder, [Next]_vars
  PROVE  OneHolder'
<1>1. CASE StartAccepted
  <2>1. state' = "Connecting"
    BY <1>1 DEF StartAccepted
  <2>2. Holders' = {session'}
    BY <2>1, PhaseHoldersNext DEF HoldersKnown
  <2> QED
    BY <2>2 DEF OneHolder
<1>2. CASE StartInvalid
  <2>1. state = "Stopped" /\ RunningJob = None
    BY <1>2, NotStopping DEF StartInvalid
  <2>2. PICK r : stopRunner(FALSE, r, tasks, None)
    BY <1>2, <2>1 DEF StartInvalid
  <2>3. refs' = NoRefs /\ tasks' = tasks
    BY <2>1, <2>2 DEF stopRunner, StopBody
  <2>4. tasks = {} /\ LiveJobs = {} /\ LiveJobs' = LiveJobs
    BY <1>2, <2>1 DEF IInv, PhaseRight, StoppedReleased, StartInvalid, LiveJobs
  <2>5. Holders' = {}
    BY <2>3, <2>4 DEF Holders, NoRefs
  <2> QED
    BY <2>5 DEF OneHolder
<1>3. CASE ~StartAccepted /\ ~StartInvalid
  BY <1>3, NextShrinks DEF OneHolder
<1> QED
  BY <1>1, <1>2, <1>3

-----------------------------------------------------------------------------
\* Holders that are sessions are sessions after a step as well.
LEMMA HoldersSessionsNext == TypeOK' => (Holders \subseteq Sessions)'
BY HoldersSessions, PTL

\* A step of the service is a step of its promise, or changes nothing there.
LEMMA StepLifecycle ==
  ASSUME IInv, IInv', OneHolder, OneHolder', [Next]_vars
  PROVE  [Lifecycle!Next]_(Lifecycle!vars)
<1> USE DEF Lifecycle!vars, HoldersKnown, OneHolder
<1>1. HoldersKnown /\ HoldersKnown'
  BY PhaseHolders, PhaseHoldersNext
<1>2. Holders' \subseteq Sessions
  BY HoldersSessionsNext DEF IInv
<1>3. state \in States /\ state' \in States
  BY DEF IInv, TypeOK
<1>4. 1 \in Sessions
  BY ConstantsAssumption DEF Sessions
<1>5. CASE StartAccepted
  <2>1. state = "Stopped" /\ state' = "Connecting"
    BY <1>5 DEF StartAccepted
  <2>2. session' \in Sessions /\ Holders = {} /\ Holders' = {session'}
    BY <1>1, <2>1
  <2>3. Lifecycle!Begin(session')
    BY <2>1, <2>2 DEF Lifecycle!Begin
  <2> QED
    BY <2>2, <2>3 DEF Lifecycle!Next
<1>6. CASE state = "Stopped" /\ state' = "Stopping"
  <2>1. Holders = {} /\ (Holders' = {} \/ (Holders' = {session'} /\ session' \in Sessions))
    <3>1. Holders = {}
      BY <1>1, <1>6
    <3>2. Holders' \subseteq {session'}
      OBVIOUS
    <3> QED
      BY <1>2, <3>1, <3>2
  <2>2. \E s \in Sessions : Lifecycle!Refuse(s)
    BY <1>4, <1>6, <2>1 DEF Lifecycle!Refuse
  <2> QED
    BY <2>2 DEF Lifecycle!Next
<1>7. CASE state # "Stopped"
  <2>1. Holders' \subseteq Holders /\ session' = session
    BY <1>7, NextShrinks DEF StartAccepted, StartInvalid
  <2>2. Holders' = Holders \/ Holders' = {}
    BY <2>1
  <2>3. CASE state = "Connecting" /\ state' = "Connected"
    BY <1>1, <2>1, <2>3 DEF Lifecycle!Connect, Lifecycle!Next
  <2>4. CASE state = "Stopping" /\ state' = "Stopped" /\ Holders = {}
    BY <1>1, <2>4 DEF Lifecycle!End, Lifecycle!Next
  <2>5. CASE state \in {"Connecting", "Connected"} /\ state' = "Stopping"
    BY <2>2, <2>5 DEF Lifecycle!Quit, Lifecycle!Next
  <2>6. CASE state = "Stopping" /\ state' = "Stopping"
    BY <2>2, <2>6 DEF Lifecycle!Release, Lifecycle!Next
  <2>7. CASE state \in {"Connecting", "Connected"} /\ state' = state
    BY <1>1, <2>1, <2>7
  <2> QED
    BY <1>3, <1>7, <2>3, <2>4, <2>5, <2>6, <2>7, Transitions DEF States, StartAccepted
<1>8. CASE state = "Stopped" /\ state' = "Stopped"
  BY <1>1, <1>8
<1> QED
  BY <1>5, <1>6, <1>7, <1>8, Transitions

\* The service goes through its states in the promised order, at most one
\* session holds resources, and none does when the service says Stopped.
THEOREM ServiceImplementsLifecycle == Spec => ImplementsLifecycle
<1>1. Init => OneHolder /\ Lifecycle!Init
  BY DEF Init, OneHolder, Holders, NoRefs, LiveJobs, Lifecycle!Init
<1> QED
  BY <1>1, Invariance, StepOneHolder, StepLifecycle, PTL
     DEF Spec, ImplementsLifecycle, Lifecycle!Spec
=============================================================================

------------------------- MODULE BaseServiceProofs -------------------------
(***************************************************************************)
(* Proofs about BaseService, for any number of sessions, retries and stop  *)
(* slots.                                                                  *)
(***************************************************************************)
EXTENDS BaseService, TLAPS

(***************************************************************************)
(* The inductive invariant.  It says, for each state of the service, who   *)
(* may be running and what exists: the safety properties alone do not      *)
(* exclude, for example, a stop coroutine that joins a job of another      *)
(* session, or a build that starts over tasks that are still there.        *)
(***************************************************************************)

\* What the start command has set, and nothing built yet.
Fresh(s) ==
  /\ refs = [f \in Fields |-> IF f \in {"notification", "proxy", "receiver"}
                                THEN s ELSE None]
  /\ tasks = {}

\* Everything is built.
Whole(s) ==
  /\ \A f \in Fields : refs[f] = s
  /\ \A t \in tasks : t[2] = s
  /\ \A k \in TaskKinds : <<k, s>> \in tasks \cup fatals

OneJob ==
  /\ JobReferenced
  /\ \A s \in cancelled : job[s] # "none"

StopsRight ==
  /\ StopExclusive
  /\ \A k \in StopSlots :
       /\ stops[k].pc = "none" => stops[k].waits = {}
       /\ stops[k].pc = "joining" =>
            /\ stops[k].job = session
            /\ session \in cancelled
            /\ stops[k].waits = {}
            /\ \A t \in tasks : refs[Owner[t[1]]] = t[2]
       /\ stops[k].pc = "closing" =>
            /\ LiveJobs = {}
            /\ refs = NoRefs
            /\ tasks \subseteq stops[k].waits

PhaseRight ==
  /\ StoppedReleased
  /\ state = "Connecting" =>
       /\ session \in LiveJobs
       /\ cancelled = {}
       /\ IF job[session] = "sendFd" THEN Whole(session) ELSE Fresh(session)
  /\ state = "Connected" =>
       /\ session \in Sessions
       /\ LiveJobs = {}
       /\ connectingJob = None
       /\ Whole(session)

IInv == TypeOK /\ OneJob /\ StopsRight /\ PhaseRight

-----------------------------------------------------------------------------
(***************************************************************************)
(* Facts about the constants and the helpers.                              *)
(***************************************************************************)

StopRecord == [pc : {"none", "joining", "closing"}, restart : BOOLEAN,
               job : 0 .. MaxSession, waits : SUBSET Task]

\* Every kind of task has a field through which it is shut down.
LEMMA OwnerType == Owner \in [TaskKinds -> Fields]
BY DEF Owner, TaskKinds, Guards, Fields

\* The seven building steps in the order of startProcesses and startVpn.
LEMMA BuildSteps ==
  /\ Len(BuildOrder) = 7
  /\ BuildOrder[1] = "processes" /\ BuildOrder[2] = "worker"
  /\ BuildOrder[3] = "monitor" /\ BuildOrder[4] = "sslocal"
  /\ BuildOrder[5] = "localDns" /\ BuildOrder[6] = "conn"
  /\ BuildOrder[7] = "tun2socks"
BY DEF BuildOrder

\* RunningJob is None or a live session.
LEMMA RunningJobType ==
  ASSUME TypeOK
  PROVE  /\ RunningJob \in 0 .. MaxSession
         /\ RunningJob # None => RunningJob \in Sessions /\ job[RunningJob] # "none"
                                  /\ RunningJob = connectingJob
BY ConstantsAssumption DEF TypeOK, RunningJob, None, Sessions

\* The fields and the tasks that a partial build leaves are well typed.
LEMMA BuiltType ==
  ASSUME TypeOK, NEW s \in Sessions, NEW n \in 1 .. 7,
         refs["proxy"] # None \/ n <= 2
  PROVE  /\ RefsBuilt(s, n) \in [Fields -> 0 .. MaxSession]
         /\ TasksBuilt(s, n) \in SUBSET Task
<1>1. RefsBuilt(s, n) \in [Fields -> 0 .. MaxSession]
  BY ConstantsAssumption DEF RefsBuilt, TypeOK, Sessions
<1>2. ASSUME NEW k \in Built(n) \cap TaskKinds
      PROVE  <<k, IF k = "monitor" THEN refs["proxy"] ELSE s>> \in Task
  <2>1. CASE k # "monitor"
    BY <2>1 DEF Task
  <2>2. CASE k = "monitor"
    <3>1. n > 2
      BY <2>2, BuildSteps DEF Built
    <3>2. refs["proxy"] \in Sessions
      BY <3>1, ConstantsAssumption DEF TypeOK, Fields, Sessions, None
    <3> QED BY <2>2, <3>2 DEF Task
  <2> QED BY <2>1, <2>2
<1> QED BY <1>1, <1>2 DEF TasksBuilt, TypeOK

\* stopRunner keeps the types of what it assigns.
LEMMA StopRunnerType ==
  ASSUME TypeOK, NEW restart \in BOOLEAN, NEW r \in [Fields -> 0 .. MaxSession],
         NEW t \in SUBSET Task, NEW j \in 0 .. MaxSession,
         stopRunner(restart, r, t, j)
  PROVE  /\ state' \in States
         /\ cancelled' \in SUBSET Sessions
         /\ refs' \in [Fields -> 0 .. MaxSession]
         /\ tasks' \in SUBSET Task
         /\ stops' \in [StopSlots -> StopRecord]
<1> USE ConstantsAssumption
<1>0. stops \in [StopSlots -> StopRecord] /\ NoRefs \in [Fields -> 0 .. MaxSession]
  BY DEF TypeOK, StopRecord, NoRefs, None
<1>1. CASE state = "Stopping"
  BY <1>0, <1>1 DEF stopRunner, TypeOK
<1>2. CASE state # "Stopping"
  <2>1. PICK k \in StopSlots : state' = "Stopping" /\ StopBody(k, restart, r, t, j)
    BY <1>2 DEF stopRunner
  <2>2. state' \in States /\ tasks' \in SUBSET Task
    BY <2>1 DEF StopBody, States
  <2>3. CASE j = None
    <3>1. Closing(restart, Reached(r, t)) \in StopRecord
      BY DEF Closing, Reached, StopRecord, None
    <3> QED BY <1>0, <2>1, <2>2, <2>3, <3>1 DEF StopBody, TypeOK
  <2>4. CASE j # None
    <3>1. Joining(restart, j) \in StopRecord
      BY DEF Joining, StopRecord
    <3>2. j \in Sessions
      BY <2>4 DEF Sessions, None
    <3> QED BY <1>0, <2>1, <2>2, <2>4, <3>1, <3>2 DEF StopBody, TypeOK
  <2> QED BY <2>3, <2>4
<1> QED BY <1>1, <1>2

-----------------------------------------------------------------------------
(***************************************************************************)
(* Type correctness.                                                       *)
(***************************************************************************)

\* The handlers that only call stopRunner(), and the failing job, keep the types.
LEMMA StopType ==
  ASSUME TypeOK, NEW restart \in BOOLEAN, Stop(restart), startPending' \in Nat
  PROVE  TypeOK'
<1>1. stopRunner(restart, refs, tasks, RunningJob)
  BY DEF Stop
<1>2. refs \in [Fields -> 0 .. MaxSession] /\ tasks \in SUBSET Task
  BY DEF TypeOK
<1>3. /\ state' \in States /\ cancelled' \in SUBSET Sessions
      /\ refs' \in [Fields -> 0 .. MaxSession] /\ tasks' \in SUBSET Task
      /\ stops' \in [StopSlots -> StopRecord]
  BY <1>1, <1>2, RunningJobType, StopRunnerType
<1> QED BY <1>3 DEF Stop, TypeOK, StopRecord

\* The turn in which the connecting job fails keeps the types.
LEMMA JobFailType ==
  ASSUME TypeOK, NEW s \in Sessions, NEW r \in [Fields -> 0 .. MaxSession],
         NEW t \in SUBSET Task, JobFail(s, r, t)
  PROVE  TypeOK'
<1> DEFINE j == IF connectingJob = s THEN None ELSE RunningJob
<1>1. stopRunner(FALSE, r, t, j)
  BY DEF JobFail
<1>2. j \in 0 .. MaxSession
  BY RunningJobType, ConstantsAssumption DEF None
<1>3. /\ state' \in States /\ cancelled' \in SUBSET Sessions
      /\ refs' \in [Fields -> 0 .. MaxSession] /\ tasks' \in SUBSET Task
      /\ stops' \in [StopSlots -> StopRecord]
  <2> HIDE DEF j
  <2> QED BY <1>1, <1>2, StopRunnerType
<1>4. job' \in [Sessions -> JobStates] /\ connectingJob' \in 0 .. MaxSession
  BY ConstantsAssumption DEF JobFail, TypeOK, JobStates, None
<1> QED BY <1>3, <1>4 DEF JobFail, TypeOK, StopRecord

\* onStartCommand keeps the types, whichever of its returns it takes.
LEMMA StartType == ASSUME TypeOK, StartStep PROVE TypeOK'
<1> USE ConstantsAssumption
<1>1. CASE StartRefused
  <2>1. startPending' \in Nat
    BY <1>1 DEF StartRefused, TypeOK
  <2> QED BY <1>1, <2>1, StopType DEF StartRefused
<1>2. CASE StartIgnored
  BY <1>2 DEF StartIgnored, TypeOK, connectVars, resourceVars
<1>3. CASE StartInvalid
  <2>1. session' \in Sessions /\ startPending' \in Nat
    BY <1>3 DEF StartInvalid, TypeOK, Sessions
  <2>2. PICK fields \in {{}, {"proxy"}} :
          stopRunner(FALSE, [f \in Fields |-> IF f \in fields \cup {"notification"}
                                                THEN session' ELSE refs[f]],
                     tasks, RunningJob)
    BY <1>3 DEF StartInvalid
  <2> DEFINE r == [f \in Fields |-> IF f \in fields \cup {"notification"}
                                      THEN session' ELSE refs[f]]
  <2>3. r \in [Fields -> 0 .. MaxSession] /\ tasks \in SUBSET Task
    BY <2>1 DEF TypeOK, Sessions
  <2>4. /\ state' \in States /\ cancelled' \in SUBSET Sessions
        /\ refs' \in [Fields -> 0 .. MaxSession] /\ tasks' \in SUBSET Task
        /\ stops' \in [StopSlots -> StopRecord]
    <3>1. stopRunner(FALSE, r, tasks, RunningJob)
      BY <2>2
    <3> HIDE DEF r
    <3> QED BY <2>3, <3>1, RunningJobType, StopRunnerType
  <2> QED BY <1>3, <2>1, <2>4 DEF StartInvalid, TypeOK, StopRecord, Sessions
<1>4. CASE StartAccepted
  <2>1. session' \in Sessions /\ startPending' \in Nat
    BY <1>4 DEF StartAccepted, TypeOK, Sessions
  <2>2. refs' \in [Fields -> 0 .. MaxSession]
    BY <1>4, <2>1 DEF StartAccepted, TypeOK, Sessions, Fields, None
  <2>3. job' \in [Sessions -> JobStates]
    BY <1>4, <2>1 DEF StartAccepted, TypeOK, JobStates
  <2> QED BY <1>4, <2>1, <2>2, <2>3 DEF StartAccepted, TypeOK, Sessions, States
<1> QED BY <1>1, <1>2, <1>3, <1>4 DEF StartStep

\* Every turn of the connecting job keeps the types.
LEMMA JobType == ASSUME TypeOK, NEW s \in Sessions, JobStep(s) PROVE TypeOK'
<1> USE ConstantsAssumption
<1>1. CASE JobBegin(s)
  BY <1>1 DEF JobBegin, TypeOK, resourceVars, JobStates
<1>2. CASE JobFetchRules(s)
  BY <1>2 DEF JobFetchRules, TypeOK, resourceVars, JobStates
<1>3. CASE JobBuild(s)
  <2>1. RefsBuilt(s, 7) \in [Fields -> 0 .. MaxSession] /\ TasksBuilt(s, 7) \in SUBSET Task
    BY <1>3, BuiltType DEF JobBuild
  <2> QED BY <1>3, <2>1, BuildSteps DEF JobBuild, TypeOK, JobStates
<1>4. CASE JobBuildFails(s)
  <2>1. CASE JobFail(s, refs, tasks)
    BY <2>1, JobFailType DEF TypeOK
  <2>2. ASSUME NEW n \in 1 .. (IF refs["proxy"] = None THEN 2 ELSE Len(BuildOrder) - 1),
               JobFail(s, RefsBuilt(s, n), TasksBuilt(s, n))
        PROVE  TypeOK'
    <3>1. n \in 1 .. 7 /\ (refs["proxy"] # None \/ n <= 2)
      BY BuildSteps
    <3> QED BY <2>2, <3>1, BuiltType, JobFailType
  <2> QED BY <1>4, <2>1, <2>2 DEF JobBuildFails
<1>5. CASE JobConnected(s)
  BY <1>5 DEF JobConnected, TypeOK, resourceVars, JobStates, States, None
<1>6. CASE JobSendFails(s)
  <2>1. CASE JobFail(s, refs, tasks)
    BY <2>1, JobFailType DEF TypeOK
  <2>2. CASE tries <= MaxTries /\ tries' = tries + 1 /\
             UNCHANGED <<state, session, job, cancelled, connectingJob,
                         resourceVars, stops, boot, startPending>>
    BY <2>2 DEF TypeOK, resourceVars
  <2> QED BY <1>6, <2>1, <2>2 DEF JobSendFails
<1>7. CASE JobCancelled(s)
  <2>1. NoRefs \in [Fields -> 0 .. MaxSession]
    BY DEF NoRefs, None
  <2>2. stops' \in [StopSlots -> StopRecord]
    <3> DEFINE joiners == {k \in StopSlots : stops[k].pc = "joining" /\ stops[k].job = s}
    <3>1. PICK first \in joiners :
            stops' = [k \in StopSlots |->
                        IF k \notin joiners THEN stops[k]
                        ELSE Closing(stops[k].restart,
                                     IF k = first THEN Reached(refs, tasks) ELSE {})]
      BY <1>7 DEF JobCancelled
    <3>2. ASSUME NEW k \in StopSlots, NEW w \in {Reached(refs, tasks), {}}
          PROVE  Closing(stops[k].restart, w) \in StopRecord
      BY DEF Closing, Reached, StopRecord, TypeOK, None
    <3>3. stops \in [StopSlots -> StopRecord]
      BY DEF TypeOK, StopRecord
    <3> HIDE DEF joiners
    <3> QED BY <3>1, <3>2, <3>3
  <2>3. job' \in [Sessions -> JobStates] /\ connectingJob' \in 0 .. MaxSession
    BY <1>7 DEF JobCancelled, TypeOK, JobStates, None
  <2> QED BY <1>7, <2>1, <2>2, <2>3 DEF JobCancelled, TypeOK, StopRecord
<1> QED BY <1>1, <1>2, <1>3, <1>4, <1>5, <1>6, <1>7 DEF JobStep

\* Guards and listener threads, and the callbacks they post, keep the types.
LEMMA TaskType == ASSUME TypeOK, NEW t \in Task, TaskStep(t) PROVE TypeOK'
<1>1. CASE GuardFails(t)
  BY <1>1 DEF GuardFails, TypeOK, connectVars
<1>2. CASE TaskEnds(t)
  BY <1>2 DEF TaskEnds, TypeOK, connectVars
<1>3. CASE OnFatal(t)
  <2>1. refs \in [Fields -> 0 .. MaxSession] /\ tasks \in SUBSET Task
    BY DEF TypeOK
  <2>2. /\ state' \in States /\ cancelled' \in SUBSET Sessions
        /\ refs' \in [Fields -> 0 .. MaxSession] /\ tasks' \in SUBSET Task
        /\ stops' \in [StopSlots -> StopRecord]
    BY <1>3, <2>1, RunningJobType, StopRunnerType DEF OnFatal
  <2> QED BY <1>3, <2>2 DEF OnFatal, TypeOK, StopRecord
<1>4. CASE RestartSendFails(t)
  BY <1>4, StopType DEF RestartSendFails, TypeOK
<1> QED BY <1>1, <1>2, <1>3, <1>4 DEF TaskStep

\* Broadcasts, onRevoke and the user's start keep the types.
LEMMA EnvironmentType == ASSUME TypeOK, EnvironmentStep PROVE TypeOK'
<1>1. CASE CloseBroadcast
  BY <1>1, StopType DEF CloseBroadcast, TypeOK
<1>2. CASE ReloadBroadcast
  <2>1. CASE state = "Stopped"
    BY <1>2, <2>1 DEF ReloadBroadcast, startRunner, TypeOK, connectVars, resourceVars
  <2>2. CASE state # "Stopped"
    BY <1>2, <2>2, StopType DEF ReloadBroadcast, TypeOK
  <2> QED BY <2>1, <2>2
<1>3. CASE onRevoke
  BY <1>3, StopType DEF onRevoke, TypeOK
<1>4. CASE UserStart
  BY <1>4 DEF UserStart, startRunner, TypeOK, connectVars, resourceVars
<1> QED BY <1>1, <1>2, <1>3, <1>4 DEF EnvironmentStep

\* The end of a stop coroutine keeps the types.
LEMMA StopStepType == ASSUME TypeOK, StopStep PROVE TypeOK'
<1>1. PICK k \in StopSlots : StopFinish(k)
  BY DEF StopStep
<1>2. NoStop \in StopRecord
  BY ConstantsAssumption DEF NoStop, StopRecord, None
<1>3. stops' \in [StopSlots -> StopRecord]
  BY <1>1, <1>2 DEF StopFinish, TypeOK, StopRecord
<1>4. startPending' \in Nat
  BY <1>1 DEF StopFinish, startRunner, TypeOK
<1>5. boot' \in BOOLEAN
  BY <1>1, Zenon DEF StopFinish, TypeOK
<1> QED BY <1>1, <1>3, <1>4, <1>5 DEF StopFinish, TypeOK, StopRecord, States,
           connectVars, resourceVars

\* Every step keeps the types.
LEMMA TypeStep == TypeOK /\ [Next]_vars => TypeOK'
<1> SUFFICES ASSUME TypeOK, [Next]_vars PROVE TypeOK'
  OBVIOUS
<1>1. CASE UNCHANGED vars
  BY <1>1 DEF vars, connectVars, resourceVars, TypeOK
<1> QED BY <1>1, StopStepType, StartType, JobType, TaskType, EnvironmentType DEF Next

-----------------------------------------------------------------------------
(***************************************************************************)
(* The invariant, action by action.                                        *)
(***************************************************************************)

\* Unless the service is Stopping there is no stop coroutine, no cancelled job,
\* every task can be reached through its field, and the job that stopRunner
\* would join is the one of a service that is Connecting.
LEMMA NotStopping ==
  ASSUME IInv, state # "Stopping"
  PROVE  /\ \A k \in StopSlots : stops[k].pc = "none"
         /\ cancelled = {}
         /\ \A t \in tasks : refs[Owner[t[1]]] = t[2]
         /\ RunningJob = IF state = "Connecting" THEN session ELSE None
<1>1. \A k \in StopSlots : stops[k].pc = "none"
  BY DEF IInv, StopsRight, StopExclusive, ActiveStops
<1>2. state \in {"Connecting", "Connected", "Stopped"}
  BY DEF IInv, TypeOK, States
<1>3. cancelled = {}
  BY <1>2 DEF IInv, OneJob, PhaseRight, StoppedReleased, LiveJobs, TypeOK
<1>4. \A t \in tasks : refs[Owner[t[1]]] = t[2]
  <2>1. ASSUME NEW t \in tasks PROVE Owner[t[1]] \in Fields
    BY OwnerType DEF IInv, TypeOK, Task
  <2> QED BY <1>2, <2>1 DEF IInv, PhaseRight, StoppedReleased, Whole, Fresh
<1>5. CASE state = "Connecting"
  <2>1. session \in Sessions /\ connectingJob = session /\ job[session] # "none"
    BY <1>5 DEF IInv, PhaseRight, OneJob, JobReferenced, LiveJobs
  <2>2. RunningJob = session
    BY <2>1 DEF RunningJob, None, Sessions
  <2> QED BY <1>1, <1>3, <1>4, <1>5, <2>2
<1>6. CASE state # "Connecting"
  <2>1. LiveJobs = {}
    BY <1>2, <1>6 DEF IInv, PhaseRight, StoppedReleased
  <2>2. RunningJob = None
    BY <2>1, RunningJobType DEF IInv, LiveJobs
  <2> QED BY <1>1, <1>3, <1>4, <1>6, <2>2
<1> QED BY <1>5, <1>6

\* A job that is not cancelled runs only while the service is Connecting, and
\* it is the job of the current session.
LEMMA AliveConnecting ==
  ASSUME IInv, NEW s \in Sessions, Alive(s)
  PROVE  state = "Connecting" /\ s = session /\ connectingJob = s
<1>1. s \in LiveJobs /\ s = session /\ connectingJob = s
  BY DEF Alive, LiveJobs, IInv, OneJob, JobReferenced
<1>2. state # "Stopped" /\ state # "Connected"
  BY <1>1 DEF IInv, PhaseRight, StoppedReleased
<1>3. state # "Stopping"
  <2> SUFFICES ASSUME state = "Stopping" PROVE FALSE
    OBVIOUS
  <2>1. PICK k \in StopSlots : stops[k].pc # "none"
    BY DEF IInv, StopsRight, StopExclusive, ActiveStops
  <2>2. stops[k].pc \in {"joining", "closing"}
    BY <2>1 DEF IInv, TypeOK
  <2> QED BY <1>1, <2>2 DEF IInv, StopsRight, Alive
<1> QED BY <1>1, <1>2, <1>3 DEF IInv, TypeOK, States

\* stopRunner with no job to join begins to close a service all of whose tasks
\* are reached.
LEMMA BeginClosing ==
  ASSUME IInv, TypeOK', state # "Stopping",
         NEW restart \in BOOLEAN, NEW r, NEW t \in SUBSET Task,
         stopRunner(restart, r, t, None),
         \A x \in t : r[Owner[x[1]]] = x[2],
         \A s \in Sessions : job'[s] = "none"
  PROVE  IInv'
<1>1. PICK k \in StopSlots : state' = "Stopping" /\ StopBody(k, restart, r, t, None)
  BY DEF stopRunner
<1>2. /\ stops' = [stops EXCEPT ![k] = Closing(restart, Reached(r, t))]
      /\ refs' = NoRefs /\ tasks' = t /\ cancelled' = {}
  BY <1>1, NotStopping DEF StopBody
<1>3. /\ stops'[k].pc = "closing" /\ stops'[k].waits = t
      /\ \A l \in StopSlots : l # k => stops'[l] = stops[l] /\ stops[l].pc = "none"
  <2>1. Reached(r, t) = t
    BY DEF Reached
  <2> QED BY <1>2, <2>1, NotStopping DEF Closing, IInv, TypeOK
<1>4. LiveJobs' = {}
  BY DEF LiveJobs
<1>5. OneJob'
  BY <1>2, <1>4 DEF OneJob, JobReferenced
<1>6. StopsRight'
  <2>1. StopExclusive'
    BY <1>1, <1>3 DEF StopExclusive, ActiveStops
  <2> QED BY <1>2, <1>3, <1>4, <2>1 DEF StopsRight, IInv
<1>7. PhaseRight'
  BY <1>1 DEF PhaseRight, StoppedReleased
<1> QED BY <1>5, <1>6, <1>7 DEF IInv

\* stopRunner on a service that is Connecting joins its job.
LEMMA BeginJoining ==
  ASSUME IInv, TypeOK', state = "Connecting", NEW restart \in BOOLEAN,
         stopRunner(restart, refs, tasks, session),
         UNCHANGED <<session, job, connectingJob>>
  PROVE  IInv'
<1>0. session \in Sessions /\ session # None /\ session \in LiveJobs
  BY DEF IInv, PhaseRight, LiveJobs, Sessions, None
<1>1. PICK k \in StopSlots : state' = "Stopping" /\ StopBody(k, restart, refs, tasks, session)
  BY DEF stopRunner
<1>2. /\ stops' = [stops EXCEPT ![k] = Joining(restart, session)]
      /\ refs' = refs /\ tasks' = tasks /\ cancelled' = {session}
  BY <1>0, <1>1, NotStopping DEF StopBody
<1>3. /\ stops'[k].pc = "joining" /\ stops'[k].waits = {} /\ stops'[k].job = session
      /\ \A l \in StopSlots : l # k => stops'[l] = stops[l] /\ stops[l].pc = "none"
  BY <1>2, NotStopping DEF Joining, IInv, TypeOK
<1>4. LiveJobs' = LiveJobs
  BY DEF LiveJobs
<1>5. OneJob'
  BY <1>0, <1>2, <1>4 DEF OneJob, JobReferenced, IInv, LiveJobs
<1>6. StopsRight'
  <2>1. StopExclusive'
    BY <1>1, <1>3 DEF StopExclusive, ActiveStops
  <2>2. \A x \in tasks' : refs'[Owner[x[1]]] = x[2]
    BY <1>2, NotStopping
  <2> QED BY <1>2, <1>3, <2>1, <2>2 DEF StopsRight, IInv
<1>7. PhaseRight'
  BY <1>1 DEF PhaseRight, StoppedReleased
<1> QED BY <1>5, <1>6, <1>7 DEF IInv

\* A handler that calls stopRunner() and touches neither job nor session.  What
\* it does to fatals does not matter, once the service is Stopping.
LEMMA StopHandler ==
  ASSUME IInv, TypeOK', NEW restart \in BOOLEAN,
         stopRunner(restart, refs, tasks, RunningJob),
         UNCHANGED <<session, job, connectingJob>>
  PROVE  IInv'
<1>1. CASE state = "Stopping"
  <2>1. UNCHANGED <<state, stops, cancelled, refs, tasks>>
    BY <1>1 DEF stopRunner
  <2>2. OneJob'
    BY <2>1 DEF IInv, OneJob, JobReferenced, LiveJobs
  <2>3. StopsRight'
    BY <2>1 DEF IInv, StopsRight, StopExclusive, ActiveStops, LiveJobs
  <2>4. PhaseRight'
    BY <1>1, <2>1 DEF PhaseRight, StoppedReleased
  <2> QED BY <2>2, <2>3, <2>4 DEF IInv
<1>2. CASE state = "Connecting"
  BY <1>2, NotStopping, BeginJoining
<1>3. CASE state # "Stopping" /\ state # "Connecting"
  <2>1. RunningJob = None
    BY <1>3, NotStopping
  <2>2. \A s \in Sessions : job'[s] = "none"
    BY <1>3 DEF IInv, TypeOK, States, PhaseRight, StoppedReleased, LiveJobs
  <2>3. \A x \in tasks : refs[Owner[x[1]]] = x[2]
    BY <1>3, NotStopping
  <2>4. tasks \in SUBSET Task
    BY DEF IInv, TypeOK
  <2> QED BY <1>3, <2>1, <2>2, <2>3, <2>4, BeginClosing
<1> QED BY <1>1, <1>2, <1>3

\* onStartCommand keeps the inductive invariant: it builds on a service that is
\* Stopped, and so released.
LEMMA StartInv == ASSUME IInv, TypeOK', StartStep PROVE IInv'
<1> USE ConstantsAssumption
<1>1. CASE StartRefused
  BY <1>1, StopHandler DEF StartRefused, Stop
<1>2. CASE StartIgnored
  BY <1>2 DEF StartIgnored, connectVars, resourceVars, IInv, OneJob, JobReferenced,
     StopsRight, StopExclusive, PhaseRight, StoppedReleased, LiveJobs, ActiveStops,
     Fresh, Whole
<1>3. CASE StartInvalid
  <2>1. state = "Stopped" /\ RunningJob = None /\ tasks = {} /\ LiveJobs = {}
    BY <1>3, NotStopping DEF StartInvalid, IInv, PhaseRight, StoppedReleased
  <2>2. PICK r : stopRunner(FALSE, r, tasks, RunningJob)
    BY <1>3 DEF StartInvalid
  <2>3. \A s \in Sessions : job'[s] = "none"
    BY <1>3, <2>1 DEF StartInvalid, LiveJobs
  <2>4. stopRunner(FALSE, r, tasks, None)
    BY <2>1, <2>2
  <2>5. tasks \in SUBSET Task /\ \A x \in tasks : r[Owner[x[1]]] = x[2]
    BY <2>1
  <2> QED BY <2>1, <2>3, <2>4, <2>5, BeginClosing
<1>4. CASE StartAccepted
  <2>1. /\ state = "Stopped" /\ refs = NoRefs /\ tasks = {} /\ LiveJobs = {}
        /\ cancelled = {} /\ \A k \in StopSlots : stops[k].pc = "none"
    BY <1>4, NotStopping DEF StartAccepted, IInv, PhaseRight, StoppedReleased
  <2>2. session' \in Sessions /\ session' # None
    BY <1>4 DEF StartAccepted, IInv, TypeOK, Sessions, None
  <2>3. /\ LiveJobs' = {session'} /\ job'[session'] = "posted"
        /\ connectingJob' = session' /\ cancelled' = {}
    BY <1>4, <2>1, <2>2 DEF StartAccepted, LiveJobs, IInv, TypeOK
  <2>4. Fresh(session)'
    BY <1>4, <2>1, <2>2 DEF StartAccepted, Fresh, NoRefs, Fields, None
  <2>5. OneJob'
    BY <2>3 DEF OneJob, JobReferenced
  <2>6. StopsRight'
    BY <1>4, <2>1 DEF StartAccepted, IInv, StopsRight, StopExclusive, ActiveStops
  <2>7. PhaseRight'
    BY <1>4, <2>3, <2>4 DEF StartAccepted, PhaseRight, StoppedReleased
  <2> QED BY <2>5, <2>6, <2>7 DEF IInv
<1> QED BY <1>1, <1>2, <1>3, <1>4 DEF StartStep

\* After the first n building steps every task of the session can be reached.
LEMMA BuiltReached ==
  ASSUME TypeOK, NEW s \in Sessions, refs["proxy"] = s, tasks = {}, NEW n \in 1 .. 7
  PROVE  \A x \in TasksBuilt(s, n) : x[2] = s /\ RefsBuilt(s, n)[Owner[x[1]]] = x[2]
<1> SUFFICES ASSUME NEW x \in TasksBuilt(s, n)
             PROVE  x[2] = s /\ RefsBuilt(s, n)[Owner[x[1]]] = x[2]
  OBVIOUS
<1>1. PICK k \in Built(n) \cap TaskKinds : x = <<k, s>>
  BY DEF TasksBuilt
<1>2. "processes" \in Built(n)
  BY BuildSteps DEF Built
<1>3. Owner[k] \in Fields /\ (Owner[k] = "proxy" \/ Owner[k] \in Built(n))
  BY <1>1, <1>2 DEF Owner, Guards, TaskKinds, Fields
<1>4. RefsBuilt(s, n)[Owner[k]] = s
  BY <1>3 DEF RefsBuilt
<1> QED BY <1>1, <1>4

\* A whole build sets the rest of the fields and starts all the tasks.
LEMMA BuiltWhole ==
  ASSUME NEW s \in Sessions, Fresh(s)
  PROVE  /\ \A f \in Fields : RefsBuilt(s, 7)[f] = s
         /\ TasksBuilt(s, 7) = {<<k, s>> : k \in TaskKinds}
<1>1. Built(7) = {"processes", "worker", "monitor", "sslocal", "localDns", "conn",
                  "tun2socks"}
  <2>1. \A i \in 1 .. 7 : i = 1 \/ i = 2 \/ i = 3 \/ i = 4 \/ i = 5 \/ i = 6 \/ i = 7
    OBVIOUS
  <2> QED BY <2>1, BuildSteps DEF Built
<1>2. \A f \in Fields : RefsBuilt(s, 7)[f] = s
  BY <1>1 DEF RefsBuilt, Fields, Fresh
<1>3. Built(7) \cap TaskKinds = TaskKinds
  BY <1>1 DEF TaskKinds, Guards
<1>4. refs["proxy"] = s
  BY DEF Fresh, Fields
<1> QED BY <1>2, <1>3, <1>4 DEF TasksBuilt, Fresh

\* The failing job ends in the turn in which it calls stopRunner.
LEMMA JobFailInv ==
  ASSUME IInv, TypeOK', NEW s \in Sessions, Alive(s), NEW r, NEW t \in SUBSET Task,
         \A x \in t : r[Owner[x[1]]] = x[2],
         JobFail(s, r, t)
  PROVE  IInv'
<1>1. state = "Connecting" /\ s = session /\ connectingJob = s
  BY AliveConnecting
<1>2. stopRunner(FALSE, r, t, None)
  BY <1>1 DEF JobFail
<1>3. \A q \in Sessions : job'[q] = "none"
  BY <1>1 DEF JobFail, IInv, TypeOK, OneJob, JobReferenced, LiveJobs
<1> QED BY <1>1, <1>2, <1>3, BeginClosing

\* A live job that moves on without ending leaves the job conjuncts true.
LEMMA JobMoves ==
  ASSUME IInv, NEW s \in Sessions, Alive(s), NEW pc \in JobStates \ {"none"},
         job' = [job EXCEPT ![s] = pc],
         UNCHANGED <<state, session, cancelled, connectingJob, stops>>
  PROVE  /\ OneJob' /\ StopsRight' /\ LiveJobs' = LiveJobs
         /\ state' = "Connecting" /\ s = session' /\ job'[session'] = pc
<1>1. state = "Connecting" /\ s = session /\ connectingJob = s
  BY AliveConnecting
<1>2. LiveJobs' = LiveJobs
  BY DEF LiveJobs, IInv, TypeOK, Alive
<1>3. job'[s] = pc
  BY DEF IInv, TypeOK
<1>4. \A k \in StopSlots : stops[k].pc = "none"
  BY <1>1, NotStopping
<1>5. OneJob'
  BY <1>1, <1>2, NotStopping DEF OneJob, IInv, JobReferenced
<1>6. StopsRight'
  BY <1>1, <1>4 DEF StopsRight, StopExclusive, ActiveStops, IInv
<1> QED BY <1>1, <1>2, <1>3, <1>5, <1>6

\* Every turn of the connecting job keeps the inductive invariant.
LEMMA JobInv == ASSUME IInv, TypeOK', NEW s \in Sessions, JobStep(s) PROVE IInv'
<1>0. Alive(s) => state = "Connecting" /\ s = session /\ connectingJob = s
  BY AliveConnecting
<1>1. CASE JobBegin(s) \/ JobFetchRules(s)
  <2>1. PICK pc \in {"preInit", "rules"} : job' = [job EXCEPT ![s] = pc]
    BY <1>1 DEF JobBegin, JobFetchRules
  <2>2. /\ Alive(s) /\ job[s] # "sendFd"
        /\ UNCHANGED <<state, session, cancelled, connectingJob, stops, refs, tasks, fatals>>
    BY <1>1 DEF JobBegin, JobFetchRules, resourceVars
  <2>3. /\ OneJob' /\ StopsRight' /\ LiveJobs' = LiveJobs
        /\ state' = "Connecting" /\ s = session' /\ job'[session'] = pc
    BY <2>1, <2>2, JobMoves DEF JobStates
  <2>4. PhaseRight'
    BY <1>0, <2>2, <2>3 DEF PhaseRight, StoppedReleased, IInv, Fresh
  <2> QED BY <2>3, <2>4 DEF IInv
<1>2. CASE JobBuild(s)
  <2>1. /\ Alive(s) /\ job[s] # "sendFd" /\ job' = [job EXCEPT ![s] = "sendFd"]
        /\ refs' = RefsBuilt(s, 7) /\ tasks' = TasksBuilt(s, 7)
        /\ UNCHANGED <<state, session, cancelled, connectingJob, stops>>
    BY <1>2, BuildSteps DEF JobBuild
  <2>2. /\ OneJob' /\ StopsRight' /\ LiveJobs' = LiveJobs
        /\ state' = "Connecting" /\ s = session' /\ job'[session'] = "sendFd"
    BY <2>1, JobMoves DEF JobStates
  <2>3. Fresh(s)
    BY <1>0, <2>1 DEF IInv, PhaseRight
  <2>4. Whole(session)'
    BY <2>1, <2>2, <2>3, BuiltWhole DEF Whole
  <2>5. PhaseRight'
    BY <1>0, <2>1, <2>2, <2>4 DEF PhaseRight, StoppedReleased, IInv
  <2> QED BY <2>2, <2>5 DEF IInv
<1>3. CASE JobBuildFails(s)
  <2>1. CASE JobFail(s, refs, tasks)
    <3>1. Alive(s) /\ tasks \in SUBSET Task
      BY <1>3 DEF JobBuildFails, IInv, TypeOK
    <3>2. \A x \in tasks : refs[Owner[x[1]]] = x[2]
      BY <1>0, <3>1, NotStopping
    <3> QED BY <2>1, <3>1, <3>2, JobFailInv
  <2>2. ASSUME job[s] \in {"preInit", "rules"},
               NEW n \in 1 .. (IF refs["proxy"] = None THEN 2 ELSE Len(BuildOrder) - 1),
               JobFail(s, RefsBuilt(s, n), TasksBuilt(s, n))
        PROVE  IInv'
    <3>1. Alive(s) /\ Fresh(s)
      BY <1>0, <1>3, <2>2 DEF JobBuildFails, IInv, PhaseRight
    <3>2. refs["proxy"] = s /\ tasks = {} /\ s # None
      BY <3>1 DEF Fresh, Fields, Sessions, None
    <3>3. n \in 1 .. 7
      BY BuildSteps
    <3>4. TasksBuilt(s, n) \in SUBSET Task
      BY <3>2, <3>3, BuiltType DEF IInv
    <3>5. \A x \in TasksBuilt(s, n) : RefsBuilt(s, n)[Owner[x[1]]] = x[2]
      BY <3>2, <3>3, BuiltReached DEF IInv
    <3> QED BY <2>2, <3>1, <3>4, <3>5, JobFailInv
  <2> QED BY <1>3, <2>1, <2>2 DEF JobBuildFails
<1>4. CASE JobConnected(s)
  <2>1. /\ state = "Connecting" /\ s = session /\ s \notin cancelled /\ Whole(s)
        /\ \A k \in StopSlots : stops[k].pc = "none"
    BY <1>0, <1>4, NotStopping DEF JobConnected, Alive, IInv, PhaseRight
  <2>2. LiveJobs' = {}
    BY <1>4, <2>1 DEF JobConnected, LiveJobs, IInv, TypeOK, OneJob, JobReferenced
  <2>3. OneJob'
    BY <1>4, <2>1, <2>2, NotStopping DEF JobConnected, OneJob, JobReferenced
  <2>4. StopsRight'
    BY <1>4, <2>1 DEF JobConnected, StopsRight, StopExclusive, ActiveStops, IInv
  <2>5. PhaseRight'
    BY <1>4, <2>1, <2>2 DEF JobConnected, resourceVars, PhaseRight, StoppedReleased, Whole
  <2> QED BY <2>3, <2>4, <2>5 DEF IInv
<1>5. CASE JobSendFails(s)
  <2>1. CASE JobFail(s, refs, tasks)
    <3>1. Alive(s)
      BY Zenon, <1>5 DEF JobSendFails
    <3>2. state # "Stopping"
      BY <1>0, <3>1
    <3>3. \A x \in tasks : refs[Owner[x[1]]] = x[2]
      BY Zenon, <3>2, NotStopping
    <3>4. tasks \in SUBSET Task
      BY Zenon DEF IInv, TypeOK
    <3> QED BY Zenon, <2>1, <3>1, <3>3, <3>4, JobFailInv
  <2>2. CASE UNCHANGED <<state, session, job, cancelled, connectingJob,
                         resourceVars, stops, boot, startPending>>
    BY <2>2 DEF resourceVars, IInv, OneJob, JobReferenced, StopsRight, StopExclusive,
       PhaseRight, StoppedReleased, LiveJobs, ActiveStops, Fresh, Whole
  <2> QED BY <1>5, <2>1, <2>2 DEF JobSendFails
<1>6. CASE JobCancelled(s)
  <2> DEFINE joiners == {k \in StopSlots : stops[k].pc = "joining" /\ stops[k].job = s}
  <2>1. s = session /\ s \in LiveJobs
    BY <1>6 DEF JobCancelled, IInv, OneJob, JobReferenced, LiveJobs
  <2>2. state = "Stopping"
    BY <1>6, NotStopping DEF JobCancelled
  <2>3. PICK first \in joiners :
          stops' = [k \in StopSlots |->
                      IF k \notin joiners THEN stops[k]
                      ELSE Closing(stops[k].restart,
                                   IF k = first THEN Reached(refs, tasks) ELSE {})]
    BY <1>6 DEF JobCancelled
  <2>4. \A l \in StopSlots : l # first => stops[l].pc = "none"
    BY DEF IInv, StopsRight, StopExclusive, ActiveStops
  <2>5. \A x \in tasks : refs[Owner[x[1]]] = x[2]
    BY DEF IInv, StopsRight
  <2>6. /\ stops'[first].pc = "closing" /\ stops'[first].waits = tasks
        /\ \A l \in StopSlots : l # first => stops'[l] = stops[l]
    <3>1. Reached(refs, tasks) = tasks
      BY <2>5 DEF Reached
    <3> QED BY <2>3, <2>4, <3>1 DEF Closing
  <2>7. /\ LiveJobs' = {} /\ cancelled' = {} /\ refs' = NoRefs
        /\ UNCHANGED <<state, session, tasks>>
    BY <1>6, <2>1 DEF JobCancelled, LiveJobs, IInv, TypeOK, OneJob, JobReferenced
  <2>8. OneJob'
    BY <2>7 DEF OneJob, JobReferenced
  <2>9. StopsRight'
    <3>1. StopExclusive'
      BY <2>2, <2>4, <2>6, <2>7 DEF StopExclusive, ActiveStops
    <3> HIDE DEF joiners
    <3>2. ASSUME NEW k \in StopSlots, k # first
          PROVE  stops'[k].pc = "none" /\ stops'[k].waits = {}
      BY <2>4, <2>6, <3>2 DEF IInv, StopsRight
    <3> QED BY <2>6, <2>7, <3>1, <3>2 DEF StopsRight
  <2>10. PhaseRight'
    BY <2>2, <2>7 DEF PhaseRight, StoppedReleased
  <2> QED BY <2>8, <2>9, <2>10 DEF IInv
<1> QED BY <1>1, <1>2, <1>3, <1>4, <1>5, <1>6 DEF JobStep

\* Guards and listener threads, and the callbacks they post, keep the inductive
\* invariant.
LEMMA TaskInv == ASSUME IInv, TypeOK', NEW t \in Task, TaskStep(t) PROVE IInv'
<1>1. CASE GuardFails(t) \/ TaskEnds(t)
  <2>1. /\ UNCHANGED <<state, session, job, cancelled, connectingJob, refs, stops>>
        /\ tasks' \subseteq tasks /\ fatals \subseteq fatals'
        /\ tasks \cup fatals \subseteq tasks' \cup fatals' \/ state \notin canStop
    <3>1. UNCHANGED <<state, session, job, cancelled, connectingJob, refs, stops>>
      BY <1>1 DEF GuardFails, TaskEnds, connectVars
    <3>2. tasks' \subseteq tasks /\ fatals \subseteq fatals'
      BY <1>1 DEF GuardFails, TaskEnds
    <3>3. state \in canStop => ~Awaited(t)
      BY NotStopping DEF canStop, Awaited, IInv, StopsRight
    <3>4. state \in canStop => tasks \cup fatals \subseteq tasks' \cup fatals'
      BY <1>1, <3>3 DEF GuardFails, TaskEnds
    <3> QED BY <3>1, <3>2, <3>4
  <2>2. OneJob'
    BY <2>1 DEF IInv, OneJob, JobReferenced, LiveJobs
  <2>3. StopsRight'
    BY <2>1 DEF IInv, StopsRight, StopExclusive, ActiveStops, LiveJobs
  <2>4. PhaseRight'
    BY <2>1 DEF IInv, PhaseRight, StoppedReleased, LiveJobs, Fresh, Whole, canStop
  <2> QED BY <2>2, <2>3, <2>4 DEF IInv
<1>2. CASE OnFatal(t)
  BY <1>2, StopHandler DEF OnFatal
<1>3. CASE RestartSendFails(t)
  BY <1>3, StopHandler DEF RestartSendFails, Stop
<1> QED BY <1>1, <1>2, <1>3 DEF TaskStep

\* Broadcasts, onRevoke and the user's start keep the inductive invariant.
LEMMA EnvironmentInv == ASSUME IInv, TypeOK', EnvironmentStep PROVE IInv'
<1>1. CASE CloseBroadcast \/ onRevoke
  BY <1>1, StopHandler DEF CloseBroadcast, onRevoke, Stop
<1>2. CASE ReloadBroadcast /\ state # "Stopped"
  BY <1>2, StopHandler DEF ReloadBroadcast, Stop
<1>3. CASE (ReloadBroadcast /\ state = "Stopped") \/ UserStart
  <2>1. UNCHANGED <<state, connectVars, resourceVars, stops, boot>>
    BY <1>3 DEF ReloadBroadcast, UserStart
  <2> QED BY <2>1 DEF connectVars, resourceVars, IInv, OneJob, JobReferenced,
          StopsRight, StopExclusive, PhaseRight, StoppedReleased, LiveJobs,
          ActiveStops, Fresh, Whole
<1> QED BY <1>1, <1>2, <1>3 DEF EnvironmentStep

\* When the coroutineScope returns, what it waited for is all that was left.
LEMMA StopStepInv == ASSUME IInv, TypeOK', StopStep PROVE IInv'
<1>1. PICK k \in StopSlots : StopFinish(k)
  BY DEF StopStep
<1>2. /\ LiveJobs = {} /\ refs = NoRefs /\ tasks = {} /\ cancelled = {}
      /\ \A l \in StopSlots : l # k => stops[l].pc = "none"
  <2>1. LiveJobs = {} /\ refs = NoRefs /\ tasks \subseteq stops[k].waits
    BY <1>1 DEF StopFinish, IInv, StopsRight
  <2>2. tasks = {}
    BY <1>1, <2>1 DEF StopFinish
  <2>3. cancelled = {}
    BY <2>1 DEF IInv, OneJob, LiveJobs, TypeOK
  <2>4. \A l \in StopSlots : l # k => stops[l].pc = "none"
    BY <1>1 DEF StopFinish, IInv, StopsRight, StopExclusive, ActiveStops
  <2> QED BY <2>1, <2>2, <2>3, <2>4
<1>3. /\ \A l \in StopSlots : stops'[l].pc = "none" /\ stops'[l].waits = {}
      /\ state' = "Stopped" /\ UNCHANGED <<session, job, cancelled, connectingJob, refs, tasks>>
  BY <1>1, <1>2 DEF StopFinish, NoStop, IInv, TypeOK, StopsRight, connectVars, resourceVars
<1>4. LiveJobs' = {}
  BY <1>2, <1>3 DEF LiveJobs
<1>5. OneJob'
  BY <1>2, <1>3, <1>4 DEF OneJob, JobReferenced
<1>6. StopsRight'
  BY <1>3 DEF StopsRight, StopExclusive, ActiveStops
<1>7. PhaseRight'
  BY <1>2, <1>3, <1>4 DEF PhaseRight, StoppedReleased
<1> QED BY <1>5, <1>6, <1>7 DEF IInv

\* A service that was just created satisfies the inductive invariant.
LEMMA InitInv == Init => IInv
<1> SUFFICES ASSUME Init PROVE IInv
  OBVIOUS
<1>1. TypeOK
  <2>1. 0 \in 0 .. MaxSession /\ 0 \in 0 .. MaxTries + 1 /\ 0 \in Nat
    BY ConstantsAssumption
  <2>2. /\ state \in States /\ session \in 0 .. MaxSession
        /\ job \in [Sessions -> JobStates] /\ cancelled \in SUBSET Sessions
        /\ connectingJob \in 0 .. MaxSession /\ tries \in 0 .. MaxTries + 1
    BY <2>1 DEF Init, None, States, JobStates
  <2>3. refs \in [Fields -> 0 .. MaxSession]
    BY <2>1 DEF Init, NoRefs, None
  <2>4. stops \in [StopSlots -> [pc : {"none", "joining", "closing"},
                                 restart : BOOLEAN, job : 0 .. MaxSession,
                                 waits : SUBSET Task]]
    BY <2>1 DEF Init, NoStop, None
  <2>5. /\ tasks \in SUBSET Task /\ fatals \in SUBSET Task
        /\ startPending \in Nat /\ boot \in BOOLEAN
    BY Zenon, <2>1 DEF Init
  <2> QED BY Zenon, <2>2, <2>3, <2>4, <2>5 DEF TypeOK
<1>2. LiveJobs = {} /\ ActiveStops = {}
  BY DEF Init, LiveJobs, ActiveStops, NoStop
<1> QED BY <1>1, <1>2 DEF Init, IInv, OneJob, JobReferenced, StopsRight, StopExclusive,
        PhaseRight, StoppedReleased, NoStop

\* Every step keeps the inductive invariant.
LEMMA NextInv == IInv /\ [Next]_vars => IInv'
<1> SUFFICES ASSUME IInv, [Next]_vars PROVE IInv'
  OBVIOUS
<1>1. TypeOK'
  BY TypeStep DEF IInv
<1>2. CASE UNCHANGED vars
  <2>1. UNCHANGED <<state, session, job, cancelled, connectingJob, refs, tasks,
                     fatals, stops>>
    BY Zenon, <1>2 DEF vars, connectVars, resourceVars
  <2>2. OneJob'
    BY SMTT(60), <2>1 DEF IInv, OneJob, JobReferenced, LiveJobs
  <2>3. StopsRight'
    <3>1. StopsRight
      BY Zenon DEF IInv
    <3>2. LiveJobs' = LiveJobs /\ ActiveStops' = ActiveStops
      BY Zenon, <2>1 DEF LiveJobs, ActiveStops
    <3>3. StopExclusive'
      BY Zenon, <2>1, <3>1, <3>2 DEF StopsRight, StopExclusive
    <3> QED
      BY ONLY ZenonT(60), <2>1, <3>1, <3>2, <3>3 DEF StopsRight
  <2>4. PhaseRight'
    <3>1. PhaseRight
      BY Zenon DEF IInv
    <3> QED
      BY ONLY SMTT(60), <2>1, <3>1
         DEF PhaseRight, StoppedReleased, LiveJobs, Fresh, Whole
  <2> QED BY <1>1, <2>2, <2>3, <2>4 DEF IInv
<1> QED BY <1>1, <1>2, StopStepInv, StartInv, JobInv, TaskInv, EnvironmentInv DEF Next

-----------------------------------------------------------------------------
(***************************************************************************)
(* The theorems.                                                           *)
(***************************************************************************)

\* The inductive invariant holds in every reachable state of the service.
LEMMA Invariance == Spec => []IInv
BY InitInv, NextInv, PTL DEF Spec

\* Data and VpnService always hold what their declarations allow, whatever the
\* order of commands, callbacks and failures.
THEOREM TypeCorrect == Spec => []TypeOK
<1>1. IInv => TypeOK
  BY DEF IInv
<1> QED BY <1>1, Invariance, PTL

\* The early return of stopRunner is a lock: a stop coroutine exists exactly
\* while the service is Stopping, and there is never a second one.
THEOREM StopIsExclusive == Spec => []StopExclusive
<1>1. IInv => StopExclusive
  BY DEF IInv, StopsRight
<1> QED BY <1>1, Invariance, PTL

\* connectingJob refers to the only connecting coroutine there is.
THEOREM JobIsReferenced == Spec => []JobReferenced
<1>1. IInv => JobReferenced
  BY DEF IInv, OneJob
<1> QED BY <1>1, Invariance, PTL

\* A service that reports Stopped has released every field and every task.
THEOREM StoppedIsReleased == Spec => []StoppedReleased
<1>1. IInv => StoppedReleased
  BY DEF IInv, PhaseRight
<1> QED BY <1>1, Invariance, PTL

\* A service that reports Connected has built all of the current session.
THEOREM ConnectedIsComplete == Spec => []ConnectedComplete
<1>1. IInv => ConnectedComplete
  BY DEF IInv, PhaseRight, Whole, ConnectedComplete
<1> QED BY <1>1, Invariance, PTL

\* No guarded process and no listener thread is lost track of.
THEOREM NoneOrphaned == Spec => []NoOrphans
<1>1. ASSUME IInv PROVE NoOrphans
  <2>1. CASE state # "Stopping"
    BY <1>1, <2>1, NotStopping DEF NoOrphans
  <2>2. CASE state = "Stopping"
    <3>1. PICK k \in StopSlots : stops[k].pc # "none"
      BY <1>1, <2>2 DEF IInv, StopsRight, StopExclusive, ActiveStops
    <3>2. stops[k].pc \in {"joining", "closing"}
      BY <1>1, <3>1 DEF IInv, TypeOK
    <3> QED BY <1>1, <3>2 DEF NoOrphans, Awaited, IInv, StopsRight
  <2> QED BY <2>1, <2>2
<1> QED BY <1>1, Invariance, PTL

\* The connecting coroutine finds the proxy of its own session in Data.
THEOREM ProxyIsPresent == Spec => []ProxyPresent
<1>1. ASSUME IInv, NEW s \in LiveJobs \ cancelled PROVE refs["proxy"] = s
  <2>1. s \in Sessions /\ Alive(s)
    BY <1>1 DEF LiveJobs, Alive
  <2>2. state = "Connecting" /\ s = session
    BY <1>1, <2>1, AliveConnecting
  <2> QED BY <1>1, <2>2 DEF IInv, PhaseRight, Whole, Fresh, Fields
<1>2. IInv => ProxyPresent
  BY <1>1 DEF ProxyPresent
<1> QED BY <1>2, Invariance, PTL

\* `ensure stop connecting first`: no connecting coroutine is left when a stop
\* coroutine begins to release, so none can set what it has cleared.
THEOREM ConnectingStopsFirst == Spec => StopsConnectingFirst
<1>1. ASSUME IInv', NEW k \in StopSlots, stops'[k].pc = "closing", NEW s \in Sessions
      PROVE  job'[s] = "none"
  BY <1>1 DEF IInv, StopsRight, LiveJobs
<1>2. IInv' => \A k \in StopSlots :
                 stops'[k].pc = "closing" /\ stops[k].pc # "closing"
                   => \A s \in Sessions : job'[s] = "none"
  BY <1>1
<1> QED BY <1>2, Invariance, PTL DEF StopsConnectingFirst
=============================================================================

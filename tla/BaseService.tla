---------------------------- MODULE BaseService ----------------------------
(***************************************************************************)
(* The life cycle of the VPN service: BaseService.Interface and            *)
(* BaseService.Data as VpnService completes them.                          *)
(*                                                                         *)
(* All of it runs on the main thread of the ":bg" process, so an action is *)
(* one turn of the main looper: what a handler does until it returns, or   *)
(* what a coroutine does until it next suspends.  A session is one         *)
(* accepted start command.  Between its turns the connecting coroutine     *)
(* (`job`) waits in preInit, in the download of the custom rules or in     *)
(* sendFd, and a stop coroutine (`stops`) waits for that job, then for the *)
(* tasks it has shut down.                                                 *)
(*                                                                         *)
(* Posted turns are not kept in a queue.  User and system events may       *)
(* arrive at any time, so handling them in any order is what a FIFO looper *)
(* does for some arrival times; the turns of one component are ordered by  *)
(* that component's own state.  onDestroy only closes the binder, which is *)
(* not part of this module; a client that is bound keeps it from running.  *)
(***************************************************************************)
EXTENDS Naturals, Sequences

CONSTANTS
  MaxSession,   \* bound: accepted start commands in a behaviour
  MaxPending,   \* bound: start commands delivered and not yet handled
  MaxTries,     \* sendFd gives up when tries > MaxTries (5 in the code)
  StopSlots     \* bound: stop coroutines that can be suspended at one time

ASSUME ConstantsAssumption ==
  /\ MaxSession \in Nat \ {0}
  /\ MaxPending \in Nat \ {0}
  /\ MaxTries \in Nat
  /\ StopSlots # {}

Sessions == 1 .. MaxSession
None == 0

VARIABLES
  state,          \* Data.state
  session,        \* the number of start commands accepted so far
  job,            \* where the connecting coroutine of each session waits
  cancelled,      \* the jobs that are cancelled and have not ended yet
  connectingJob,  \* Data.connectingJob: a session, or None
  tries,          \* sendFd's counter
  refs,           \* the fields of Data and VpnService, by the session that set them
  tasks,          \* the guards and listener threads that are running
  fatals,         \* the guards whose onFatal has been posted to the main thread
  stops,          \* the stop coroutines
  boot,           \* BootReceiver.enabled
  startPending    \* start commands delivered to the main thread

connectVars == <<session, job, cancelled, connectingJob, tries>>
resourceVars == <<refs, tasks, fatals>>
vars == <<state, connectVars, resourceVars, stops, boot, startPending>>

States == {"Connecting", "Connected", "Stopping", "Stopped"}
canStop == {"Connecting", "Connected"}
JobStates == {"none", "posted", "preInit", "rules", "sendFd"}

(***************************************************************************)
(* What a session builds.  A field holds what must be released; a task is  *)
(* a guarded process or a listener thread, shut down through the field     *)
(* Owner names.  proxy stands for the pair proxy, udpFallback.             *)
(***************************************************************************)
Fields == {"notification", "receiver", "proxy", "processes", "worker",
           "localDns", "conn"}
Guards == {"sslocal", "tun2socks"}
TaskKinds == Guards \cup {"worker", "monitor", "localDns"}
Owner == [k \in TaskKinds |-> IF k \in Guards THEN "processes"
                              ELSE IF k = "monitor" THEN "proxy" ELSE k]
Task == TaskKinds \X Sessions
NoRefs == [f \in Fields |-> None]

\* The order in which a job builds a session, from the pool to tun2socks.
BuildOrder == <<"processes", "worker", "monitor", "sslocal", "localDns",
                "conn", "tun2socks">>
Built(n) == {BuildOrder[i] : i \in 1 .. n}

NoStop == [pc |-> "none", restart |-> FALSE, job |-> None, waits |-> {}]
Awaited(t) == \E k \in StopSlots : t \in stops[k].waits
RunningJob == IF connectingJob = None THEN None
              ELSE IF job[connectingJob] = "none" THEN None ELSE connectingJob

Init ==
  /\ state = "Stopped"
  /\ session = 0
  /\ job = [s \in Sessions |-> "none"]
  /\ cancelled = {}
  /\ connectingJob = None
  /\ tries = 0
  /\ refs = NoRefs
  /\ tasks = {}
  /\ fatals = {}
  /\ stops = [k \in StopSlots |-> NoStop]
  /\ boot \in BOOLEAN
  /\ startPending = 0

-----------------------------------------------------------------------------
(***************************************************************************)
(* Stopping.  The parameters r and t are the fields and the tasks at the   *)
(* time of the call, j is the connecting job that has to be joined.        *)
(***************************************************************************)

Closing(restart, waits) ==
  [pc |-> "closing", restart |-> restart, job |-> None, waits |-> waits]
Joining(restart, j) ==
  [pc |-> "joining", restart |-> restart, job |-> j, waits |-> {}]

\* Mutant: killProcesses forgets the ProtectWorker.
ReachedButWorker(r, t) == {x \in t : x[1] # "worker" /\ r[Owner[x[1]]] = x[2]}

\* killProcesses and the rest of the coroutineScope release every field and
\* shut down the tasks that are reached through one.
Reached(r, t) == {x \in t : r[Owner[x[1]]] = x[2]}

\* Mutant: the connecting job is neither cancelled nor joined.
StopBodyUnjoined(k, restart, r, t, j) ==
  /\ tasks' = t
  /\ stops' = [stops EXCEPT ![k] = Closing(restart, Reached(r, t))]
  /\ refs' = NoRefs
  /\ UNCHANGED cancelled

\* The stop coroutine until it suspends: in the join of a running job, or
\* after the release, in the wait for the tasks.
StopBody(k, restart, r, t, j) ==
  /\ tasks' = t
  /\ \/ /\ j = None
        /\ stops' = [stops EXCEPT ![k] = Closing(restart, Reached(r, t))]
        /\ refs' = NoRefs
        /\ UNCHANGED cancelled
     \/ /\ j # None
        /\ stops' = [stops EXCEPT ![k] = Joining(restart, j)]
        /\ refs' = r
        /\ cancelled' = cancelled \cup {j}

\* Mutant: no early return while the service is Stopping.
stopRunnerAgain(restart, r, t, j) ==
  \E k \in StopSlots :
    /\ stops[k].pc = "none"
    /\ state' = "Stopping"
    /\ StopBody(k, restart, r, t, j)

stopRunner(restart, r, t, j) ==
  IF state = "Stopping"
    THEN refs' = r /\ tasks' = t /\ UNCHANGED <<state, stops, cancelled>>
    ELSE \E k \in StopSlots :
           /\ stops[k].pc = "none"
           /\ state' = "Stopping"
           /\ StopBody(k, restart, r, t, j)

\* A call of stopRunner() from a handler that changes nothing else.
Stop(restart) ==
  /\ stopRunner(restart, refs, tasks, RunningJob)
  /\ UNCHANGED <<session, job, connectingJob, tries, fatals, boot>>

\* startForegroundService: the command comes back as an onStartCommand.
startRunner == startPending' = startPending + 1

\* Mutant: the coroutineScope does not wait for its children.
StopFinishEarly(k) ==
  /\ stops[k].pc = "closing"
  /\ state' = "Stopped"
  /\ stops' = [stops EXCEPT ![k] = NoStop]
  /\ startPending' = startPending + (IF stops[k].restart THEN 1 ELSE 0)
  /\ boot' = (boot /\ stops[k].restart)
  /\ UNCHANGED <<connectVars, resourceVars>>

\* Every task that was shut down has ended and the coroutineScope returns.
StopFinish(k) ==
  /\ stops[k].pc = "closing"
  /\ stops[k].waits \cap tasks = {}
  /\ state' = "Stopped"
  /\ stops' = [stops EXCEPT ![k] = NoStop]
  /\ \/ /\ stops[k].restart
        /\ startRunner
        /\ UNCHANGED boot
     \/ /\ ~stops[k].restart
        /\ boot' = FALSE
        /\ UNCHANGED startPending
  /\ UNCHANGED <<connectVars, resourceVars>>

-----------------------------------------------------------------------------
(***************************************************************************)
(* Start commands.                                                         *)
(***************************************************************************)

\* VpnService.onStartCommand: another service mode is selected, or the user
\* has not consented to the VPN and VpnRequestActivity is shown.
StartRefused ==
  /\ startPending > 0
  /\ startPending' = startPending - 1
  /\ Stop(FALSE)

StartIgnored ==
  /\ startPending > 0
  /\ state # "Stopped"
  /\ startPending' = startPending - 1
  /\ UNCHANGED <<state, connectVars, resourceVars, stops, boot>>

\* No profile is selected, or ProxyInstance rejects the profile (fields = {})
\* or its UDP fallback (fields = {"proxy"}).
StartInvalid ==
  /\ startPending > 0
  /\ state = "Stopped"
  /\ session < MaxSession
  /\ startPending' = startPending - 1
  /\ session' = session + 1
  /\ \E fields \in {{}, {"proxy"}} :
       stopRunner(FALSE, [f \in Fields |-> IF f \in fields \cup {"notification"}
                                             THEN session' ELSE refs[f]],
                  tasks, RunningJob)
  /\ UNCHANGED <<job, connectingJob, tries, fatals, boot>>

StartAccepted ==
  /\ startPending > 0
  /\ state = "Stopped"
  /\ session < MaxSession
  /\ startPending' = startPending - 1
  /\ session' = session + 1
  /\ state' = "Connecting"
  /\ refs' = [refs EXCEPT !["proxy"] = session', !["notification"] = session',
                          !["receiver"] = IF @ = None THEN session' ELSE @]
  /\ job' = [job EXCEPT ![session'] = "posted"]
  /\ connectingJob' = session'
  /\ tries' = 0
  /\ boot' \in BOOLEAN
  /\ UNCHANGED <<cancelled, tasks, fatals, stops>>

-----------------------------------------------------------------------------
(***************************************************************************)
(* The connecting job.                                                     *)
(***************************************************************************)
Alive(s) == job[s] # "none" /\ s \notin cancelled

\* killAll() and the first part of preInit().
JobBegin(s) ==
  /\ Alive(s)
  /\ job[s] = "posted"
  /\ job' = [job EXCEPT ![s] = "preInit"]
  /\ UNCHANGED <<state, session, cancelled, connectingJob, tries, resourceVars,
                 stops, boot, startPending>>

\* preInit() is done and the profile uses the custom rules.
JobFetchRules(s) ==
  /\ Alive(s)
  /\ job[s] = "preInit"
  /\ job' = [job EXCEPT ![s] = "rules"]
  /\ UNCHANGED <<state, session, cancelled, connectingJob, tries, resourceVars,
                 stops, boot, startPending>>

\* The fields and the tasks of session s after the first n building steps.
RefsBuilt(s, n) == [f \in Fields |-> IF f \in Built(n) THEN s ELSE refs[f]]
TasksBuilt(s, n) ==
  tasks \cup {<<k, IF k = "monitor" THEN refs["proxy"] ELSE s>> :
                k \in Built(n) \cap TaskKinds}

\* Everything up to tun2socks is up; the job waits in sendFd.
JobBuild(s) ==
  /\ Alive(s)
  /\ job[s] \in {"preInit", "rules"}
  /\ refs["proxy"] # None
  /\ job' = [job EXCEPT ![s] = "sendFd"]
  /\ tries' = 0
  /\ refs' = RefsBuilt(s, Len(BuildOrder))
  /\ tasks' = TasksBuilt(s, Len(BuildOrder))
  /\ UNCHANGED <<state, session, cancelled, connectingJob, fatals, stops, boot,
                 startPending>>

\* The job throws after n building steps: it calls stopRunner(), and ends in
\* the same turn, so the stop coroutine has no job of its own to wait for.
JobFail(s, r, t) ==
  /\ stopRunner(FALSE, r, t, IF connectingJob = s THEN None ELSE RunningJob)
  /\ job' = [job EXCEPT ![s] = "none"]
  /\ connectingJob' = None
  /\ UNCHANGED <<session, tries, fatals, boot, startPending>>

\* The download fails (n = 0), or the step after the n-th one does.
JobBuildFails(s) ==
  /\ Alive(s)
  /\ \/ job[s] = "rules" /\ JobFail(s, refs, tasks)
     \/ /\ job[s] \in {"preInit", "rules"}
        /\ \E n \in 1 .. (IF refs["proxy"] = None THEN 2 ELSE Len(BuildOrder) - 1) :
             JobFail(s, RefsBuilt(s, n), TasksBuilt(s, n))

\* Mutant: sendFd blocks instead of delaying, and cannot be cancelled.
JobConnectedUncancellable(s) ==
  /\ job[s] = "sendFd"
  /\ state' = "Connected"
  /\ job' = [job EXCEPT ![s] = "none"]
  /\ connectingJob' = None
  /\ UNCHANGED <<session, cancelled, tries, resourceVars, stops, boot, startPending>>

\* sendFd: the delay has passed and the descriptor is sent, or not.
JobConnected(s) ==
  /\ Alive(s)
  /\ job[s] = "sendFd"
  /\ state' = "Connected"
  /\ job' = [job EXCEPT ![s] = "none"]
  /\ connectingJob' = None
  /\ UNCHANGED <<session, cancelled, tries, resourceVars, stops, boot, startPending>>

JobSendFails(s) ==
  /\ Alive(s)
  /\ job[s] = "sendFd"
  /\ \/ tries > MaxTries /\ JobFail(s, refs, tasks)
     \/ /\ tries <= MaxTries
        /\ tries' = tries + 1
        /\ UNCHANGED <<state, session, job, cancelled, connectingJob,
                       resourceVars, stops, boot, startPending>>

\* A cancelled job resumes with CancellationException.  One that never began
\* does not reach its finally block and leaves connectingJob as it is.  The
\* end of the job resumes, in the same turn, the stop coroutine that joins it.
JobCancelled(s) ==
  LET joiners == {k \in StopSlots : stops[k].pc = "joining" /\ stops[k].job = s} IN
  /\ s \in cancelled
  /\ job' = [job EXCEPT ![s] = "none"]
  /\ cancelled' = cancelled \ {s}
  /\ connectingJob' = IF job[s] = "posted" THEN connectingJob ELSE None
  /\ \E first \in joiners :
       stops' = [k \in StopSlots |->
                   IF k \notin joiners THEN stops[k]
                   ELSE Closing(stops[k].restart,
                                IF k = first THEN Reached(refs, tasks) ELSE {})]
  /\ refs' = NoRefs
  /\ UNCHANGED <<state, session, tries, tasks, fatals, boot, startPending>>

-----------------------------------------------------------------------------
(***************************************************************************)
(* Guards and listener threads.                                            *)
(***************************************************************************)

\* A guarded process exits too fast or cannot be restarted, in a pool that is
\* not being closed, or its restart callback throws.  The guard posts onFatal;
\* it is gone at once, or it has a process to kill and may wait for ever.
GuardFails(t) ==
  /\ t \in tasks
  /\ t[1] \in Guards
  /\ t \notin fatals
  /\ ~Awaited(t)
  /\ fatals' = fatals \cup {t}
  /\ tasks' \in {tasks, tasks \ {t}}
  /\ UNCHANGED <<state, connectVars, refs, stops, boot, startPending>>

\* Mutant: the shutdown of a listener does not wake its thread in accept().
TaskEndsDeaf(t) ==
  /\ t \in tasks
  /\ t[1] \in Guards
  /\ Awaited(t)
  /\ tasks' = tasks \ {t}
  /\ UNCHANGED <<state, connectVars, refs, fatals, stops, boot, startPending>>

\* A task that has been shut down ends.
TaskEnds(t) ==
  /\ t \in tasks
  /\ Awaited(t) \/ t \in fatals
  /\ tasks' = tasks \ {t}
  /\ UNCHANGED <<state, connectVars, refs, fatals, stops, boot, startPending>>

\* The posted onFatal runs.  It belongs to a pool, but stops the service
\* whatever session is running by then.
OnFatal(t) ==
  /\ t \in fatals
  /\ fatals' = fatals \ {t}
  /\ stopRunner(FALSE, refs, tasks, RunningJob)
  /\ UNCHANGED <<session, job, connectingJob, tries, boot, startPending>>

\* tun2socks was restarted and sending it the descriptor raised ErrnoException.
RestartSendFails(t) ==
  /\ t \in tasks
  /\ t[1] = "tun2socks"
  /\ t \notin fatals
  /\ ~Awaited(t)
  /\ Stop(FALSE)
  /\ UNCHANGED startPending

-----------------------------------------------------------------------------
(***************************************************************************)
(* The user and the system.                                                *)
(***************************************************************************)

\* closeReceiver, Action.CLOSE.
CloseBroadcast ==
  /\ refs["receiver"] # None
  /\ Stop(FALSE)
  /\ UNCHANGED startPending

\* closeReceiver, Action.RELOAD: forceLoad().
ReloadBroadcast ==
  /\ refs["receiver"] # None
  /\ IF state = "Stopped"
       THEN /\ startRunner
            /\ UNCHANGED <<state, connectVars, resourceVars, stops, boot>>
       ELSE /\ state \in canStop
            /\ Stop(TRUE)
            /\ UNCHANGED startPending

\* The system revokes the VPN while its interface is up.
onRevoke ==
  /\ refs["conn"] # None
  /\ Stop(FALSE)
  /\ UNCHANGED startPending

UserStart ==
  /\ startPending < MaxPending
  /\ startRunner
  /\ UNCHANGED <<state, connectVars, resourceVars, stops, boot>>

-----------------------------------------------------------------------------
StopStep == \E k \in StopSlots : StopFinish(k)
StartStep == StartRefused \/ StartIgnored \/ StartInvalid \/ StartAccepted
JobStep(s) ==
  \/ JobBegin(s) \/ JobFetchRules(s) \/ JobBuild(s) \/ JobBuildFails(s)
  \/ JobConnected(s) \/ JobSendFails(s) \/ JobCancelled(s)
TaskStep(t) == GuardFails(t) \/ TaskEnds(t) \/ OnFatal(t) \/ RestartSendFails(t)
EnvironmentStep ==
  \/ CloseBroadcast \/ ReloadBroadcast \/ onRevoke
  \/ UserStart

Next ==
  \/ StopStep
  \/ StartStep
  \/ \E s \in Sessions : JobStep(s)
  \/ \E t \in Task : TaskStep(t)
  \/ EnvironmentStep

Spec == Init /\ [][Next]_vars

TypeOK ==
  /\ state \in States
  /\ session \in 0 .. MaxSession
  /\ job \in [Sessions -> JobStates]
  /\ cancelled \in SUBSET Sessions
  /\ connectingJob \in 0 .. MaxSession
  /\ tries \in 0 .. MaxTries + 1
  /\ refs \in [Fields -> 0 .. MaxSession]
  /\ tasks \in SUBSET Task
  /\ fatals \in SUBSET Task
  /\ stops \in [StopSlots -> [pc : {"none", "joining", "closing"},
                              restart : BOOLEAN, job : 0 .. MaxSession,
                              waits : SUBSET Task]]
  /\ startPending \in Nat
  /\ boot \in BOOLEAN

-----------------------------------------------------------------------------
(***************************************************************************)
(* Safety.                                                                 *)
(***************************************************************************)
LiveJobs == {s \in Sessions : job[s] # "none"}
ActiveStops == {k \in StopSlots : stops[k].pc # "none"}

\* The guard `state == Stopping -> return` of stopRunner is a lock: there is a
\* stop coroutine exactly while the state is Stopping, and never a second one
\* whose changeState(Stopped) would come in the middle of a later session.
StopExclusive ==
  /\ (state = "Stopping") <=> (ActiveStops # {})
  /\ \A k, l \in ActiveStops : k = l

\* Two connecting coroutines never run at a time, and connectingJob refers to
\* the one that does, so that stopRunner can cancel it: a coroutine it does not
\* refer to would go on building into the next session.
JobReferenced == \A s \in LiveJobs : connectingJob = s /\ s = session

\* Stopped means released: no field of Data or VpnService is left set, no
\* guarded process and no listener thread still runs, no job is pending.
StoppedReleased == state = "Stopped" => refs = NoRefs /\ tasks = {} /\ LiveJobs = {}

\* Connected means complete: every field is set by the current session and
\* every task runs, or has failed and has its onFatal on the way.
ConnectedComplete ==
  state = "Connected" =>
    /\ \A f \in Fields : refs[f] = session
    /\ \A k \in TaskKinds : <<k, session>> \in tasks \cup fatals

\* Nothing is lost track of: a running task can be reached through the field
\* that owns it, or a stop coroutine is waiting for it.  The assignments
\* `data.processes = GuardedProcessPool {...}` and `worker = ProtectWorker()`
\* overwrite their fields without looking at what was there.
NoOrphans == \A t \in tasks : refs[Owner[t[1]]] = t[2] \/ Awaited(t)

\* The `data.proxy!!` of startProcesses, startVpn and the connecting job finds
\* the proxy of its own session.
ProxyPresent == \A s \in LiveJobs \ cancelled : refs["proxy"] = s

\* `data.connectingJob?.cancelAndJoin() // ensure stop connecting first`: when a
\* stop coroutine begins to release the fields, no connecting job is left that
\* could set them again.
StopsConnectingFirst ==
  [][\A k \in StopSlots :
       stops'[k].pc = "closing" /\ stops[k].pc # "closing"
         => \A s \in Sessions : job'[s] = "none"]_vars

(***************************************************************************)
(* The promise to the clients of the service.                              *)
(***************************************************************************)
Holders ==
  ({refs[f] : f \in Fields} \ {None}) \cup {t[2] : t \in tasks} \cup LiveJobs

Lifecycle == INSTANCE ServiceLifecycle WITH phase <- state, holders <- Holders

\* The service goes through its states in the promised order, and the sessions
\* that hold resources or run code are at most one, none when it is Stopped.
ImplementsLifecycle == Lifecycle!Spec

(***************************************************************************)
(* Liveness.  The main looper runs what is posted to it, and a listener    *)
(* thread leaves accept() when its socket is shut down.  Nothing is        *)
(* assumed of the user, the network or the remote server: there is no      *)
(* fairness on the download of the rules.  It has no time limit, and the   *)
(* blocking read in it does not notice that the job is cancelled.  There   *)
(* is none on the end of a guard either, which may wait for an exit code   *)
(* that never comes (GuardedProcessPool).                                  *)
(***************************************************************************)
Fairness ==
  /\ \A k \in StopSlots : WF_vars(StopFinish(k))
  /\ \A t \in Task : (t[1] \notin Guards => WF_vars(TaskEnds(t))) /\ WF_vars(OnFatal(t))
  /\ \A s \in Sessions : WF_vars(job[s] # "rules" /\ JobStep(s))
FairSpec == Spec /\ Fairness

\* A guard that a stop waits for ends.  GuardedProcessPool says when it does.
GuardsEnd == \A t \in Guards \X Sessions : []<>~(t \in tasks /\ Awaited(t))

\* Connecting ends, unless the job is in the download of the custom rules:
\* sendFd gives up after MaxTries retries.  Stopping ends if the guards do, with
\* the same exception: cancelAndJoin, the join of the pool and the shutdown of
\* the listeners do not wait for each other, and nothing else is waited for.
TransientStatesEnd ==
  LET rules == \E s \in Sessions : job[s] = "rules" IN
  /\ GuardsEnd => (state = "Stopping" /\ ~rules ~> state = "Stopped")
  /\ state = "Connecting" ~> (state # "Connecting" \/ rules)
=============================================================================

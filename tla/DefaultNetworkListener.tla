----------------------- MODULE DefaultNetworkListener -----------------------
(***************************************************************************)
(* The actor that follows the system's default network, and the VPN        *)
(* services that use it.  The actor handles one message at a time, in the  *)
(* thread of whoever sends it, so a message is one step; the sender of a   *)
(* Get then waits for the response.  The system's callbacks are delivered  *)
(* in order, some time after the change they tell of.                      *)
(***************************************************************************)
EXTENDS Naturals, Sequences

CONSTANTS
  Networks,   \* the networks of the device
  Services,   \* the VpnService objects of the process's life, 1 .. n
  MaxCalls,   \* bound: callbacks on their way
  MaxGets     \* bound: the Get messages of a behaviour

None == 0
ASSUME NetworkAssumption ==
  /\ None \notin Networks
  /\ MaxCalls \in Nat \ {0}
  /\ MaxGets \in Nat
  /\ Services # {} /\ Services \subseteq Nat

VARIABLES
  default,     \* the system's default network, or None
  registered,  \* Callback is registered with ConnectivityManager
  calls,       \* its calls on their way, oldest first
  listeners,   \* the keys of the actor's listeners
  network,     \* the actor's network, or None
  pending,     \* pendingRequests, as the numbers of the Get messages
  gets,        \* the number of Get messages sent so far
  waiting,     \* the Get messages somebody waits for
  underlying,  \* VpnService.underlyingNetwork of each service
  service,     \* the service object that is in use
  stage,       \* how far its session is, see Stages
  active,      \* VpnService.active of that service
  builder,     \* the underlying network the VPN's builder was given
  vpn,         \* the underlying network the system knows for the VPN
  onMain       \* callbacks run on the main thread (from API 26 on)

actorVars == <<listeners, network, pending>>
serviceVars == <<service, stage, active, builder>>
vars == <<default, registered, calls, actorVars, gets, waiting, underlying,
          serviceVars, vpn, onMain>>

\* "activated" and "configured" are places inside one turn of the main thread.
Stages == {"stopped", "started", "getting", "activated", "configured", "up", "failed"}

Call == {"Put", "Update", "Lost"} \X Networks

TypeOK ==
  /\ default \in Networks \cup {None}
  /\ registered \in BOOLEAN
  /\ calls \in Seq(Call) /\ Len(calls) <= MaxCalls
  /\ listeners \subseteq Services
  /\ network \in Networks \cup {None}
  /\ gets \in 0 .. MaxGets
  /\ pending \subseteq 1 .. gets /\ waiting \subseteq 1 .. gets
  /\ underlying \in [Services -> Networks \cup {None}]
  /\ service \in Services
  /\ stage \in Stages
  /\ active \in BOOLEAN /\ onMain \in BOOLEAN
  /\ builder \in Networks \cup {None} /\ vpn \in Networks \cup {None}

Init ==
  /\ default \in Networks \cup {None}
  /\ registered = FALSE
  /\ calls = <<>>
  /\ listeners = {}
  /\ network = None
  /\ pending = {}
  /\ gets = 0
  /\ waiting = {}
  /\ underlying = [s \in Services |-> None]
  /\ service \in Services
  /\ stage = "stopped"
  /\ active = FALSE
  /\ builder = None
  /\ vpn = None
  /\ onMain \in BOOLEAN

-----------------------------------------------------------------------------
(***************************************************************************)
(* The system.                                                             *)
(***************************************************************************)

\* register(): the current network, if any, is reported first.
register ==
  /\ registered' = TRUE
  /\ calls' = IF default = None THEN <<>> ELSE <<<<"Put", default>>>>

\* The default network changes, changes its capabilities, or is lost.
Reports(kind, n) ==
  /\ Len(calls) < MaxCalls
  /\ calls' = IF registered THEN Append(calls, <<kind, n>>) ELSE calls
  /\ UNCHANGED <<registered, actorVars, gets, waiting, underlying, serviceVars, vpn, onMain>>

NetworkAvailable(n) ==
  /\ n # default
  /\ default' = n
  /\ Reports("Put", n)

CapabilitiesChanged ==
  /\ default # None
  /\ Reports("Update", default)
  /\ UNCHANGED default

NetworkLost ==
  /\ default # None
  /\ default' = None
  /\ Reports("Lost", default)

-----------------------------------------------------------------------------
(***************************************************************************)
(* The actor.                                                              *)
(***************************************************************************)

\* The listener of a service sets its underlyingNetwork, and an active service
\* passes it on; the system ignores that while there is no VPN.
Tell(keys, n) ==
  /\ underlying' = [s \in Services |-> IF s \in keys THEN n ELSE underlying[s]]
  /\ vpn' = IF service \in keys /\ active /\ stage = "up" THEN n ELSE vpn

\* Mutant: the requests are forgotten before they are answered.
HandlePutForgets(n) ==
  /\ network' = n
  /\ pending' = {}
  /\ Tell(listeners, n)
  /\ UNCHANGED waiting

HandlePut(n) ==
  /\ network' = n
  /\ pending' = {}
  /\ waiting' = waiting \ pending
  /\ Tell(listeners, n)

HandleUpdate(n) ==
  /\ Tell(IF network = n THEN listeners ELSE {}, n)
  /\ UNCHANGED <<network, pending, waiting>>

\* Mutant: the listeners do not hear of a loss.
HandleLostSilently(n) ==
  /\ network' = IF network = n THEN None ELSE network
  /\ UNCHANGED <<pending, waiting, underlying, vpn>>

\* Mutant: a network is kept when it is lost.
HandleLostIgnored(n) == UNCHANGED <<network, underlying, vpn, pending, waiting>>

HandleLost(n) ==
  /\ IF network = n THEN network' = None /\ Tell(listeners, None)
                    ELSE UNCHANGED <<network, underlying, vpn>>
  /\ UNCHANGED <<pending, waiting>>

\* Callback.onAvailable, onCapabilitiesChanged and onLost.
Callback ==
  /\ calls # <<>>
  /\ onMain => stage \notin {"activated", "configured"}
  /\ calls' = Tail(calls)
  /\ LET kind == Head(calls)[1]
         n == Head(calls)[2]
     IN  \/ kind = "Put" /\ HandlePut(n)
         \/ kind = "Update" /\ HandleUpdate(n)
         \/ kind = "Lost" /\ HandleLost(n)
  /\ UNCHANGED <<default, registered, listeners, gets, serviceVars, onMain>>

HandleStart(key) ==
  /\ IF listeners = {} THEN register ELSE UNCHANGED <<registered, calls>>
  /\ listeners' = listeners \cup {key}
  /\ Tell(IF network = None THEN {} ELSE {key}, network)
  /\ UNCHANGED <<network, pending>>

HandleGet(r) ==
  /\ pending' = IF network = None THEN pending \cup {r} ELSE pending
  /\ waiting' = IF network = None THEN waiting \cup {r} ELSE waiting
  /\ UNCHANGED <<listeners, network>>

HandleStop(keys) ==
  LET last == listeners # {} /\ listeners \cap keys # {} /\ listeners \ keys = {} IN
  /\ listeners' = listeners \ keys
  /\ network' = IF last THEN None ELSE network
  /\ registered' = (registered /\ ~last)
  /\ calls' = IF last THEN <<>> ELSE calls
  /\ UNCHANGED pending

-----------------------------------------------------------------------------
(***************************************************************************)
(* The service.                                                            *)
(***************************************************************************)

\* A service that is stopped may be destroyed and another one created.
Recreate ==
  /\ stage = "stopped"
  /\ service' \in {s \in Services : s = service + 1}
  /\ UNCHANGED <<default, registered, calls, actorVars, gets, waiting, underlying,
                 stage, active, builder, vpn, onMain>>

preInit ==
  /\ stage = "stopped"
  /\ stage' = "started"
  /\ HandleStart(service)
  /\ UNCHANGED <<default, gets, waiting, service, active, builder, onMain>>

\* The download of the custom rules opens its connections one by one.
openConnection ==
  /\ stage \in {"started", "getting"}
  /\ waiting = {}
  /\ gets < MaxGets
  /\ gets' = gets + 1
  /\ stage' = "getting"
  /\ HandleGet(gets + 1)
  /\ UNCHANGED <<default, registered, calls, underlying, service, active, builder,
                 vpn, onMain>>

\* Mutant: the service is not marked active.
ActivateNot ==
  /\ stage \in {"started", "getting"}
  /\ waiting = {}
  /\ stage' = "activated"
  /\ UNCHANGED <<default, registered, calls, actorVars, gets, waiting, underlying,
                 service, active, builder, vpn, onMain>>

\* The steps of startVpn between which a callback on another thread can come.
Activate ==
  /\ stage \in {"started", "getting"}
  /\ waiting = {}
  /\ stage' = "activated"
  /\ active' = TRUE
  /\ UNCHANGED <<default, registered, calls, actorVars, gets, waiting, underlying,
                 service, builder, vpn, onMain>>

Configure ==
  /\ stage = "activated"
  /\ stage' = "configured"
  /\ builder' = underlying[service]
  /\ UNCHANGED <<default, registered, calls, actorVars, gets, waiting, underlying,
                 service, active, vpn, onMain>>

\* establish() makes the VPN, or returns null if the consent is gone.
Establish ==
  /\ stage = "configured"
  /\ \/ stage' = "up" /\ vpn' = builder
     \/ stage' = "failed" /\ UNCHANGED vpn
  /\ UNCHANGED <<default, registered, calls, actorVars, gets, waiting, underlying,
                 service, active, builder, onMain>>

\* What `DefaultNetworkListener.stop(this)` passes inside scope.launch {...} is
\* the coroutine's scope, which is the key of no listener.
StopKey == {}

\* killProcesses, after the connecting job and its Get were cancelled.
killProcesses ==
  /\ stage \in {"started", "getting", "up", "failed"}
  /\ stage' = "stopped"
  /\ active' = FALSE
  /\ waiting' = {}
  /\ HandleStop(StopKey)
  /\ vpn' = None
  /\ UNCHANGED <<default, gets, underlying, service, builder, onMain>>

Next ==
  \/ \E n \in Networks : NetworkAvailable(n)
  \/ CapabilitiesChanged \/ NetworkLost
  \/ Callback
  \/ Recreate \/ preInit \/ openConnection
  \/ Activate \/ Configure \/ Establish
  \/ killProcesses

Spec == Init /\ [][Next]_vars

-----------------------------------------------------------------------------
\* `check(listeners.isNotEmpty())`: whoever asks for the network has a listener
\* registered, so the actor does not die of the request.
GetHasListener == stage \in {"started", "getting"} => listeners # {}

\* A request is kept only while there is no network to answer it with.
PendingUnanswerable == waiting \subseteq pending /\ (pending # {} => network = None)

\* Each listener was last told what the actor holds, the ones of older services
\* and of the time before their own start command included.
ListenersCurrent == \A s \in listeners : underlying[s] = network

\* Once the callbacks are delivered the actor holds the system's network.
QuietIsCurrent == registered /\ calls = <<>> => network = default

\* With callbacks on the main thread there is no race between startVpn and the
\* listener: the system knows the VPN by the network the service holds.
VpnCurrent == onMain /\ stage = "up" => vpn = underlying[service]

(***************************************************************************)
(* Liveness: the system delivers its callbacks, and a turn of the main     *)
(* thread that has begun ends.                                             *)
(***************************************************************************)
FairSpec == Spec /\ WF_vars(Callback) /\ WF_vars(Configure) /\ WF_vars(Establish)

\* A Get is answered, or cancelled, if only the device keeps a network.
GetAnswered ==
  \A r \in 1 .. MaxGets : (r \in waiting /\ default # None) ~> (r \notin waiting \/ default = None)
=============================================================================

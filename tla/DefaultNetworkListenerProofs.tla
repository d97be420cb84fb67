--------------------- MODULE DefaultNetworkListenerProofs ---------------------
(***************************************************************************)
(* Proofs about DefaultNetworkListener, for any networks, any number of    *)
(* services and any number of callbacks on their way.                      *)
(***************************************************************************)
EXTENDS DefaultNetworkListener, TLAPS

Maybe == Networks \cup {None}

\* A service has a listener from its first start command on, which no stop
\* removes; it holds what the actor holds.
ListenersRight ==
  /\ registered <=> listeners # {}
  /\ ~registered => network = None /\ calls = <<>>
  /\ stage # "stopped" => service \in listeners
  /\ \A s \in Services : underlying[s] = IF s \in listeners THEN network ELSE None

\* startVpn: a turn that has begun finds the service active, and on the main
\* thread no callback comes between its steps.
VpnRight ==
  /\ stage \in {"activated", "configured", "up", "failed"} => active
  /\ onMain /\ stage = "configured" => builder = underlying[service]
  /\ VpnCurrent

\* v[i] is what the network of the actor will be after i more callbacks.
Leads(v) ==
  /\ v[0] = network /\ v[Len(calls)] = default
  /\ \A i \in 1 .. Len(calls) :
       /\ calls[i][1] = "Put" => v[i] = calls[i][2]
       /\ calls[i][1] = "Update" => v[i] = v[i - 1]
       /\ calls[i][1] = "Lost" => v[i - 1] = calls[i][2] /\ v[i] = None

\* The calls on their way lead from the actor's network to the system's.
CallsRight == registered => \E v \in [0 .. Len(calls) -> Maybe] : Leads(v)

IInv == TypeOK /\ ListenersRight /\ PendingUnanswerable /\ VpnRight /\ CallsRight

-----------------------------------------------------------------------------
\* At first nobody listens and no VPN is up.
LEMMA InitIInv == Init => IInv
<1> SUFFICES ASSUME Init PROVE IInv
  OBVIOUS
<1>1. TypeOK
  <2>1. calls \in Seq(Call) /\ Len(calls) = 0
    BY DEF Init
  <2>2. gets \in 0 .. MaxGets /\ pending \subseteq 1 .. gets /\ waiting \subseteq 1 .. gets
    BY NetworkAssumption DEF Init
  <2>3. underlying \in [Services -> Networks \cup {None}]
    BY DEF Init
  <2>4. Len(calls) <= MaxCalls
    BY <2>1, NetworkAssumption
  <2> QED
    BY <2>1, <2>2, <2>3, <2>4 DEF Init, TypeOK, Stages
<1>2. ListenersRight /\ PendingUnanswerable /\ VpnRight /\ CallsRight
  BY DEF Init, ListenersRight, PendingUnanswerable, VpnRight, VpnCurrent, CallsRight
<1> QED
  BY <1>1, <1>2 DEF IInv

\* The oldest call, and those behind it.
LEMMA TakeCall ==
  ASSUME TypeOK, calls # <<>>
  PROVE  /\ Len(calls) \in Nat \ {0} /\ Head(calls) = calls[1]
         /\ calls[1][1] \in {"Put", "Update", "Lost"} /\ calls[1][2] \in Networks
         /\ Tail(calls) \in Seq(Call) /\ Len(Tail(calls)) = Len(calls) - 1
         /\ \A i \in 1 .. Len(Tail(calls)) : Tail(calls)[i] = calls[i + 1]
<1>1. calls \in Seq(Call) /\ Len(calls) \in Nat \ {0} /\ calls[1] \in Call
  BY DEF TypeOK
<1>2. calls[1][1] \in {"Put", "Update", "Lost"} /\ calls[1][2] \in Networks
  BY <1>1 DEF Call
<1> QED
  BY <1>1, <1>2

\* A new call goes behind those on their way.
LEMMA AddCall ==
  ASSUME TypeOK, NEW c \in Call
  PROVE  /\ Append(calls, c) \in Seq(Call) /\ Len(Append(calls, c)) = Len(calls) + 1
         /\ \A i \in 1 .. Len(calls) : Append(calls, c)[i] = calls[i]
         /\ Append(calls, c)[Len(calls) + 1] = c
         /\ Len(calls) \in Nat
BY DEF TypeOK

\* No listener is removed: `stop' is not given the key it was started with.
LEMMA StopRemovesNone ==
  ASSUME HandleStop(StopKey)
  PROVE  listeners' = listeners /\ network' = network /\ calls' = calls
         /\ (registered' <=> registered) /\ pending' = pending
BY DEF HandleStop, StopKey

\* What a callback does: the actor follows, and all listeners with it.
LEMMA CallbackEffect ==
  ASSUME TypeOK, ListenersRight, Callback
  PROVE  /\ calls # <<>> /\ calls' = Tail(calls) /\ listeners' = listeners
         /\ \/ /\ calls[1][1] = "Put" /\ network' = calls[1][2]
               /\ pending' = {} /\ waiting' = waiting \ pending
            \/ /\ calls[1][1] = "Update" /\ network' = network
               /\ pending' = pending /\ waiting' = waiting
            \/ /\ calls[1][1] = "Lost" /\ pending' = pending /\ waiting' = waiting
               /\ network' = IF network = calls[1][2] THEN None ELSE network
         /\ underlying' = [s \in Services |-> IF s \in listeners THEN network'
                                                              ELSE underlying[s]]
         /\ \/ vpn' = vpn /\ underlying' = underlying
            \/ vpn' = IF service \in listeners /\ active /\ stage = "up"
                      THEN network' ELSE vpn
<1> USE DEF Callback, TypeOK, ListenersRight
<1>1. calls # <<>> /\ calls' = Tail(calls) /\ listeners' = listeners
      /\ Head(calls) = calls[1]
  BY TakeCall
<1>2. CASE calls[1][1] = "Put" /\ HandlePut(calls[1][2])
  BY <1>1, <1>2 DEF HandlePut, Tell
<1>3. CASE calls[1][1] = "Update" /\ HandleUpdate(calls[1][2])
  <2>1. network' = network /\ pending' = pending /\ waiting' = waiting
    BY <1>3 DEF HandleUpdate
  <2>2. CASE network = calls[1][2]
    BY <1>1, <1>3, <2>1, <2>2 DEF HandleUpdate, Tell
  <2>3. CASE network # calls[1][2]
    <3>1. vpn' = vpn /\ underlying' = underlying
      BY <1>3, <2>3 DEF HandleUpdate, Tell
    <3>2. underlying = [s \in Services |-> IF s \in listeners THEN network
                                                           ELSE underlying[s]]
      OBVIOUS
    <3> QED
      BY <1>1, <1>3, <2>1, <3>1, <3>2
  <2> QED
    BY <2>2, <2>3
<1>4. CASE calls[1][1] = "Lost" /\ HandleLost(calls[1][2])
  <2>1. CASE network = calls[1][2]
    BY <1>1, <1>4, <2>1 DEF HandleLost, Tell
  <2>2. CASE network # calls[1][2]
    <3>1. vpn' = vpn /\ underlying' = underlying /\ network' = network
      BY <1>4, <2>2 DEF HandleLost
    <3>2. underlying = [s \in Services |-> IF s \in listeners THEN network
                                                           ELSE underlying[s]]
      OBVIOUS
    <3> QED
      BY <1>1, <1>4, <2>2, <3>1, <3>2 DEF HandleLost
  <2> QED
    BY <2>1, <2>2
<1> QED
  BY <1>1, <1>2, <1>3, <1>4

\* A start command: the first listener registers the callback.
LEMMA StartEffect ==
  ASSUME TypeOK, ListenersRight, HandleStart(service)
  PROVE  /\ listeners' = listeners \cup {service} /\ registered'
         /\ network' = network /\ pending' = pending
         /\ \/ registered /\ calls' = calls
            \/ /\ ~registered /\ network = None
               /\ calls' = IF default = None THEN <<>> ELSE <<<<"Put", default>>>>
         /\ underlying' = [underlying EXCEPT ![service] = network]
<1>1. network = None => underlying[service] = None
  BY DEF ListenersRight, TypeOK
<1>2. underlying' = [underlying EXCEPT ![service] = network]
  BY <1>1 DEF HandleStart, Tell, TypeOK
<1> QED
  BY <1>2 DEF HandleStart, register, ListenersRight

\* The steps of the system and of the service that leave the actor alone.
Aside ==
  \/ \E n \in Networks : NetworkAvailable(n)
  \/ CapabilitiesChanged \/ NetworkLost
  \/ Recreate \/ Activate \/ Configure \/ Establish

\* They change nothing that the actor or its listeners hold.
LEMMA AsideEffect ==
  ASSUME Aside
  PROVE  UNCHANGED <<registered, listeners, network, pending, gets, waiting,
                     underlying, onMain>>
BY DEF Aside, NetworkAvailable, CapabilitiesChanged, NetworkLost, Reports, Recreate,
       Activate, Configure, Establish, actorVars, serviceVars

\* Every step keeps the types.
LEMMA StepType ==
  ASSUME TypeOK, ListenersRight, [Next]_vars
  PROVE  TypeOK'
<1> USE DEF actorVars, serviceVars
<1>1. ASSUME NEW n \in Networks, NEW k \in {"Put", "Update", "Lost"}, Reports(k, n),
             default' \in Networks \cup {None}
      PROVE  TypeOK'
  <2>1. <<k, n>> \in Call
    BY <1>1 DEF Call
  <2>2. calls' \in Seq(Call) /\ Len(calls') <= MaxCalls
    <3>1. calls' = calls \/ calls' = Append(calls, <<k, n>>)
      BY <1>1 DEF Reports
    <3>2. Len(calls) < MaxCalls /\ Len(calls) \in Nat /\ calls \in Seq(Call)
      BY <1>1 DEF Reports, TypeOK
    <3> QED
      BY <2>1, <3>1, <3>2, AddCall, NetworkAssumption
  <2>3. UNCHANGED <<registered, listeners, network, pending, gets, waiting, underlying,
                    service, stage, active, builder, vpn, onMain>>
    BY <1>1 DEF Reports
  <2> QED
    BY <1>1, <2>2, <2>3 DEF TypeOK
<1>2. CASE Callback
  <2>1. calls' \in Seq(Call) /\ Len(calls') <= MaxCalls /\ calls[1][2] \in Networks
    <3>1. calls # <<>> /\ calls' = Tail(calls)
      BY <1>2, CallbackEffect
    <3>2. Len(calls) \in Nat /\ Len(calls) <= MaxCalls
      BY DEF TypeOK
    <3> QED
      BY <3>1, <3>2, TakeCall, NetworkAssumption
  <2>2. network' \in Networks \cup {None}
    BY <1>2, <2>1, CallbackEffect DEF TypeOK
  <2>3. /\ underlying' \in [Services -> Networks \cup {None}]
        /\ vpn' \in Networks \cup {None}
    BY <1>2, <2>2, CallbackEffect DEF TypeOK
  <2>4. pending' \subseteq 1 .. gets /\ waiting' \subseteq 1 .. gets
    BY <1>2, CallbackEffect DEF TypeOK
  <2> QED
    BY <1>2, <2>1, <2>2, <2>3, <2>4 DEF Callback, TypeOK
<1>3. CASE preInit
  <2>1. HandleStart(service)
    BY <1>3 DEF preInit
  <2>2. calls' \in Seq(Call) /\ Len(calls') <= MaxCalls
    <3>1. CASE calls' = calls
      BY <3>1 DEF TypeOK
    <3>2. CASE calls' = <<>>
      BY <3>2, NetworkAssumption
    <3>3. CASE default # None /\ calls' = <<<<"Put", default>>>>
      <4>1. <<"Put", default>> \in Call
        BY <3>3 DEF Call, TypeOK
      <4> QED
        BY <3>3, <4>1, NetworkAssumption
    <3> QED
      BY <2>1, <3>1, <3>2, <3>3, StartEffect
  <2>3. /\ underlying' \in [Services -> Networks \cup {None}]
        /\ vpn' \in Networks \cup {None} /\ listeners' \subseteq Services
    BY <2>1, StartEffect DEF HandleStart, Tell, TypeOK
  <2> QED
    BY <1>3, <2>1, <2>2, <2>3, StartEffect DEF preInit, TypeOK, Stages
<1>4. CASE openConnection
  <2>1. gets' \in 0 .. MaxGets /\ pending' \subseteq 1 .. gets' /\ waiting' \subseteq 1 .. gets'
    BY <1>4, NetworkAssumption DEF openConnection, HandleGet, TypeOK
  <2> QED
    BY <1>4, <2>1 DEF openConnection, HandleGet, TypeOK, Stages
<1>5. CASE Recreate
  BY <1>5 DEF Recreate, TypeOK
<1>6. CASE Activate
  BY <1>6 DEF Activate, TypeOK, Stages
<1>7. CASE Configure
  BY <1>7 DEF Configure, TypeOK, Stages
<1>8. CASE Establish
  BY <1>8 DEF Establish, TypeOK, Stages
<1>9. CASE killProcesses
  <2>1. registered' \in BOOLEAN
    BY <1>9 DEF killProcesses, HandleStop
  <2> QED
    BY <1>9, <2>1, StopRemovesNone DEF killProcesses, TypeOK, Stages
<1>10. CASE UNCHANGED vars
  BY <1>10 DEF vars, TypeOK
<1>11. CASE (\E n \in Networks : NetworkAvailable(n)) \/ CapabilitiesChanged \/ NetworkLost
  <2>1. CASE \E n \in Networks : NetworkAvailable(n)
    BY <1>1, <2>1 DEF NetworkAvailable
  <2>2. CASE CapabilitiesChanged
    BY <1>1, <2>2 DEF CapabilitiesChanged, TypeOK
  <2>3. CASE NetworkLost
    BY <1>1, <2>3 DEF NetworkLost, TypeOK
  <2> QED
    BY <1>11, <2>1, <2>2, <2>3
<1> QED
  BY <1>2, <1>3, <1>4, <1>5, <1>6, <1>7, <1>8, <1>9, <1>10, <1>11 DEF Next

\* Every step keeps the listeners, and tells all of them.
LEMMA StepListeners ==
  ASSUME TypeOK, ListenersRight, [Next]_vars
  PROVE  ListenersRight'
<1> USE DEF actorVars, serviceVars, ListenersRight
<1>1. CASE Aside
  <2>1. UNCHANGED <<registered, listeners, network, underlying>>
    BY <1>1, AsideEffect
  <2>2. ~registered => calls' = calls
    BY <1>1 DEF Aside, NetworkAvailable, CapabilitiesChanged, NetworkLost, Reports,
       Recreate, Activate, Configure, Establish
  <2>3. stage' # "stopped" => service' = service /\ stage # "stopped"
    BY <1>1 DEF Aside, NetworkAvailable, CapabilitiesChanged, NetworkLost, Reports,
       Recreate, Activate, Configure, Establish
  <2> QED
    BY <2>1, <2>2, <2>3
<1>2. CASE Callback
  <2>1. calls # <<>> /\ listeners' = listeners /\ registered' = registered
        /\ stage' = stage /\ service' = service
    BY <1>2, CallbackEffect DEF Callback
  <2>2. \A s \in Services : underlying'[s] = IF s \in listeners THEN network' ELSE None
    BY <1>2, CallbackEffect DEF TypeOK
  <2> QED
    BY <2>1, <2>2
<1>3. CASE preInit
  <2>1. HandleStart(service) /\ service' = service /\ service \in Services
    BY <1>3 DEF preInit, TypeOK
  <2>2. \A s \in Services : underlying'[s] = IF s \in listeners' THEN network' ELSE None
    BY <2>1, StartEffect DEF TypeOK
  <2> QED
    BY <2>1, <2>2, StartEffect
<1>4. CASE openConnection
  BY <1>4 DEF openConnection, HandleGet
<1>5. CASE killProcesses
  BY <1>5, StopRemovesNone DEF killProcesses
<1>6. CASE UNCHANGED vars
  BY <1>6 DEF vars
<1> QED
  BY <1>1, <1>2, <1>3, <1>4, <1>5, <1>6 DEF Next, Aside

\* A request is kept only while there is no network, and Put answers all.
LEMMA StepPending ==
  ASSUME TypeOK, ListenersRight, PendingUnanswerable, [Next]_vars
  PROVE  PendingUnanswerable'
<1> USE DEF actorVars, serviceVars, PendingUnanswerable
<1>1. CASE Aside
  BY <1>1, AsideEffect
<1>2. CASE Callback
  <2>1. calls[1][2] \in Networks
    BY <1>2, TakeCall DEF Callback
  <2> QED
    BY <1>2, <2>1, CallbackEffect
<1>3. CASE preInit
  BY <1>3, StartEffect DEF preInit
<1>4. CASE openConnection
  BY <1>4 DEF openConnection, HandleGet
<1>5. CASE killProcesses
  BY <1>5, StopRemovesNone DEF killProcesses
<1>6. CASE UNCHANGED vars
  BY <1>6 DEF vars
<1> QED
  BY <1>1, <1>2, <1>3, <1>4, <1>5, <1>6 DEF Next, Aside

\* The steps of startVpn, with callbacks on the main thread.
LEMMA StepVpn ==
  ASSUME TypeOK, ListenersRight, VpnRight, [Next]_vars
  PROVE  VpnRight'
<1> USE DEF actorVars, serviceVars, VpnRight, VpnCurrent
<1>1. CASE Callback
  <2>1. UNCHANGED <<service, stage, active, builder, onMain>>
        /\ (onMain => stage # "configured")
    BY <1>1 DEF Callback
  <2>2. service \in Services
    BY DEF TypeOK
  <2>3. underlying'[service] = IF service \in listeners THEN network'
                                                       ELSE underlying[service]
    BY <1>1, <2>2, CallbackEffect
  <2> QED
    BY <1>1, <2>1, <2>3, CallbackEffect
<1>2. CASE preInit
  BY <1>2 DEF preInit
<1>3. CASE openConnection
  BY <1>3 DEF openConnection
<1>4. CASE killProcesses
  BY <1>4 DEF killProcesses
<1>5. CASE Activate \/ Configure \/ Establish \/ Recreate
  BY <1>5 DEF Activate, Configure, Establish, Recreate
<1>6. CASE (\E n \in Networks : NetworkAvailable(n)) \/ CapabilitiesChanged \/ NetworkLost
  BY <1>6 DEF NetworkAvailable, CapabilitiesChanged, NetworkLost, Reports
<1>7. CASE UNCHANGED vars
  BY <1>7 DEF vars
<1> QED
  BY <1>1, <1>2, <1>3, <1>4, <1>5, <1>6, <1>7 DEF Next

\* A call that tells of the change of the default network leads on to it.
LEMMA ReportLeads ==
  ASSUME TypeOK, CallsRight, registered, NEW n \in Networks,
         NEW k \in {"Put", "Update", "Lost"}, Reports(k, n), default' \in Maybe,
         k = "Put" => default' = n, k = "Update" => default' = default,
         k = "Lost" => default = n /\ default' = None
  PROVE  CallsRight'
<1>1. PICK v \in [0 .. Len(calls) -> Maybe] : Leads(v)
  BY DEF CallsRight
<1>2. <<k, n>> \in Call /\ calls' = Append(calls, <<k, n>>) /\ network' = network
  BY DEF Reports, Call, actorVars
<1> DEFINE l == Len(calls)
<1>3. /\ l \in Nat /\ Len(calls') = l + 1 /\ calls'[l + 1] = <<k, n>>
      /\ \A i \in 1 .. l : calls'[i] = calls[i]
  BY <1>2, AddCall
<1>4. PICK w \in [0 .. Len(calls') -> Maybe] :
        w = [i \in 0 .. l + 1 |-> IF i <= l THEN v[i] ELSE default']
  <2> DEFINE e(i) == IF i <= l THEN v[i] ELSE default'
  <2>1. \A i \in 0 .. l + 1 : e(i) \in Maybe
    BY <1>1, <1>3
  <2> HIDE DEF e
  <2>2. [i \in 0 .. l + 1 |-> e(i)] \in [0 .. l + 1 -> Maybe]
    BY <2>1
  <2> QED
    BY <1>3, <2>2 DEF e
<1>5. w[0] = network' /\ w[Len(calls')] = default' /\ w[l] = default
  BY <1>1, <1>2, <1>3, <1>4 DEF Leads
<1>6. ASSUME NEW i \in 1 .. Len(calls')
      PROVE  /\ calls'[i][1] = "Put" => w[i] = calls'[i][2]
             /\ calls'[i][1] = "Update" => w[i] = w[i - 1]
             /\ calls'[i][1] = "Lost" => w[i - 1] = calls'[i][2] /\ w[i] = None
  <2>1. CASE i = l + 1
    BY <1>3, <1>5, <2>1
  <2>2. CASE i \in 1 .. l
    <3>1. w[i] = v[i] /\ w[i - 1] = v[i - 1] /\ calls'[i] = calls[i]
      BY <1>3, <1>4, <2>2
    <3> QED
      BY <1>1, <2>2, <3>1 DEF Leads
  <2> QED
    BY <1>3, <2>1, <2>2
<1>7. Leads(w)'
  BY <1>5, <1>6 DEF Leads
<1> QED
  BY <1>4, <1>7 DEF CallsRight

\* A callback takes the network of the actor one place further.
LEMMA CallbackLeads ==
  ASSUME TypeOK, ListenersRight, CallsRight, Callback
  PROVE  CallsRight'
<1>1. /\ calls # <<>> /\ calls' = Tail(calls) /\ registered
      /\ default' = default
  BY CallbackEffect DEF Callback, ListenersRight
<1>2. PICK v \in [0 .. Len(calls) -> Maybe] : Leads(v)
  BY <1>1 DEF CallsRight
<1> DEFINE l == Len(calls)
<1>3. /\ l \in Nat \ {0} /\ Len(calls') = l - 1
      /\ calls[1][1] \in {"Put", "Update", "Lost"}
      /\ \A i \in 1 .. Len(calls') : calls'[i] = calls[i + 1]
  <2>1. /\ l \in Nat \ {0} /\ Len(Tail(calls)) = l - 1
        /\ calls[1][1] \in {"Put", "Update", "Lost"}
        /\ \A i \in 1 .. Len(Tail(calls)) : Tail(calls)[i] = calls[i + 1]
    BY <1>1, TakeCall
  <2> HIDE DEF l
  <2> QED
    BY <1>1, <2>1, Zenon
<1>4. PICK w \in [0 .. Len(calls') -> Maybe] : w = [i \in 0 .. l - 1 |-> v[i + 1]]
  <2>1. \A i \in 0 .. l - 1 : v[i + 1] \in Maybe
    BY <1>2, <1>3
  <2>2. [i \in 0 .. l - 1 |-> v[i + 1]] \in [0 .. l - 1 -> Maybe]
    BY <2>1
  <2> QED
    BY <1>3, <2>2
<1>5. w[0] = network'
  <2>1. w[0] = v[1] /\ v[0] = network
    BY <1>2, <1>3, <1>4 DEF Leads
  <2>2. /\ calls[1][1] = "Put" => v[1] = calls[1][2]
        /\ calls[1][1] = "Update" => v[1] = v[0]
        /\ calls[1][1] = "Lost" => v[0] = calls[1][2] /\ v[1] = None
    BY <1>2, <1>3 DEF Leads
  <2> QED
    BY <1>3, <2>1, <2>2, CallbackEffect
<1>6. w[Len(calls')] = default'
  BY <1>1, <1>2, <1>3, <1>4 DEF Leads
<1>7. ASSUME NEW i \in 1 .. Len(calls')
      PROVE  /\ calls'[i][1] = "Put" => w[i] = calls'[i][2]
             /\ calls'[i][1] = "Update" => w[i] = w[i - 1]
             /\ calls'[i][1] = "Lost" => w[i - 1] = calls'[i][2] /\ w[i] = None
  <2>1. /\ w[i] = v[i + 1] /\ w[i - 1] = v[i] /\ calls'[i] = calls[i + 1]
        /\ i + 1 \in 1 .. l /\ (i + 1) - 1 = i
    BY <1>3, <1>4
  <2> QED
    BY <1>2, <2>1 DEF Leads
<1>8. Leads(w)'
  BY <1>5, <1>6, <1>7 DEF Leads
<1> QED
  BY <1>4, <1>8 DEF CallsRight

\* The first listener is told the network the device has by then.
LEMMA RegisterLeads ==
  ASSUME TypeOK, ~registered, default' = default, network' = None,
         calls' = IF default = None THEN <<>> ELSE <<<<"Put", default>>>>
  PROVE  CallsRight'
<1>1. PICK w \in [0 .. Len(calls') -> Maybe] :
        w = [i \in 0 .. Len(calls') |-> IF i = 0 THEN None ELSE default]
  BY DEF TypeOK, Maybe
<1>2. CASE default = None
  BY <1>1, <1>2 DEF CallsRight, Leads
<1>3. CASE default # None
  <2>1. Len(calls') = 1 /\ calls'[1] = <<"Put", default>>
    BY <1>3
  <2>2. Leads(w)'
    BY <1>1, <2>1 DEF Leads
  <2> QED
    BY <1>1, <2>2 DEF CallsRight
<1> QED
  BY <1>2, <1>3

\* Every step keeps the calls leading to the system's network.
LEMMA StepCalls ==
  ASSUME TypeOK, ListenersRight, CallsRight, [Next]_vars
  PROVE  CallsRight'
<1> USE DEF actorVars, serviceVars
<1>1. CASE (\E n \in Networks : NetworkAvailable(n)) \/ CapabilitiesChanged \/ NetworkLost
  <2>1. CASE ~registered
    BY <1>1, <2>1 DEF NetworkAvailable, CapabilitiesChanged, NetworkLost, Reports,
       CallsRight
  <2>2. CASE registered /\ \E n \in Networks : NetworkAvailable(n)
    BY <2>2, ReportLeads DEF NetworkAvailable, Maybe
  <2>3. CASE registered /\ CapabilitiesChanged
    BY <2>3, ReportLeads DEF CapabilitiesChanged, TypeOK, Maybe
  <2>4. CASE registered /\ NetworkLost
    BY <2>4, ReportLeads DEF NetworkLost, TypeOK, Maybe
  <2> QED
    BY <1>1, <2>1, <2>2, <2>3, <2>4
<1>2. CASE Callback
  BY <1>2, CallbackLeads
<1>3. CASE preInit
  <2>1. HandleStart(service) /\ default' = default
    BY <1>3 DEF preInit
  <2>2. CASE registered /\ calls' = calls /\ network' = network
    BY <2>1, <2>2 DEF CallsRight, Leads
  <2>3. CASE ~registered
    BY <2>1, <2>3, StartEffect, RegisterLeads
  <2> QED
    BY <2>1, <2>2, <2>3, StartEffect
<1>4. CASE killProcesses
  <2>1. /\ calls' = calls /\ network' = network /\ default' = default
        /\ registered' <=> registered
    BY <1>4, StopRemovesNone DEF killProcesses
  <2> QED
    BY <2>1 DEF CallsRight, Leads
<1>5. CASE \/ openConnection \/ Recreate \/ Activate \/ Configure \/ Establish
           \/ UNCHANGED vars
  <2>1. UNCHANGED <<calls, network, default, registered>>
    BY <1>5 DEF openConnection, HandleGet, Recreate, Activate, Configure, Establish, vars
  <2> QED
    BY <2>1 DEF CallsRight, Leads
<1> QED
  BY <1>1, <1>2, <1>3, <1>4, <1>5 DEF Next

-----------------------------------------------------------------------------
\* The invariant holds in every state.
LEMMA Invariant == Spec => []IInv
<1>1. IInv /\ [Next]_vars => IInv'
  BY StepType, StepListeners, StepPending, StepVpn, StepCalls DEF IInv
<1> QED
  BY <1>1, InitIInv, PTL DEF Spec

\* The actor and the services hold what their declarations allow.
THEOREM TypeCorrect == Spec => []TypeOK
<1>1. IInv => TypeOK
  BY DEF IInv
<1> QED
  BY <1>1, Invariant, PTL

\* `check(listeners.isNotEmpty())' never fails in the actor.
THEOREM GetIsHeard == Spec => []GetHasListener
<1>1. IInv => GetHasListener
  BY DEF IInv, ListenersRight, GetHasListener
<1> QED
  BY <1>1, Invariant, PTL

\* A Get that is kept is one the actor cannot answer, and every Get somebody
\* waits for is kept.
THEOREM PendingIsUnanswerable == Spec => []PendingUnanswerable
<1>1. IInv => PendingUnanswerable
  BY DEF IInv
<1> QED
  BY <1>1, Invariant, PTL

\* Every listener was last told the network the actor holds.
THEOREM ListenersAreCurrent == Spec => []ListenersCurrent
<1>1. IInv => ListenersCurrent
  BY DEF IInv, ListenersRight, ListenersCurrent, TypeOK
<1> QED
  BY <1>1, Invariant, PTL

\* Once its callbacks are delivered the actor holds the system's network,
\* whatever happened on the way: a late Lost or Update does no harm.
THEOREM QuietActorIsCurrent == Spec => []QuietIsCurrent
<1>1. ASSUME IInv, registered, calls = <<>> PROVE network = default
  <2>1. PICK v \in [0 .. Len(calls) -> Maybe] : Leads(v)
    BY <1>1 DEF IInv, CallsRight
  <2>2. Len(calls) = 0
    BY <1>1
  <2> QED
    BY <2>1, <2>2 DEF Leads
<1>2. IInv => QuietIsCurrent
  BY <1>1 DEF QuietIsCurrent
<1> QED
  BY <1>2, Invariant, PTL

\* With callbacks on the main thread, the system knows the VPN by the network
\* the service holds, however the steps of startVpn and callbacks interleave.
THEOREM VpnIsCurrent == Spec => []VpnCurrent
<1>1. IInv => VpnCurrent
  BY DEF IInv, VpnRight
<1> QED
  BY <1>1, Invariant, PTL

=============================================================================

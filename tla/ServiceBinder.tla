---------------------------- MODULE ServiceBinder ----------------------------
(***************************************************************************)
(* The service's binder and its two clients: the ShadowsocksConnection of  *)
(* the user interface, in another process, and the ServiceNotification of  *)
(* a session, in the service's own.  Either process can die.               *)
(*                                                                         *)
(* Remote calls arrive on binder threads of the service and post what      *)
(* concerns the listeners to its main thread; calls of the notification    *)
(* come from the main thread and run at once.  stopListening and           *)
(* unregisterCallback are oneway: they arrive in order, but a synchronous  *)
(* call made after them can arrive before.                                 *)
(***************************************************************************)
EXTENDS Naturals, Sequences

CONSTANTS
  MaxBg,      \* bound: incarnations of the service's process
  MaxUi,      \* bound: incarnations of the user interface
  MaxBinds,   \* bound: the calls of bindService
  MaxPosts    \* bound: posts waiting when onStart sets the bandwidth

ASSUME BinderAssumption ==
  MaxBg \in Nat \ {0} /\ MaxUi \in Nat \ {0} /\ MaxBinds \in Nat /\ MaxPosts \in Nat \ {0}

None == 0
Notification == 0   \* the notification, as a client
Uis == 1 .. MaxUi
Clients == Uis \cup {Notification}

VARIABLES
  \* the service
  bg,                  \* the incarnation of its process
  alive,               \* which is running
  session,             \* its state: "Stopped", "Connecting" or "Connected"
  callbacks,           \* Binder.callbacks
  bandwidthListeners,
  looper,              \* Binder.looper is not null
  posts,               \* what is posted to its main thread
  screen,              \* the screen is on
  notified,            \* ServiceNotification.callbackRegistered
  \* the calls on their way
  oneway,              \* oneway calls of the user interface, oldest first
  incall,              \* the user interface is in startListeningForBandwidth
  \* the user interface
  ui,                  \* the incarnation of its process
  connectionActive,
  callbackRegistered,
  service,             \* ShadowsocksConnection.service, as an incarnation
  bandwidth,           \* bandwidthTimeout > 0
  linked,              \* the incarnations that binderDied is linked to
  binds,               \* the number of calls of bindService
  \* the system
  events,              \* what it has posted to the connection
  deaths,              \* the incarnations whose binderDied is on its way
  \* history
  late,                \* a binderDied came after the next service was connected
  overtaken,           \* an unregistration came after the next registration
  orphaned             \* a user interface died in its call

serviceVars == <<callbacks, bandwidthListeners, looper, posts>>
sessionVars == <<bg, alive, session, screen, notified>>
connectionVars == <<connectionActive, callbackRegistered, service, bandwidth, linked>>
systemVars == <<binds, events, deaths>>
historyVars == <<late, overtaken, orphaned>>
vars == <<serviceVars, sessionVars, oneway, incall, ui, connectionVars, systemVars,
          historyVars>>

TypeOK ==
  /\ bg \in 0 .. MaxBg /\ ui \in Uis /\ service \in 0 .. MaxBg /\ binds \in 0 .. MaxBinds
  /\ session \in {"Stopped", "Connecting", "Connected"}
  /\ callbacks \subseteq Clients /\ bandwidthListeners \subseteq Clients
  /\ posts \in Seq({"start", "stop"} \X Uis)
  /\ oneway \in Seq({"stop", "unregister"} \X Uis)
  /\ incall \in BOOLEAN
  /\ events \in Seq({"connected", "disconnected"} \X (1 .. MaxBg))
  /\ linked \subseteq 1 .. MaxBg /\ deaths \subseteq 1 .. MaxBg
  /\ {alive, looper, screen, notified, connectionActive, callbackRegistered, bandwidth}
       \subseteq BOOLEAN
  /\ {late, overtaken, orphaned} \subseteq BOOLEAN

Init ==
  /\ bg = 0 /\ alive = FALSE /\ session = "Stopped"
  /\ callbacks = {} /\ bandwidthListeners = {} /\ looper = FALSE /\ posts = <<>>
  /\ screen \in BOOLEAN /\ notified = FALSE
  /\ oneway = <<>> /\ incall = FALSE
  /\ ui = 1
  /\ connectionActive = FALSE /\ callbackRegistered = FALSE /\ service = None
  /\ bandwidth = FALSE /\ linked = {}
  /\ binds = 0 /\ events = <<>> /\ deaths = {}
  /\ late = FALSE /\ overtaken = FALSE /\ orphaned = FALSE

Reachable(n) == alive /\ n = bg

-----------------------------------------------------------------------------
(***************************************************************************)
(* Binder, on the service's main thread.                                   *)
(***************************************************************************)

\* The body of startListeningForBandwidth up to its first trafficUpdated.
AddListener(c) ==
  /\ bandwidthListeners' = bandwidthListeners \cup {c}
  /\ looper' = (looper \/ bandwidthListeners = {})

\* The body of stopListeningForBandwidth.
RemoveListener(c) ==
  /\ bandwidthListeners' = bandwidthListeners \ {c}
  /\ looper' = (looper /\ ~(c \in bandwidthListeners /\ bandwidthListeners = {c}))

\* The process of the service is gone, with all it knew; a binding tells the
\* connection, and its death recipient is called.
Crash ==
  /\ alive' = FALSE
  /\ session' = "Stopped"
  /\ callbacks' = {} /\ bandwidthListeners' = {} /\ looper' = FALSE /\ posts' = <<>>
  /\ notified' = FALSE
  /\ oneway' = <<>>
  /\ incall' = FALSE
  /\ events' = IF connectionActive THEN Append(events, <<"disconnected", bg>>) ELSE events
  /\ deaths' = IF bg \in linked THEN deaths \cup {bg} ELSE deaths
  /\ UNCHANGED <<bg, screen, ui, connectionVars, binds, historyVars>>

\* A posted launch runs.  The first trafficUpdated of a listener that is dead by
\* now throws RemoteException, which nothing catches.
PostRuns ==
  /\ posts # <<>>
  /\ LET c == Head(posts)[2] IN
     \/ /\ Head(posts)[1] = "start"
        /\ c # ui /\ session = "Connected"
        /\ Crash
     \/ /\ Head(posts)[1] = "start"
        /\ c = ui \/ session # "Connected"
        /\ AddListener(c)
        /\ posts' = Tail(posts)
        /\ UNCHANGED <<sessionVars, callbacks, oneway, incall, ui, connectionVars,
                       systemVars, historyVars>>
     \/ /\ Head(posts)[1] = "stop"
        /\ RemoveListener(c)
        /\ posts' = Tail(posts)
        /\ UNCHANGED <<sessionVars, callbacks, oneway, incall, ui, connectionVars,
                       systemVars, historyVars>>

-----------------------------------------------------------------------------
(***************************************************************************)
(* Binder, on binder threads.                                              *)
(***************************************************************************)

startListeningForBandwidth ==
  /\ incall
  /\ incall' = FALSE
  /\ posts' = Append(posts, <<"start", ui>>)
  /\ UNCHANGED <<sessionVars, callbacks, bandwidthListeners, looper, oneway, ui,
                 connectionVars, systemVars, historyVars>>

\* Mutant: only the callback is unregistered.
OnewayKeepsListening ==
  /\ oneway # <<>>
  /\ oneway' = Tail(oneway)
  /\ LET c == Head(oneway)[2] IN
     IF Head(oneway)[1] = "unregister"
       THEN callbacks' = callbacks \ {c} /\ UNCHANGED posts
       ELSE UNCHANGED <<callbacks, posts>>
  /\ UNCHANGED <<sessionVars, bandwidthListeners, looper, incall, ui, connectionVars,
                 systemVars, historyVars>>

\* stopListeningForBandwidth and unregisterCallback.
OnewayRuns ==
  /\ oneway # <<>>
  /\ oneway' = Tail(oneway)
  /\ LET c == Head(oneway)[2] IN
     /\ posts' = Append(posts, <<"stop", c>>)
     /\ callbacks' = IF Head(oneway)[1] = "unregister" THEN callbacks \ {c} ELSE callbacks
     /\ overtaken' = (overtaken \/ (c = ui /\ callbackRegistered /\ Reachable(service)))
  /\ UNCHANGED <<sessionVars, bandwidthListeners, looper, incall, ui, connectionVars,
                 systemVars, late, orphaned>>

-----------------------------------------------------------------------------
(***************************************************************************)
(* The sessions of the service and their notification, on its main thread. *)
(***************************************************************************)

\* ServiceNotification.updateCallback; the listener is changed at once.
updateCallback(screenOn) ==
  /\ \/ /\ screenOn
        /\ callbacks' = callbacks \cup {Notification}
        /\ AddListener(Notification)
        /\ notified' = TRUE
     \/ /\ ~screenOn /\ notified
        /\ callbacks' = callbacks \ {Notification}
        /\ RemoveListener(Notification)
        /\ notified' = FALSE
     \/ /\ ~screenOn /\ ~notified
        /\ UNCHANGED <<callbacks, bandwidthListeners, looper, notified>>
  /\ UNCHANGED <<posts, bg, alive, oneway, incall, ui, connectionVars, systemVars,
                 historyVars>>

SessionBegins ==
  /\ alive /\ session = "Stopped"
  /\ session' = "Connecting"
  /\ updateCallback(screen)
  /\ UNCHANGED screen

SessionConnects ==
  /\ session = "Connecting"
  /\ session' = "Connected"
  /\ UNCHANGED <<serviceVars, bg, alive, screen, notified, oneway, incall, ui,
                 connectionVars, systemVars, historyVars>>

SessionEnds ==
  /\ session \in {"Connecting", "Connected"}
  /\ session' = "Stopped"
  /\ updateCallback(FALSE)
  /\ UNCHANGED screen

\* The screen goes on or off; onReceive looks at it only when Connected.
Screen ==
  /\ alive
  /\ screen' = ~screen
  /\ IF session = "Connected"
       THEN updateCallback(screen')
       ELSE UNCHANGED <<serviceVars, bg, alive, notified, oneway, incall, ui,
                        connectionVars, systemVars, historyVars>>
  /\ UNCHANGED session

-----------------------------------------------------------------------------
(***************************************************************************)
(* ShadowsocksConnection, on the main thread of the user interface unless  *)
(* it says otherwise.  The main thread waits while it is in a call.        *)
(***************************************************************************)
fixed == <<sessionVars, bandwidthListeners, looper, posts, ui>>

connect ==
  /\ ~incall
  /\ ~connectionActive
  /\ binds < MaxBinds
  /\ binds' = binds + 1
  /\ connectionActive' = TRUE
  /\ events' = IF alive THEN <<<<"connected", bg>>>> ELSE <<>>
  /\ UNCHANGED <<fixed, callbacks, oneway, incall, callbackRegistered, service, bandwidth,
                 linked, deaths, historyVars>>

\* Mutant: a new service is not asked for the bandwidth again.
ConnectedSilent ==
  /\ ~incall
  /\ events # <<>> /\ Head(events)[1] = "connected"
  /\ events' = Tail(events)
  /\ service' = Head(events)[2]
  /\ IF Reachable(service')
       THEN /\ linked' = linked \cup {service'}
            /\ callbacks' = callbacks \cup {ui}
            /\ callbackRegistered' = TRUE
       ELSE UNCHANGED <<linked, callbacks, callbackRegistered>>
  /\ UNCHANGED <<fixed, oneway, incall, connectionActive, bandwidth, binds, deaths,
                 late, overtaken, orphaned>>

\* A service that died meanwhile raises RemoteException in linkToDeath; the
\* callback hears of it all the same.
onServiceConnected ==
  /\ ~incall
  /\ events # <<>> /\ Head(events)[1] = "connected"
  /\ events' = Tail(events)
  /\ service' = Head(events)[2]
  /\ IF Reachable(service')
       THEN /\ linked' = linked \cup {service'}
            /\ callbacks' = callbacks \cup {ui}
            /\ callbackRegistered' = TRUE
            /\ incall' = bandwidth
       ELSE UNCHANGED <<linked, callbacks, callbackRegistered, incall>>
  /\ UNCHANGED <<fixed, oneway, connectionActive, bandwidth, binds, deaths,
                 late, overtaken, orphaned>>

\* Mutant: the registration is not forgotten with the service.
DisconnectedRegistered ==
  /\ ~incall
  /\ events # <<>> /\ Head(events)[1] = "disconnected"
  /\ events' = Tail(events)
  /\ service' = None
  /\ UNCHANGED <<fixed, callbacks, oneway, incall, connectionActive, callbackRegistered,
                 bandwidth, linked, binds, deaths, late, overtaken, orphaned>>

onServiceDisconnected ==
  /\ ~incall
  /\ events # <<>> /\ Head(events)[1] = "disconnected"
  /\ events' = Tail(events)
  /\ oneway' = IF callbackRegistered /\ Reachable(service)
                 THEN Append(oneway, <<"unregister", ui>>) ELSE oneway
  /\ callbackRegistered' = FALSE
  /\ service' = None
  /\ UNCHANGED <<fixed, callbacks, incall, connectionActive, bandwidth, linked, binds,
                 deaths, late, overtaken, orphaned>>

\* On a binder thread, for whatever service is connected by then.
binderDied(n) ==
  /\ n \in deaths
  /\ deaths' = deaths \ {n}
  /\ linked' = linked \ {n}
  /\ late' = (late \/ (service # None /\ service # n))
  /\ service' = None
  /\ callbackRegistered' = FALSE
  /\ UNCHANGED <<fixed, callbacks, oneway, incall, connectionActive, bandwidth, binds,
                 events, overtaken, orphaned>>

\* The system forgets what it has posted to a connection that is unbound.
disconnect ==
  /\ ~incall
  /\ connectionActive
  /\ oneway' = oneway \o
       (IF Reachable(service)
          THEN (IF callbackRegistered THEN <<<<"unregister", ui>>>> ELSE <<>>) \o <<<<"stop", ui>>>>
          ELSE <<>>)
  /\ callbackRegistered' = FALSE
  /\ connectionActive' = FALSE
  /\ events' = <<>>
  /\ linked' = linked \ {service}
  /\ service' = None
  /\ UNCHANGED <<fixed, callbacks, incall, bandwidth, binds, deaths, historyVars>>

\* onStart of the activity sets bandwidthTimeout.
SetBandwidth ==
  /\ ~incall
  /\ Len(posts) < MaxPosts
  /\ bandwidth' = TRUE
  /\ incall' = Reachable(service)
  /\ UNCHANGED <<fixed, callbacks, oneway, connectionActive, callbackRegistered, service,
                 linked, systemVars, historyVars>>

-----------------------------------------------------------------------------
(***************************************************************************)
(* The processes.                                                          *)
(***************************************************************************)

\* For a start command, or for a binding with BIND_AUTO_CREATE.
BgStarts ==
  /\ ~alive
  /\ bg < MaxBg
  /\ bg' = bg + 1
  /\ alive' = TRUE
  /\ events' = IF connectionActive THEN Append(events, <<"connected", bg'>>) ELSE events
  /\ UNCHANGED <<serviceVars, session, screen, notified, oneway, incall, ui,
                 connectionVars, binds, deaths, historyVars>>

BgDies == alive /\ Crash

\* A user interface that dies and is started again is another client.  Its
\* last call may be executed before or after onCallbackDied.
UiDies ==
  /\ ui < MaxUi
  /\ ui' = ui + 1
  /\ callbacks' = callbacks \ {ui}
  /\ LET stop == IF ui \in callbacks THEN <<<<"stop", ui>>>> ELSE <<>>
         start == IF incall THEN <<<<"start", ui>>>> ELSE <<>>
     IN  posts' \in {posts \o start \o stop, posts \o stop \o start}
  /\ incall' = FALSE
  /\ orphaned' = (orphaned \/ incall)
  /\ connectionActive' = FALSE /\ callbackRegistered' = FALSE /\ service' = None
  /\ bandwidth' = FALSE /\ linked' = {} /\ events' = <<>> /\ deaths' = {}
  /\ UNCHANGED <<sessionVars, bandwidthListeners, looper, oneway, binds, late, overtaken>>

Next ==
  \/ PostRuns \/ startListeningForBandwidth \/ OnewayRuns
  \/ SessionBegins \/ SessionConnects \/ SessionEnds \/ Screen
  \/ connect \/ onServiceConnected \/ onServiceDisconnected \/ disconnect \/ SetBandwidth
  \/ \E n \in 1 .. MaxBg : binderDied(n)
  \/ BgStarts \/ BgDies \/ UiDies

Spec == Init /\ [][Next]_vars

-----------------------------------------------------------------------------
\* The checks of the code hold.  `check(looper == null)' and `looper!!': the
\* loop runs exactly while somebody listens, whatever the order in which calls
\* and deaths arrive.  `check(!callbackRegistered)': a service is never
\* connected on top of another one's registration.
AssertionsHold ==
  /\ TypeOK
  /\ looper <=> bandwidthListeners # {}
  /\ events # <<>> /\ Head(events)[1] = "connected" => ~callbackRegistered

Quiet == oneway = <<>> /\ ~incall /\ posts = <<>> /\ events = <<>> /\ deaths = {}

\* Once everything on its way has arrived, a connection that is active with a
\* service that runs is registered with it and listens if it wants to; the
\* exceptions are a death notice that came too late and an unregistration that
\* was overtaken by the next registration.
ActiveIsRegistered ==
  Quiet /\ connectionActive /\ alive /\ ~late /\ ~overtaken =>
    /\ service = bg
    /\ ui \in callbacks
    /\ bandwidth => ui \in bandwidthListeners

\* Once everything on its way has arrived, nobody is listed who is not there:
\* no client that is disconnected or dead, and no notification without a
\* session; the exceptions are those of ActiveIsRegistered and a client that died
\* in the middle of its call.
NoLeftovers ==
  Quiet /\ ~late /\ ~overtaken /\ ~orphaned =>
    /\ (callbacks \cup bandwidthListeners) \cap Uis \subseteq (IF connectionActive THEN {ui} ELSE {})
    /\ Notification \in callbacks \cup bandwidthListeners => session # "Stopped"
=============================================================================

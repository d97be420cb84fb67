------------------------- MODULE ServiceBinderProofs -------------------------
(***************************************************************************)
(* Proofs about ServiceBinder, for any number of bindings, posts and       *)
(* incarnations of the two processes: the checks of the code never fail,   *)
(* and once everything on its way has arrived, those are listed who should *)
(* be and nobody else.                                                     *)
(***************************************************************************)
EXTENDS ServiceBinder, TLAPS

\* Nothing is on its way to a service that is not there, and nobody is
\* registered with it.
AliveRight ==
  /\ alive => bg # 0
  /\ ~alive => callbacks = {} /\ posts = <<>> /\ oneway = <<>> /\ ~incall

LoopRight == looper <=> bandwidthListeners # {}

\* The system reports connections and disconnections in turn, the last one
\* as the service is now.  A registration with a service that is gone has its
\* disconnection on the way.
EventsRight ==
  /\ callbackRegistered \/ events # <<>> => connectionActive
  /\ \A i \in 1 .. Len(events) - 1 : events[i][1] # events[i + 1][1]
  /\ events # <<>> => (events[Len(events)][1] = "connected" <=> alive)
  /\ events # <<>> /\ events[1][1] = "connected" => ~callbackRegistered
  /\ callbackRegistered /\ ~alive => events # <<>>

\* Incarnations are counted up: what the connection, the events and the death
\* notices speak of is the service as it is now or an older one.
NumbersRight ==
  /\ service <= bg
  /\ \A n \in deaths : n <= bg /\ ~Reachable(n)
  /\ \A i \in 1 .. Len(events) : events[i][2] <= bg
  /\ events # <<>> /\ alive => events[Len(events)][2] = bg

Has(calls, x) == \E i \in 1 .. Len(calls) : calls[i] = x

\* The connection is registered with a service that it could still call.
Registered == callbackRegistered /\ Reachable(service)

\* A connection that has heard of everything holds the service that runs,
\* unless a late death notice took it away.
ConnectedRight ==
  /\ Reachable(service) => callbackRegistered
  /\ incall /\ ~late => Reachable(service)
  /\ connectionActive /\ alive /\ events = <<>> /\ ~late => Reachable(service)

\* The only user interface among the callbacks is the living one; it is there
\* because it is registered, or its unregistration is on the way.
CallbackRight ==
  /\ callbacks \cap Uis \subseteq {ui}
  /\ Registered /\ ~overtaken => ui \in callbacks
  /\ ui \in callbacks /\ ~late => Registered \/ Has(oneway, <<"unregister", ui>>)

\* The notification is in both lists or in none, and only in a session.
NotificationRight ==
  /\ notified <=> Notification \in callbacks
  /\ notified <=> Notification \in bandwidthListeners
  /\ notified => session # "Stopped"

\* The posts ps leave c listening, if listeners listen before them.
Leads(ps, listeners, c) ==
  \E i \in 0 .. Len(ps) :
    /\ IF i = 0 THEN c \in listeners ELSE ps[i] = <<"start", c>>
    /\ \A j \in i + 1 .. Len(ps) : ps[j] # <<"stop", c>>

WillListen(c) == Leads(posts, bandwidthListeners, c) \/ (c = ui /\ incall)

\* Who wants the bandwidth will listen, and who will listen is registered or
\* has a call on its way that stops it.
ListenRight ==
  /\ Registered /\ bandwidth /\ ~overtaken => WillListen(ui)
  /\ ~late /\ ~overtaken /\ ~orphaned =>
       \A c \in Uis : WillListen(c) =>
         \/ c = ui /\ Registered
         \/ Has(oneway, <<"stop", c>>)
         \/ Has(oneway, <<"unregister", c>>)

IInv == /\ TypeOK /\ AliveRight /\ LoopRight /\ EventsRight /\ NumbersRight
        /\ ConnectedRight /\ CallbackRight /\ NotificationRight /\ ListenRight

-----------------------------------------------------------------------------
\* Nothing runs and nobody is connected at first.
LEMMA InitIInv == Init => IInv
<1> SUFFICES ASSUME Init PROVE IInv
  OBVIOUS
<1> USE BinderAssumption DEF Init
<1>1. TypeOK
  <2>1. bg \in 0 .. MaxBg /\ ui \in Uis /\ service \in 0 .. MaxBg /\ binds \in 0 .. MaxBinds
    BY DEF Uis, None
  <2>2. /\ posts \in Seq({"start", "stop"} \X Uis)
        /\ oneway \in Seq({"stop", "unregister"} \X Uis)
        /\ events \in Seq({"connected", "disconnected"} \X (1 .. MaxBg))
    OBVIOUS
  <2> QED
    BY Zenon, <2>1, <2>2 DEF TypeOK
<1>2. AliveRight /\ LoopRight
  BY DEF AliveRight, LoopRight
<1>3. EventsRight
  BY DEF EventsRight
<1>4. NumbersRight /\ ConnectedRight /\ NotificationRight
  BY DEF NumbersRight, ConnectedRight, NotificationRight, Reachable, None
<1>5. ~Registered /\ callbacks = {}
  BY DEF Registered
<1>6. CallbackRight
  BY <1>5 DEF CallbackRight
<1>7. \A c \in Uis : ~WillListen(c)
  BY DEF WillListen, Leads
<1>8. ListenRight
  BY <1>5, <1>7 DEF ListenRight
<1> QED
  BY <1>1, <1>2, <1>3, <1>4, <1>6, <1>8 DEF IInv

\* Every step keeps the types of the counters and of the sets.
LEMMA StepSets ==
  ASSUME TypeOK, AliveRight, Next
  PROVE  /\ bg' \in 0 .. MaxBg /\ ui' \in Uis /\ service' \in 0 .. MaxBg
         /\ binds' \in 0 .. MaxBinds
         /\ session' \in {"Stopped", "Connecting", "Connected"}
         /\ callbacks' \subseteq Clients /\ bandwidthListeners' \subseteq Clients
         /\ linked' \subseteq 1 .. MaxBg /\ deaths' \subseteq 1 .. MaxBg
<1> USE BinderAssumption DEF TypeOK, Clients, sessionVars, serviceVars, connectionVars, systemVars, fixed
<1>1. posts # <<>> => Head(posts)[2] \in Uis
  <2>1. posts \in Seq({"start", "stop"} \X Uis)
    BY ZenonT(60)
  <2> QED BY ONLY SMTT(60), <2>1
<1>2. oneway # <<>> => Head(oneway)[2] \in Uis
  <2>1. oneway \in Seq({"stop", "unregister"} \X Uis)
    BY ZenonT(60)
  <2> QED BY ONLY SMTT(60), <2>1
<1>3. events # <<>> => Head(events)[2] \in 1 .. MaxBg
  <2>1. events \in Seq({"connected", "disconnected"} \X (1 .. MaxBg))
    BY ZenonT(60)
  <2> QED BY ONLY SMTT(60), <2>1
<1>4. CASE PostRuns
  BY Zenon, <1>1, <1>4 DEF PostRuns, Crash, AddListener, RemoveListener
<1>5. CASE startListeningForBandwidth \/ OnewayRuns
  BY Zenon, <1>2, <1>5 DEF startListeningForBandwidth, OnewayRuns
<1>6. CASE SessionBegins \/ SessionConnects \/ SessionEnds \/ Screen
  BY Zenon, <1>6 DEF SessionBegins, SessionConnects, SessionEnds, Screen, updateCallback,
     AddListener, RemoveListener
<1>7. 0 \in 0 .. MaxBg
  OBVIOUS
<1>8. CASE connect
  BY <1>8 DEF connect
<1>9. CASE disconnect
  BY <1>7, <1>9 DEF disconnect, None
<1>10. CASE SetBandwidth
  BY <1>10 DEF SetBandwidth
<1>11. CASE onServiceConnected
  <2>1. service' \in 1 .. MaxBg
    BY <1>3, <1>11 DEF onServiceConnected
  <2>2. /\ linked' = linked \/ linked' = linked \cup {service'}
        /\ callbacks' = callbacks \/ callbacks' = callbacks \cup {ui}
        /\ UNCHANGED <<bg, ui, binds, session, bandwidthListeners, deaths>>
    BY <1>11 DEF onServiceConnected
  <2>3. linked' \subseteq 1 .. MaxBg
    BY Zenon, <2>1, <2>2
  <2>4. callbacks' \subseteq Clients
    BY <2>2
  <2>5. service' \in 0 .. MaxBg
    BY <2>1
  <2> QED
    BY <2>2, <2>3, <2>4, <2>5
<1>12. CASE onServiceDisconnected
  BY <1>7, <1>12 DEF onServiceDisconnected, None
<1>13. ASSUME NEW n \in 1 .. MaxBg, binderDied(n)
       PROVE  service' = 0 /\ linked' \subseteq linked /\ deaths' \subseteq deaths
              /\ UNCHANGED <<bg, ui, binds, session, callbacks, bandwidthListeners>>
  BY <1>13 DEF binderDied, None
<1>14. CASE BgStarts
  BY <1>14 DEF BgStarts
<1>15. CASE BgDies
  BY <1>15 DEF BgDies, Crash
<1>16. CASE UiDies
  <2>1. ui' = ui + 1 /\ ui < MaxUi /\ service' = 0 /\ linked' = {} /\ deaths' = {}
    BY <1>16 DEF UiDies, None
  <2>2. ui' \in Uis
    BY <2>1 DEF Uis
  <2>3. callbacks' \subseteq callbacks /\ UNCHANGED <<bg, binds, session, bandwidthListeners>>
    BY <1>16 DEF UiDies
  <2> QED
    BY <1>7, <2>1, <2>2, <2>3
<1> QED
  BY Zenon, <1>4, <1>5, <1>6, <1>7, <1>8, <1>9, <1>10, <1>11, <1>12, <1>13, <1>14, <1>15, <1>16 DEF Next

\* Every step keeps the types of what is on its way.
LEMMA StepSequences ==
  ASSUME TypeOK, AliveRight, Next
  PROVE  /\ posts' \in Seq({"start", "stop"} \X Uis)
         /\ oneway' \in Seq({"stop", "unregister"} \X Uis)
         /\ events' \in Seq({"connected", "disconnected"} \X (1 .. MaxBg))
<1> DEFINE P == {"start", "stop"} \X Uis
           O == {"stop", "unregister"} \X Uis
           E == {"connected", "disconnected"} \X (1 .. MaxBg)
<1> USE DEF sessionVars, serviceVars, connectionVars, systemVars, fixed
<1>1. posts \in Seq(P) /\ oneway \in Seq(O) /\ events \in Seq(E) /\ ui \in Uis
  BY DEF TypeOK
<1>2. /\ <<"start", ui>> \in P /\ <<"stop", ui>> \in P
      /\ <<"stop", ui>> \in O /\ <<"unregister", ui>> \in O
  BY <1>1
<1>3. oneway # <<>> => <<"stop", Head(oneway)[2]>> \in P
  BY <1>1
<1>4. bg # 0 => <<"connected", bg>> \in E /\ <<"disconnected", bg>> \in E
  BY BinderAssumption DEF TypeOK
<1>5. bg < MaxBg => <<"connected", bg + 1>> \in E
  BY BinderAssumption DEF TypeOK
<1>6. SUFFICES posts' \in Seq(P) /\ oneway' \in Seq(O) /\ events' \in Seq(E)
  OBVIOUS
<1> HIDE DEF P, O, E
<1>7. ASSUME Crash, alive
      PROVE  posts' \in Seq(P) /\ oneway' \in Seq(O) /\ events' \in Seq(E)
  BY <1>1, <1>4, <1>7 DEF Crash, AliveRight
<1>8. CASE PostRuns
  <2>1. alive
    BY <1>8 DEF PostRuns, AliveRight
  <2>2. CASE Crash
    BY <1>7, <2>1, <2>2
  <2>3. CASE posts' = Tail(posts) /\ oneway' = oneway /\ events' = events
    BY <1>1, <1>8, <2>3 DEF PostRuns
  <2> QED
    BY <1>8, <2>2, <2>3 DEF PostRuns
<1>9. CASE startListeningForBandwidth
  BY <1>1, <1>2, <1>9 DEF startListeningForBandwidth
<1>10. CASE OnewayRuns
  BY <1>1, <1>3, <1>10 DEF OnewayRuns
<1>11. CASE SessionBegins \/ SessionConnects \/ SessionEnds \/ Screen
  BY <1>1, <1>11 DEF SessionBegins, SessionConnects, SessionEnds, Screen, updateCallback
<1>12. CASE connect
  BY <1>1, <1>4, <1>12 DEF connect, AliveRight
<1>13. CASE disconnect
  <2>1. /\ <<<<"unregister", ui>>>> \in Seq(O) /\ <<<<"stop", ui>>>> \in Seq(O)
        /\ <<>> \in Seq(O)
    BY <1>2
  <2> QED
    BY <1>1, <1>13, <2>1 DEF disconnect
<1>14. CASE SetBandwidth \/ onServiceConnected
  <2>1. /\ posts' = posts /\ oneway' = oneway
        /\ \/ events' = events
           \/ events # <<>> /\ events' = Tail(events)
    BY <1>14 DEF SetBandwidth, onServiceConnected
  <2>2. events # <<>> => Tail(events) \in Seq(E)
    BY <1>1
  <2> QED
    BY Zenon, <1>1, <2>1, <2>2
<1>15. CASE onServiceDisconnected
  BY <1>1, <1>2, <1>15 DEF onServiceDisconnected
<1>16. CASE \E n \in 1 .. MaxBg : binderDied(n)
  BY <1>1, <1>16 DEF binderDied
<1>17. CASE BgStarts
  BY <1>1, <1>5, <1>17 DEF BgStarts
<1>18. CASE BgDies
  BY <1>7, <1>18 DEF BgDies
<1>19. CASE UiDies
  <2>1. /\ <<<<"start", ui>>>> \in Seq(P) /\ <<<<"stop", ui>>>> \in Seq(P)
        /\ <<>> \in Seq(P)
    BY <1>2
  <2> QED
    <3> DEFINE a == IF ui \in callbacks THEN <<<<"stop", ui>>>> ELSE <<>>
               b == IF incall THEN <<<<"start", ui>>>> ELSE <<>>
    <3>1. a \in Seq(P) /\ b \in Seq(P)
      BY <2>1
    <3>2. posts' = (posts \o b) \o a \/ posts' = (posts \o a) \o b
      BY Zenon, <1>19 DEF UiDies
    <3>3. oneway' = oneway /\ events' = <<>>
      BY <1>19 DEF UiDies
    <3> HIDE DEF a, b
    <3>4. posts \o a \in Seq(P) /\ posts \o b \in Seq(P)
      BY <1>1, <3>1
    <3>5. (posts \o b) \o a \in Seq(P) /\ (posts \o a) \o b \in Seq(P)
      BY <3>1, <3>4
    <3>6. <<>> \in Seq(E)
      OBVIOUS
    <3> QED
      BY Zenon, <1>1, <3>2, <3>3, <3>5, <3>6
<1> QED
  BY <1>8, <1>9, <1>10, <1>11, <1>12, <1>13, <1>14, <1>15, <1>16, <1>17, <1>18, <1>19 DEF Next

Flags == {alive, looper, screen, notified, connectionActive, callbackRegistered,
          bandwidth, incall, late, overtaken, orphaned}

\* Every step keeps the flags Boolean.
LEMMA StepFlags ==
  ASSUME TypeOK, Next
  PROVE  Flags' \subseteq BOOLEAN
<1> USE DEF Flags, sessionVars, serviceVars, connectionVars, systemVars, historyVars, fixed
<1>1. Flags \subseteq BOOLEAN
  BY DEF TypeOK
<1>2. CASE PostRuns
  BY Zenon, <1>1, <1>2 DEF PostRuns, Crash, AddListener, RemoveListener
<1>3. CASE startListeningForBandwidth \/ OnewayRuns
  BY Zenon, <1>1, <1>3 DEF startListeningForBandwidth, OnewayRuns, Reachable
<1>4. CASE SessionBegins \/ SessionConnects
  BY Zenon, <1>1, <1>4 DEF SessionBegins, SessionConnects, updateCallback, AddListener, RemoveListener
<1>5. CASE SessionEnds
  BY ZenonT(60), <1>1, <1>5 DEF SessionEnds, updateCallback, AddListener, RemoveListener
<1>6. CASE Screen
  BY Zenon, <1>1, <1>6 DEF Screen, updateCallback, AddListener, RemoveListener
<1>7. CASE connect \/ disconnect \/ SetBandwidth
  BY Zenon, <1>1, <1>7 DEF connect, disconnect, SetBandwidth, Reachable
<1>8. CASE onServiceConnected \/ onServiceDisconnected
  BY Zenon, <1>1, <1>8 DEF onServiceConnected, onServiceDisconnected
<1>9. CASE \E n \in 1 .. MaxBg : binderDied(n)
  BY Zenon, <1>1, <1>9 DEF binderDied
<1>10. CASE BgStarts \/ BgDies
  BY Zenon, <1>1, <1>10 DEF BgStarts, BgDies, Crash
<1>11. CASE UiDies
  BY ZenonT(60), <1>1, <1>11 DEF UiDies
<1> QED
  BY <1>2, <1>3, <1>4, <1>5, <1>6, <1>7, <1>8, <1>9, <1>10, <1>11 DEF Next

\* The state keeps its types in every step.
LEMMA StepType ==
  ASSUME TypeOK, AliveRight, [Next]_vars
  PROVE  TypeOK'
<1>1. CASE Next
  BY Zenon, <1>1, StepSets, StepSequences, StepFlags DEF TypeOK, Flags
<1>2. CASE UNCHANGED vars
  BY <1>2 DEF TypeOK, vars, sessionVars, serviceVars, connectionVars, systemVars, historyVars
<1> QED
  BY <1>1, <1>2

\* The loop is started with the first listener and ends with the last one.
LEMMA StepLoop ==
  ASSUME TypeOK, LoopRight, [Next]_vars
  PROVE  LoopRight'
<1> USE DEF LoopRight, sessionVars, serviceVars, connectionVars, systemVars, fixed
<1>1. ASSUME NEW c, AddListener(c) PROVE LoopRight'
  BY Zenon, <1>1 DEF AddListener
<1>2. ASSUME NEW c, RemoveListener(c) PROVE LoopRight'
  BY Zenon, <1>2 DEF RemoveListener
<1>3. CASE PostRuns
  BY <1>1, <1>2, <1>3 DEF PostRuns, Crash
<1>4. ASSUME NEW on, updateCallback(on) PROVE LoopRight'
  BY <1>1, <1>2, <1>4 DEF updateCallback
<1>5. CASE SessionBegins \/ SessionConnects \/ SessionEnds \/ Screen
  BY Zenon, <1>4, <1>5 DEF SessionBegins, SessionConnects, SessionEnds, Screen
<1>6. CASE BgDies
  BY <1>6 DEF BgDies, Crash
<1>7. CASE \/ startListeningForBandwidth \/ OnewayRuns \/ connect \/ disconnect
           \/ onServiceConnected \/ onServiceDisconnected \/ SetBandwidth
           \/ \E n \in 1 .. MaxBg : binderDied(n)
           \/ BgStarts \/ UiDies
  BY Zenon, <1>7 DEF startListeningForBandwidth, OnewayRuns, connect, disconnect, onServiceConnected,
     onServiceDisconnected, SetBandwidth, binderDied, BgStarts, UiDies
<1>8. CASE UNCHANGED vars
  BY <1>8 DEF vars
<1> QED
  BY <1>3, <1>5, <1>6, <1>7, <1>8 DEF Next

\* A call or a post is made only while the service is there, and all of them
\* go with it.
LEMMA StepAlive ==
  ASSUME TypeOK, AliveRight, [Next]_vars
  PROVE  AliveRight'
<1> USE DEF AliveRight, sessionVars, serviceVars, connectionVars, systemVars, fixed, Reachable
<1>1. CASE PostRuns
  <2>1. posts # <<>> /\ (Crash \/ UNCHANGED sessionVars)
    BY Zenon, <1>1 DEF PostRuns
  <2>2. alive
    BY Zenon, <2>1
  <2>3. CASE Crash
    BY Zenon, <2>2, <2>3 DEF Crash
  <2>4. CASE UNCHANGED sessionVars
    BY Zenon, <2>2, <2>4
  <2> QED
    BY <2>1, <2>3, <2>4
<1>2. CASE startListeningForBandwidth \/ OnewayRuns
  BY <1>2 DEF startListeningForBandwidth, OnewayRuns
<1>3. CASE SessionBegins \/ SessionConnects \/ SessionEnds \/ Screen
  BY <1>3 DEF SessionBegins, SessionConnects, SessionEnds, Screen, updateCallback
<1>4. CASE connect \/ SetBandwidth
  <2>1. CASE connect
    BY <2>1 DEF connect
  <2>2. CASE SetBandwidth
    <3>1. ~alive => ~incall'
      BY Zenon, <2>2 DEF SetBandwidth
    <3> QED
      BY <2>2, <3>1 DEF SetBandwidth
  <2> QED
    BY <1>4, <2>1, <2>2
<1>5. CASE disconnect
  <2>1. <<>> \o <<>> = <<>>
    OBVIOUS
  <2> QED
    BY <1>5, <2>1 DEF disconnect
<1>6. CASE onServiceConnected \/ onServiceDisconnected
  BY <1>6 DEF onServiceConnected, onServiceDisconnected
<1>7. CASE \E n \in 1 .. MaxBg : binderDied(n)
  BY <1>7 DEF binderDied
<1>8. CASE BgStarts
  BY <1>8, BinderAssumption DEF BgStarts, TypeOK
<1>9. CASE BgDies
  BY <1>9 DEF BgDies, Crash
<1>10. CASE UiDies
  <2>1. bg' = bg /\ alive' = alive /\ oneway' = oneway /\ ~incall' /\ callbacks' \subseteq callbacks
    BY <1>10 DEF UiDies
  <2>2. ~alive => posts' = posts \o <<>> \o <<>>
    BY <1>10 DEF UiDies
  <2>3. <<>> \o <<>> \o <<>> = <<>>
    OBVIOUS
  <2> QED
    BY <2>1, <2>2, <2>3
<1>11. CASE UNCHANGED vars
  BY <1>11 DEF vars
<1> QED
  BY <1>1, <1>2, <1>3, <1>4, <1>5, <1>6, <1>7, <1>8, <1>9, <1>10, <1>11 DEF Next

\* What taking and adding an event do to the sequence.
LEMMA EventFacts ==
  ASSUME TypeOK, NEW e
  PROVE  /\ Len(events) \in Nat /\ (events = <<>> <=> Len(events) = 0)
         /\ \A i \in 1 .. Len(events) : events[i][1] \in {"connected", "disconnected"}
         /\ LET a == Append(events, e)
            IN  /\ Len(a) = Len(events) + 1 /\ a # <<>> /\ a[Len(events) + 1] = e
                /\ \A i \in 1 .. Len(events) : a[i] = events[i]
         /\ events # <<>> =>
              /\ Head(events) = events[1]
              /\ Len(Tail(events)) = Len(events) - 1
              /\ Tail(events) = <<>> <=> Len(events) = 1
              /\ \A i \in 1 .. Len(events) - 1 : Tail(events)[i] = events[i + 1]
<1> DEFINE K == {"connected", "disconnected"}
           E == K \X (1 .. MaxBg)
<1>1. events \in Seq(E) /\ \A x \in E : x[1] \in K
  BY DEF TypeOK
<1> HIDE DEF E
<1>2. Len(events) \in Nat /\ \A i \in 1 .. Len(events) : events[i] \in E
  BY <1>1
<1>3. \A s \in Seq(E) : s = <<>> <=> Len(s) = 0
  OBVIOUS
<1>4. LET a == Append(events, e)
      IN  /\ Len(a) = Len(events) + 1 /\ a # <<>> /\ a[Len(events) + 1] = e
          /\ \A i \in 1 .. Len(events) : a[i] = events[i]
  BY <1>1
<1>5. ASSUME events # <<>>
      PROVE  /\ Head(events) = events[1]
             /\ Len(Tail(events)) = Len(events) - 1
             /\ Tail(events) \in Seq(E)
             /\ \A i \in 1 .. Len(events) - 1 : Tail(events)[i] = events[i + 1]
  BY <1>1, <1>5
<1>6. ASSUME events # <<>> PROVE Tail(events) = <<>> <=> Len(events) = 1
  <2>1. Tail(events) = <<>> <=> Len(Tail(events)) = 0
    BY Zenon, <1>3, <1>5, <1>6
  <2>2. Len(events) - 1 = 0 <=> Len(events) = 1
    BY <1>2
  <2> QED
    BY <1>5, <1>6, <2>1, <2>2
<1> QED
  BY <1>1, <1>2, <1>3, <1>4, <1>5, <1>6

\* The service dies: the disconnection follows the last connection.
LEMMA CrashEvents ==
  ASSUME TypeOK, EventsRight, alive, Crash
  PROVE  EventsRight'
<1>1. /\ alive' = FALSE /\ connectionActive' = connectionActive
      /\ callbackRegistered' = callbackRegistered
      /\ events' = IF connectionActive THEN Append(events, <<"disconnected", bg>>) ELSE events
  BY DEF Crash, connectionVars
<1>2. CASE connectionActive
  BY <1>1, <1>2, EventFacts DEF EventsRight
<1>3. CASE ~connectionActive
  BY <1>1, <1>3, EventFacts DEF EventsRight
<1> QED
  BY <1>2, <1>3

\* The connection takes the next event.
LEMMA TakeEvent ==
  ASSUME TypeOK, EventsRight, events # <<>>, events' = Tail(events),
         alive' = alive, connectionActive' = connectionActive,
         \/ callbackRegistered' = FALSE
         \/ events[1][1] = "connected" /\ (callbackRegistered' => alive)
  PROVE  EventsRight'
<1>1. callbackRegistered' \/ events' # <<>> => connectionActive'
  BY DEF EventsRight
<1>2. \A i \in 1 .. Len(events') - 1 : events'[i][1] # events'[i + 1][1]
  BY EventFacts DEF EventsRight
<1>3. events' # <<>> => (events'[Len(events')][1] = "connected" <=> alive')
  BY EventFacts DEF EventsRight
<1>4. events' # <<>> /\ events'[1][1] = "connected" => ~callbackRegistered'
  BY EventFacts DEF EventsRight
<1> QED
  BY <1>1, <1>2, <1>3, <1>4 DEF EventsRight

\* Every step keeps the order of the events.
LEMMA StepEvents ==
  ASSUME TypeOK, AliveRight, EventsRight, [Next]_vars
  PROVE  EventsRight'
<1> USE DEF sessionVars, serviceVars, connectionVars, systemVars, fixed
<1>1. CASE UNCHANGED <<alive, connectionActive, callbackRegistered, events>>
  BY <1>1 DEF EventsRight
<1>2. CASE PostRuns
  <2>1. alive
    BY <1>2 DEF PostRuns, AliveRight
  <2> QED
    BY Zenon, <1>1, <1>2, <2>1, CrashEvents DEF PostRuns
<1>3. CASE \/ startListeningForBandwidth \/ OnewayRuns \/ SetBandwidth
           \/ SessionBegins \/ SessionConnects \/ SessionEnds \/ Screen
  BY <1>1, <1>3 DEF startListeningForBandwidth, OnewayRuns, SetBandwidth, SessionBegins,
     SessionConnects, SessionEnds, Screen, updateCallback
<1>4. CASE connect
  <2>1. /\ connectionActive' = TRUE /\ ~callbackRegistered /\ alive' = alive
        /\ callbackRegistered' = callbackRegistered
        /\ events' = IF alive THEN <<<<"connected", bg>>>> ELSE <<>>
    BY Zenon, <1>4 DEF connect, EventsRight
  <2> QED
    BY <2>1 DEF EventsRight
<1>5. CASE disconnect \/ UiDies
  <2>1. /\ connectionActive' = FALSE /\ callbackRegistered' = FALSE /\ alive' = alive
        /\ events' = <<>>
    BY Zenon, <1>5 DEF disconnect, UiDies
  <2> QED
    BY <2>1 DEF EventsRight
<1>6. CASE onServiceConnected
  <2>1. /\ events # <<>> /\ events[1][1] = "connected" /\ events' = Tail(events)
        /\ alive' = alive /\ connectionActive' = connectionActive
    BY <1>6, EventFacts DEF onServiceConnected
  <2>2. callbackRegistered' => alive \/ callbackRegistered
    BY Zenon, <1>6 DEF onServiceConnected, Reachable
  <2>3. ~callbackRegistered
    BY <2>1 DEF EventsRight
  <2> QED
    BY Zenon, <2>1, <2>2, <2>3, TakeEvent
<1>7. CASE onServiceDisconnected
  BY Zenon, <1>7, TakeEvent DEF onServiceDisconnected
<1>8. CASE \E n \in 1 .. MaxBg : binderDied(n)
  <2>1. /\ callbackRegistered' = FALSE /\ alive' = alive /\ events' = events
        /\ connectionActive' = connectionActive
    BY <1>8 DEF binderDied
  <2> QED
    BY <2>1 DEF EventsRight
<1>9. CASE BgStarts
  <2>1. /\ ~alive /\ alive' = TRUE /\ connectionActive' = connectionActive
        /\ callbackRegistered' = callbackRegistered
        /\ events' = IF connectionActive THEN Append(events, <<"connected", bg'>>) ELSE events
    BY <1>9 DEF BgStarts
  <2>2. CASE connectionActive
    <3>1. events' = Append(events, <<"connected", bg'>>)
      BY <2>1, <2>2
    <3>2. \A i \in 1 .. Len(events') - 1 : events'[i][1] # events'[i + 1][1]
      BY <2>1, <3>1, EventFacts DEF EventsRight
    <3>3. events'[1][1] = "connected" => ~callbackRegistered
      BY <2>1, <3>1, EventFacts DEF EventsRight
    <3> QED
      BY <2>1, <2>2, <3>1, <3>2, <3>3, EventFacts DEF EventsRight
  <2>3. CASE ~connectionActive
    BY <2>1, <2>3, EventFacts DEF EventsRight
  <2> QED
    BY <2>2, <2>3
<1>10. CASE BgDies
  BY <1>10, CrashEvents DEF BgDies
<1>11. CASE UNCHANGED vars
  BY <1>1, <1>11 DEF vars
<1> QED
  BY <1>2, <1>3, <1>4, <1>5, <1>6, <1>7, <1>8, <1>9, <1>10, <1>11 DEF Next

\* The service that dies or comes back does not change the past.
LEMMA StepNumbers ==
  ASSUME TypeOK, AliveRight, EventsRight, NumbersRight, [Next]_vars
  PROVE  NumbersRight'
<1> USE DEF sessionVars, serviceVars, connectionVars, systemVars, fixed
<1>0. bg \in Nat /\ service \in Nat /\ \A n \in deaths : n \in Nat
  BY DEF TypeOK
<1>1. CASE UNCHANGED <<service, bg, alive, deaths, events>>
  BY <1>1 DEF NumbersRight, Reachable
<1>2. ASSUME alive, Crash PROVE NumbersRight'
  <2>1. /\ alive' = FALSE /\ bg' = bg /\ service' = service
        /\ events' = IF connectionActive THEN Append(events, <<"disconnected", bg>>) ELSE events
        /\ deaths' = IF bg \in linked THEN deaths \cup {bg} ELSE deaths
    BY <1>2 DEF Crash
  <2>2. \A i \in 1 .. Len(events') : events'[i][2] <= bg
    BY <1>0, <2>1, EventFacts DEF NumbersRight
  <2> QED
    BY <1>0, <2>1, <2>2 DEF NumbersRight, Reachable
<1>3. CASE PostRuns
  <2>1. alive
    BY <1>3 DEF PostRuns, AliveRight
  <2> QED
    BY Zenon, <1>1, <1>2, <1>3, <2>1 DEF PostRuns
<1>4. CASE \/ startListeningForBandwidth \/ OnewayRuns \/ SetBandwidth
           \/ SessionBegins \/ SessionConnects \/ SessionEnds \/ Screen
  BY <1>1, <1>4 DEF startListeningForBandwidth, OnewayRuns, SetBandwidth, SessionBegins,
     SessionConnects, SessionEnds, Screen, updateCallback
<1>5. CASE connect
  <2>1. /\ bg' = bg /\ alive' = alive /\ service' = service /\ deaths' = deaths
        /\ events' = IF alive THEN <<<<"connected", bg>>>> ELSE <<>>
    BY <1>5 DEF connect
  <2> QED
    BY <1>0, <2>1 DEF NumbersRight, Reachable
<1>6. CASE disconnect \/ UiDies
  <2>1. /\ bg' = bg /\ alive' = alive /\ service' = 0 /\ deaths' \subseteq deaths
        /\ events' = <<>>
    BY Zenon, <1>6 DEF disconnect, UiDies, None
  <2> QED
    BY <1>0, <2>1 DEF NumbersRight, Reachable
<1>7. CASE onServiceConnected \/ onServiceDisconnected
  <2>1. /\ bg' = bg /\ alive' = alive /\ deaths' = deaths
        /\ events # <<>> /\ events' = Tail(events)
        /\ service' = Head(events)[2] \/ service' = 0
    BY <1>7 DEF onServiceConnected, onServiceDisconnected, None
  <2>2. service' <= bg
    BY <1>0, <2>1, EventFacts DEF NumbersRight
  <2>3. \A i \in 1 .. Len(events') : events'[i][2] <= bg
    BY <2>1, EventFacts DEF NumbersRight
  <2>4. events' # <<>> /\ alive => events'[Len(events')][2] = bg
    BY <2>1, EventFacts DEF NumbersRight
  <2> QED
    BY <2>1, <2>2, <2>3, <2>4 DEF NumbersRight, Reachable
<1>8. CASE \E n \in 1 .. MaxBg : binderDied(n)
  BY <1>0, <1>8 DEF binderDied, NumbersRight, Reachable, None
<1>9. CASE BgStarts
  <2>1. /\ bg' = bg + 1 /\ service' = service /\ deaths' = deaths
        /\ events' = IF connectionActive THEN Append(events, <<"connected", bg'>>) ELSE events
    BY <1>9 DEF BgStarts
  <2>2. \A i \in 1 .. Len(events) : events[i][2] \in Nat
    BY DEF TypeOK
  <2>3. \A i \in 1 .. Len(events') : events'[i][2] <= bg'
    BY <1>0, <2>1, <2>2, EventFacts DEF NumbersRight
  <2>4. events' # <<>> => events'[Len(events')][2] = bg'
    BY <2>1, EventFacts DEF EventsRight
  <2> QED
    BY <1>0, <2>1, <2>3, <2>4 DEF NumbersRight, Reachable
<1>10. CASE BgDies
  BY <1>2, <1>10 DEF BgDies
<1>11. CASE UNCHANGED vars
  BY <1>1, <1>11 DEF vars
<1> QED
  BY <1>3, <1>4, <1>5, <1>6, <1>7, <1>8, <1>9, <1>10, <1>11 DEF Next

\* What the connection holds follows what it has heard.
LEMMA StepConnected ==
  ASSUME TypeOK, AliveRight, EventsRight, NumbersRight, ConnectedRight, [Next]_vars
  PROVE  ConnectedRight'
<1> USE DEF sessionVars, serviceVars, connectionVars, systemVars, fixed, historyVars
<1>0. bg \in Nat /\ service \in Nat
  BY DEF TypeOK
<1>1. CASE UNCHANGED <<service, bg, alive, callbackRegistered, connectionActive, events, late>>
           /\ (incall' => incall \/ Reachable(service))
  BY <1>1 DEF ConnectedRight, Reachable
<1>2. ASSUME Crash PROVE ConnectedRight'
  BY <1>2 DEF Crash, ConnectedRight, Reachable
<1>3. CASE PostRuns
  BY <1>1, <1>2, <1>3 DEF PostRuns
<1>4. CASE \/ startListeningForBandwidth \/ OnewayRuns \/ SetBandwidth
           \/ SessionBegins \/ SessionConnects \/ SessionEnds \/ Screen
  <2>1. CASE startListeningForBandwidth \/ OnewayRuns \/ SetBandwidth
    BY <1>1, <2>1 DEF startListeningForBandwidth, OnewayRuns, SetBandwidth
  <2>2. CASE SessionBegins \/ SessionConnects \/ SessionEnds \/ Screen
    BY <1>1, <2>2 DEF SessionBegins, SessionConnects, SessionEnds, Screen, updateCallback
  <2> QED
    BY <1>4, <2>1, <2>2
<1>5. CASE connect
  <2>1. /\ UNCHANGED <<service, bg, alive, callbackRegistered, late, incall>>
        /\ events' = IF alive THEN <<<<"connected", bg>>>> ELSE <<>>
    BY <1>5 DEF connect
  <2> QED
    BY <2>1 DEF ConnectedRight, Reachable
<1>6. CASE disconnect \/ UiDies
  <2>1. /\ bg' = bg /\ alive' = alive /\ service' = 0 /\ ~connectionActive' /\ ~incall'
    <3>1. CASE disconnect
      BY <3>1 DEF disconnect, None
    <3>2. CASE UiDies
      BY <3>2 DEF UiDies, None
    <3> QED
      BY <1>6, <3>1, <3>2
  <2> QED
    BY <2>1 DEF ConnectedRight, Reachable, AliveRight
<1>7. CASE onServiceConnected
  <2>1. /\ UNCHANGED <<bg, alive, connectionActive, late>>
        /\ ~incall /\ events # <<>> /\ events' = Tail(events) /\ service' = Head(events)[2]
        /\ Reachable(service') => callbackRegistered'
        /\ ~Reachable(service') => incall' = incall
    BY <1>7 DEF onServiceConnected
  <2>2. alive /\ events' = <<>> => service' = bg
    BY <2>1, EventFacts DEF NumbersRight
  <2> QED
    <3>1. alive' = alive /\ bg' = bg /\ connectionActive' = connectionActive
      BY Zenon, <2>1
    <3>2. Reachable(service)' <=> Reachable(service')
      BY Zenon, <3>1 DEF Reachable
    <3>3. incall' => Reachable(service')
      BY Zenon, <2>1
    <3>4. alive' /\ events' = <<>> => Reachable(service')
      BY Zenon, <2>2, <3>1 DEF Reachable
    <3> QED
      BY Zenon, <2>1, <3>1, <3>2, <3>3, <3>4 DEF ConnectedRight
<1>8. CASE onServiceDisconnected
  <2>1. /\ UNCHANGED <<bg, alive, connectionActive, late>> /\ ~incall' /\ service' = 0
        /\ events # <<>> /\ Head(events)[1] = "disconnected" /\ events' = Tail(events)
    BY <1>8 DEF onServiceDisconnected, None
  <2>2. events' = <<>> => ~alive
    BY Zenon, <2>1, EventFacts DEF EventsRight
  <2> QED
    BY <2>1, <2>2 DEF ConnectedRight, Reachable, AliveRight
<1>9. CASE \E n \in 1 .. MaxBg : binderDied(n)
  <2> PICK n \in 1 .. MaxBg : binderDied(n)
    BY <1>9
  <2>1. /\ n \in deaths /\ service' = 0
        /\ UNCHANGED <<bg, alive, connectionActive, incall, events>>
        /\ late' = (late \/ (service # None /\ service # n))
    BY DEF binderDied, None
  <2>2. ~Reachable(n)
    BY <2>1 DEF NumbersRight
  <2>3. Reachable(service) => late'
    BY Zenon, <2>1, <2>2 DEF Reachable, AliveRight, None
  <2>4. late => late'
    BY Zenon, <2>1
  <2> QED
    BY <2>1, <2>3, <2>4 DEF ConnectedRight, Reachable, AliveRight
<1>10. CASE BgStarts
  <2>1. /\ bg' = bg + 1 /\ ~alive
        /\ UNCHANGED <<service, incall, connectionActive, callbackRegistered, late>>
        /\ events' = IF connectionActive THEN Append(events, <<"connected", bg'>>) ELSE events
    BY <1>10 DEF BgStarts
  <2>2. connectionActive => events' # <<>>
    BY <2>1, EventFacts
  <2>3. ~Reachable(service)'
    BY <1>0, <2>1 DEF Reachable, NumbersRight
  <2> QED
    BY <2>1, <2>2, <2>3 DEF ConnectedRight, AliveRight
<1>11. CASE BgDies
  BY <1>2, <1>11 DEF BgDies
<1>12. CASE UNCHANGED vars
  BY <1>1, <1>12 DEF vars
<1> QED
  BY <1>3, <1>4, <1>5, <1>6, <1>7, <1>8, <1>9, <1>10, <1>11, <1>12 DEF Next

\* The notification is on the main thread: what it is told takes effect at once.
LEMMA StepNotification ==
  ASSUME TypeOK, AliveRight, NotificationRight, [Next]_vars
  PROVE  NotificationRight'
<1> USE DEF sessionVars, serviceVars, connectionVars, systemVars, fixed, NotificationRight
<1>0. ui # Notification /\ (posts # <<>> => Head(posts)[2] # Notification)
      /\ (oneway # <<>> => Head(oneway)[2] # Notification)
  <2>1. \A c \in Uis : c # Notification
    BY DEF Uis, Notification
  <2>2. posts # <<>> => Head(posts)[2] \in Uis
    <3>1. posts \in Seq({"start", "stop"} \X Uis)
      BY ZenonT(60) DEF TypeOK
    <3> QED BY ONLY SMTT(60), <3>1
  <2>3. oneway # <<>> => Head(oneway)[2] \in Uis
    <3>1. oneway \in Seq({"stop", "unregister"} \X Uis)
      BY ZenonT(60) DEF TypeOK
    <3> QED BY ONLY SMTT(60), <3>1
  <2> QED
    BY <2>1, <2>2, <2>3 DEF TypeOK
<1> HIDE DEF Notification
<1>1. CASE PostRuns
  <2>1. CASE Crash
    BY Zenon, <2>1 DEF Crash
  <2>2. CASE ~Crash
    <3>1. /\ posts # <<>> /\ notified' = notified /\ session' = session
          /\ callbacks' = callbacks
          /\ \/ bandwidthListeners' = bandwidthListeners \cup {Head(posts)[2]}
             \/ bandwidthListeners' = bandwidthListeners \ {Head(posts)[2]}
      BY Zenon, <1>1, <2>2 DEF PostRuns, AddListener, RemoveListener
    <3> QED
      BY Zenon, <1>0, <3>1
  <2> QED
    BY <2>1, <2>2
<1>2. CASE startListeningForBandwidth \/ OnewayRuns
  <2>1. /\ notified' = notified /\ session' = session
        /\ bandwidthListeners' = bandwidthListeners
        /\ \/ callbacks' = callbacks
           \/ oneway # <<>> /\ callbacks' = callbacks \ {Head(oneway)[2]}
    BY Zenon, <1>2 DEF startListeningForBandwidth, OnewayRuns
  <2> QED
    BY Zenon, <1>0, <2>1
<1>3. ASSUME NEW on, updateCallback(on)
      PROVE  /\ notified' <=> Notification \in callbacks'
             /\ notified' <=> Notification \in bandwidthListeners'
             /\ ~on => ~notified'
  BY <1>3 DEF updateCallback, AddListener, RemoveListener
<1>4. CASE SessionBegins \/ SessionConnects \/ SessionEnds \/ Screen
  BY Zenon, <1>3, <1>4 DEF SessionBegins, SessionConnects, SessionEnds, Screen
<1>5. CASE connect \/ disconnect \/ SetBandwidth
  BY <1>5 DEF connect, disconnect, SetBandwidth
<1>6. CASE onServiceConnected \/ onServiceDisconnected
  BY SMTT(60), <1>0, <1>6 DEF onServiceConnected, onServiceDisconnected
<1>7. CASE \E n \in 1 .. MaxBg : binderDied(n)
  BY <1>7 DEF binderDied
<1>8. CASE BgStarts \/ BgDies
  BY <1>8 DEF BgStarts, BgDies, Crash
<1>9. CASE UiDies
  <2>1. callbacks' = callbacks \ {ui} /\ UNCHANGED <<bandwidthListeners, notified, session>>
    BY <1>9 DEF UiDies
  <2> QED
    BY <1>0, <2>1
<1>10. CASE UNCHANGED vars
  BY <1>10 DEF vars
<1> QED
  BY <1>1, <1>2, <1>4, <1>5, <1>6, <1>7, <1>8, <1>9, <1>10 DEF Next

\* Which calls are on their way when calls are added and when one arrives.
LEMMA OnewayFacts ==
  ASSUME TypeOK, NEW s \in Seq({"stop", "unregister"} \X Uis), NEW x
  PROVE  /\ Has(oneway \o s, x) <=> Has(oneway, x) \/ Has(s, x)
         /\ oneway # <<>> => (Has(oneway, x) <=> Head(oneway) = x \/ Has(Tail(oneway), x))
<1> DEFINE O == {"stop", "unregister"} \X Uis
<1>1. oneway \in Seq(O) /\ s \in Seq(O)
  BY DEF TypeOK
<1> HIDE DEF O
<1>2. /\ Len(oneway) \in Nat /\ Len(s) \in Nat /\ Len(oneway \o s) = Len(oneway) + Len(s)
      /\ \A i \in 1 .. Len(oneway) : (oneway \o s)[i] = oneway[i]
      /\ \A i \in 1 .. Len(s) : (oneway \o s)[Len(oneway) + i] = s[i]
  BY <1>1
<1>3. ASSUME Has(oneway \o s, x) PROVE Has(oneway, x) \/ Has(s, x)
  <2>1. PICK i \in 1 .. Len(oneway) + Len(s) : (oneway \o s)[i] = x
    BY <1>2, <1>3 DEF Has
  <2>2. CASE i > Len(oneway)
    <3>1. i - Len(oneway) \in 1 .. Len(s) /\ i = Len(oneway) + (i - Len(oneway))
      BY <1>2, <2>1, <2>2
    <3>2. s[i - Len(oneway)] = x
      BY <1>2, <2>1, <3>1
    <3> QED
      BY <3>1, <3>2 DEF Has
  <2> QED
    BY <1>2, <2>1, <2>2 DEF Has
<1>4. ASSUME Has(oneway, x) PROVE Has(oneway \o s, x)
  BY <1>2, <1>4 DEF Has
<1>5. ASSUME Has(s, x) PROVE Has(oneway \o s, x)
  <2>1. PICK i \in 1 .. Len(s) : s[i] = x
    BY <1>5 DEF Has
  <2>2. Len(oneway) + i \in 1 .. Len(oneway \o s)
    BY <1>2
  <2> QED
    BY <1>2, <2>1, <2>2 DEF Has
<1>6. ASSUME oneway # <<>>
      PROVE  Has(oneway, x) <=> Head(oneway) = x \/ Has(Tail(oneway), x)
  <2>1. /\ Len(oneway) >= 1 /\ Head(oneway) = oneway[1]
        /\ Len(Tail(oneway)) = Len(oneway) - 1
        /\ \A i \in 1 .. Len(oneway) - 1 : Tail(oneway)[i] = oneway[i + 1]
    BY <1>1, <1>6
  <2>2. ASSUME Has(oneway, x), Head(oneway) # x PROVE Has(Tail(oneway), x)
    <3>1. PICK i \in 1 .. Len(oneway) : oneway[i] = x
      BY <2>2 DEF Has
    <3>2. i - 1 \in 1 .. Len(oneway) - 1 /\ i = (i - 1) + 1
      BY <1>2, <2>1, <2>2, <3>1
    <3> QED
      BY Zenon, <2>1, <3>1, <3>2 DEF Has
  <2>3. ASSUME Has(Tail(oneway), x) PROVE Has(oneway, x)
    <3>1. PICK i \in 1 .. Len(oneway) - 1 : Tail(oneway)[i] = x
      BY <2>1, <2>3 DEF Has
    <3>2. i + 1 \in 1 .. Len(oneway)
      BY <1>2
    <3> QED
      BY <2>1, <3>1, <3>2 DEF Has
  <2>4. ASSUME Head(oneway) = x PROVE Has(oneway, x)
    <3>1. 1 \in 1 .. Len(oneway)
      BY <1>2, <2>1
    <3> QED
      BY <2>1, <2>4, <3>1 DEF Has
  <2> QED
    BY <2>2, <2>3, <2>4
<1> QED
  BY <1>3, <1>4, <1>5, <1>6

\* disconnect unregisters who is registered.
LEMMA DisconnectCalls ==
  ASSUME ui \in Uis
  PROVE  LET s == IF Reachable(service)
                    THEN (IF callbackRegistered THEN <<<<"unregister", ui>>>> ELSE <<>>)
                           \o <<<<"stop", ui>>>>
                    ELSE <<>>
         IN  /\ s \in Seq({"stop", "unregister"} \X Uis)
             /\ Registered => Has(s, <<"unregister", ui>>)
<1> DEFINE O == {"stop", "unregister"} \X Uis
           a == <<<<"unregister", ui>>>>
           b == <<<<"stop", ui>>>>
<1>1. <<"unregister", ui>> \in O /\ <<"stop", ui>> \in O
  OBVIOUS
<1>2. SUFFICES
        LET s == IF Reachable(service) THEN (IF callbackRegistered THEN a ELSE <<>>) \o b ELSE <<>>
        IN  s \in Seq(O) /\ (Registered => Has(s, <<"unregister", ui>>))
  OBVIOUS
<1> HIDE DEF O
<1>3. a \in Seq(O) /\ b \in Seq(O) /\ <<>> \in Seq(O)
  BY <1>1
<1>4. Len(a \o b) = 2 /\ (a \o b)[1] = <<"unregister", ui>>
  BY <1>3
<1> QED
  BY <1>3, <1>4 DEF Registered, Has

\* Unregistering adds one call.
LEMMA UnregisterCall ==
  ASSUME TypeOK
  PROVE  Append(oneway, <<"unregister", ui>>) = oneway \o <<<<"unregister", ui>>>>
<1> DEFINE O == {"stop", "unregister"} \X Uis
<1>1. oneway \in Seq(O) /\ <<"unregister", ui>> \in O
  BY DEF TypeOK
<1> HIDE DEF O
<1> QED
  BY <1>1

\* A user interface is listed as a callback as long as it is registered; who
\* is not registered any more has been taken off, or will be.
LEMMA StepCallback ==
  ASSUME TypeOK, AliveRight, EventsRight, NumbersRight, ConnectedRight, CallbackRight,
         [Next]_vars
  PROVE  CallbackRight'
<1> USE DEF sessionVars, serviceVars, connectionVars, systemVars, fixed, historyVars
<1> DEFINE Leaving == Has(oneway, <<"unregister", ui>>)
<1>0. /\ bg \in Nat /\ service \in Nat /\ ui \in Uis
      /\ Notification \notin Uis
  BY DEF TypeOK, Uis, Notification
<1>1. /\ callbacks \cap Uis \subseteq {ui}
      /\ Registered /\ ~overtaken => ui \in callbacks
      /\ ui \in callbacks /\ ~late => Registered \/ Leaving
  BY DEF CallbackRight
<1>2. SUFFICES /\ callbacks' \cap Uis \subseteq {ui'}
               /\ Registered' /\ ~overtaken' => ui' \in callbacks'
               /\ ui' \in callbacks' /\ ~late' => Registered' \/ Leaving'
  BY DEF CallbackRight
<1>3. CASE /\ callbacks' \cap Uis = callbacks \cap Uis
           /\ UNCHANGED <<service, bg, alive, callbackRegistered, ui, oneway, late, overtaken>>
  <2>1. (Registered' <=> Registered) /\ (Leaving' <=> Leaving)
    BY <1>3 DEF Registered, Reachable
  <2> QED
    BY <1>0, <1>1, <1>3, <2>1
<1>4. ASSUME Crash PROVE callbacks' = {} /\ ~Registered'
  BY <1>4 DEF Crash, Registered, Reachable
<1>5. CASE PostRuns
  <2>1. CASE Crash
    BY <1>4, <2>1
  <2>2. CASE ~Crash
    BY <1>3, <1>5, <2>2 DEF PostRuns
  <2> QED
    BY <2>1, <2>2
<1>6. CASE \/ startListeningForBandwidth \/ SetBandwidth \/ connect
           \/ SessionBegins \/ SessionConnects \/ SessionEnds \/ Screen
  <2>1. CASE startListeningForBandwidth \/ SetBandwidth \/ connect
    BY <1>3, <2>1 DEF startListeningForBandwidth, SetBandwidth, connect
  <2>2. ASSUME NEW on, updateCallback(on) PROVE callbacks' \cap Uis = callbacks \cap Uis
    BY Zenon, <1>0, <2>2 DEF updateCallback
  <2>3. CASE SessionBegins \/ SessionConnects \/ SessionEnds \/ Screen
    <3>1. callbacks' \cap Uis = callbacks \cap Uis
      BY Zenon, <2>2, <2>3 DEF SessionBegins, SessionConnects, SessionEnds, Screen
    <3> QED
      BY <1>3, <2>3, <3>1 DEF SessionBegins, SessionConnects, SessionEnds, Screen, updateCallback
  <2> QED
    BY <1>6, <2>1, <2>3
<1>7. CASE OnewayRuns
  <2> DEFINE c == Head(oneway)[2]
  <2>1. /\ oneway # <<>> /\ oneway' = Tail(oneway)
        /\ callbacks' = IF Head(oneway)[1] = "unregister" THEN callbacks \ {c} ELSE callbacks
        /\ overtaken' = (overtaken \/ (c = ui /\ callbackRegistered /\ Reachable(service)))
        /\ UNCHANGED <<service, bg, alive, callbackRegistered, ui, late>>
    BY <1>7 DEF OnewayRuns
  <2>2. Registered' <=> Registered
    BY <2>1 DEF Registered, Reachable
  <2>3. <<>> \in Seq({"stop", "unregister"} \X Uis)
    OBVIOUS
  <2>4. Leaving => Leaving' \/ Head(oneway) = <<"unregister", ui>>
    BY Zenon, <2>1, <2>3, OnewayFacts
  <2>5. Head(oneway) = <<"unregister", ui>> => ui \notin callbacks'
    BY <2>1
  <2>6. Registered /\ ~overtaken' => c # ui
    BY Zenon, <2>1 DEF Registered
  <2> HIDE DEF Leaving, c
  <2>7. Registered' /\ ~overtaken' => ui \in callbacks'
    BY Zenon, <1>1, <2>1, <2>2, <2>6
  <2> QED
    BY <1>1, <2>1, <2>2, <2>4, <2>5, <2>7
<1>8. CASE disconnect
  <2> DEFINE s == IF Reachable(service)
                    THEN (IF callbackRegistered THEN <<<<"unregister", ui>>>> ELSE <<>>)
                           \o <<<<"stop", ui>>>>
                    ELSE <<>>
  <2>1. /\ oneway' = oneway \o s /\ UNCHANGED <<callbacks, ui, late>> /\ ~callbackRegistered'
    BY <1>8 DEF disconnect
  <2>2. s \in Seq({"stop", "unregister"} \X Uis) /\ (Registered => Has(s, <<"unregister", ui>>))
    BY <1>0, DisconnectCalls
  <2> HIDE DEF s
  <2>4. Registered \/ Leaving => Leaving'
    BY <2>1, <2>2, OnewayFacts
  <2> QED
    BY <1>1, <2>1, <2>4 DEF Registered
<1>9. CASE onServiceConnected
  <2>1. /\ UNCHANGED <<bg, alive, ui, oneway, late>>
        /\ IF Reachable(service')
             THEN callbacks' = callbacks \cup {ui} /\ callbackRegistered'
             ELSE callbacks' = callbacks
    BY <1>9 DEF onServiceConnected
  <2>2. Registered => callbackRegistered /\ Reachable(service)
    BY DEF Registered
  <2>3. CASE Reachable(service')
    BY <1>1, <2>1, <2>3 DEF Registered, Reachable
  <2>4. CASE ~Reachable(service')
    <3>1. ~Registered'
      BY <2>1, <2>4 DEF Registered, Reachable
    <3>2. ~Registered
      BY <1>9, EventFacts DEF onServiceConnected, EventsRight, Registered
    <3> QED
      BY <1>1, <2>1, <2>4, <3>1, <3>2
  <2> QED
    BY <2>3, <2>4
<1>10. CASE onServiceDisconnected
  <2>1. /\ UNCHANGED <<callbacks, ui, late>> /\ ~callbackRegistered'
        /\ ~Registered => oneway' = oneway
        /\ Registered => oneway' = Append(oneway, <<"unregister", ui>>)
    BY <1>10 DEF onServiceDisconnected, Registered
  <2>2. Registered => oneway' = oneway \o <<<<"unregister", ui>>>>
    BY <2>1, UnregisterCall
  <2>3. <<<<"unregister", ui>>>> \in Seq({"stop", "unregister"} \X Uis)
        /\ Has(<<<<"unregister", ui>>>>, <<"unregister", ui>>)
    BY <1>0 DEF Has
  <2>4. Registered \/ Leaving => Leaving'
    BY Zenon, <2>1, <2>2, <2>3, OnewayFacts
  <2> QED
    BY <1>1, <2>1, <2>4 DEF Registered
<1>11. CASE \E n \in 1 .. MaxBg : binderDied(n)
  <2> PICK n \in 1 .. MaxBg : binderDied(n)
    BY <1>11
  <2>1. /\ n \in deaths /\ service' = 0 /\ ~callbackRegistered'
        /\ UNCHANGED <<bg, alive, callbacks, oneway, ui>>
        /\ late' = (late \/ (service # None /\ service # n))
    BY DEF binderDied, None
  <2>2. Registered => late'
    BY Zenon, <2>1 DEF NumbersRight, Registered, Reachable, AliveRight, None
  <2> QED
    BY Zenon, <1>1, <2>1, <2>2 DEF Registered
<1>12. CASE BgStarts
  <2>1. bg' = bg + 1 /\ ~alive /\ UNCHANGED <<service, callbacks>>
    BY <1>12 DEF BgStarts
  <2>2. ~Registered' /\ callbacks' = {}
    BY <1>0, <2>1 DEF Registered, Reachable, NumbersRight, AliveRight
  <2> QED
    BY <2>2
<1>13. CASE BgDies
  BY <1>4, <1>13 DEF BgDies
<1>14. CASE UiDies
  <2>1. callbacks' = callbacks \ {ui} /\ ~callbackRegistered' /\ ui' \in Uis
    BY Zenon, <1>14, StepSets DEF UiDies, Next
  <2> QED
    BY <1>1, <2>1 DEF Registered
<1>15. CASE UNCHANGED vars
  BY <1>3, <1>15 DEF vars
<1> QED
  BY <1>5, <1>6, <1>7, <1>8, <1>9, <1>10, <1>11, <1>12, <1>13, <1>14, <1>15 DEF Next

\* A post decides for its client when it is the last one.
LEMMA LeadsAppend ==
  ASSUME TypeOK, NEW x, NEW c, NEW l
  PROVE  /\ x = <<"start", c>> => Leads(Append(posts, x), l, c)
         /\ x = <<"stop", c>> => ~Leads(Append(posts, x), l, c)
         /\ x # <<"start", c>> /\ x # <<"stop", c>> =>
              (Leads(Append(posts, x), l, c) <=> Leads(posts, l, c))
<1> DEFINE n == Len(posts)
           a == Append(posts, x)
<1>1. /\ n \in Nat /\ Len(a) = n + 1 /\ a[n + 1] = x
      /\ \A i \in 1 .. n : a[i] = posts[i]
  BY DEF TypeOK
<1> HIDE DEF n, a
<1>2. Len(posts) = n
  BY DEF n
<1>3. ASSUME x = <<"start", c>> PROVE Leads(a, l, c)
  <2>1. n + 1 \in 0 .. Len(a) /\ n + 1 # 0 /\ \A j \in n + 2 .. Len(a) : FALSE
    BY <1>1
  <2> QED
    BY <1>1, <1>3, <2>1 DEF Leads
<1>4. ASSUME x = <<"stop", c>>, Leads(a, l, c) PROVE FALSE
  <2>1. PICK i \in 0 .. Len(a) : /\ IF i = 0 THEN c \in l ELSE a[i] = <<"start", c>>
                                 /\ \A j \in i + 1 .. Len(a) : a[j] # <<"stop", c>>
    BY Zenon, <1>4 DEF Leads
  <2>2. i = n + 1
    BY <1>1, <1>4, <2>1
  <2> QED
    BY <1>1, <1>4, <2>1, <2>2
<1>5. ASSUME x # <<"start", c>>, x # <<"stop", c>>
      PROVE  Leads(a, l, c) <=> Leads(posts, l, c)
  <2>1. ASSUME Leads(a, l, c) PROVE Leads(posts, l, c)
    <3>1. PICK i \in 0 .. Len(a) : /\ IF i = 0 THEN c \in l ELSE a[i] = <<"start", c>>
                                   /\ \A j \in i + 1 .. Len(a) : a[j] # <<"stop", c>>
      BY Zenon, <2>1 DEF Leads
    <3>2. i \in 0 .. n
      <4>1. ASSUME i = n + 1 PROVE FALSE
        <5>1. i # 0 /\ a[i] = x
          BY <1>1, <4>1
        <5> QED
          BY <1>5, <3>1, <5>1
      <4> QED
        BY <1>1, <4>1
    <3>3. IF i = 0 THEN c \in l ELSE posts[i] = <<"start", c>>
      BY <1>1, <3>1, <3>2
    <3>4. \A j \in i + 1 .. n : posts[j] # <<"stop", c>>
      BY <1>1, <3>1, <3>2
    <3> QED
      BY Zenon, <1>2, <3>2, <3>3, <3>4 DEF Leads
  <2>2. ASSUME Leads(posts, l, c) PROVE Leads(a, l, c)
    <3>1. PICK i \in 0 .. n : /\ IF i = 0 THEN c \in l ELSE posts[i] = <<"start", c>>
                              /\ \A j \in i + 1 .. n : posts[j] # <<"stop", c>>
      BY Zenon, <1>2, <2>2 DEF Leads
    <3>2. i \in 0 .. Len(a)
      BY <1>1
    <3>3. IF i = 0 THEN c \in l ELSE a[i] = <<"start", c>>
      BY <1>1, <3>1
    <3>4. ASSUME NEW j \in i + 1 .. Len(a) PROVE a[j] # <<"stop", c>>
      <4>1. CASE j = n + 1
        BY Zenon, <1>1, <1>5, <4>1
      <4>2. CASE j # n + 1
        <5>1. j \in i + 1 .. n /\ j \in 1 .. n
          BY <1>1, <4>2
        <5> QED
          BY <1>1, <3>1, <5>1
      <4> QED
        BY <4>1, <4>2
    <3> QED
      BY Zenon, <3>2, <3>3, <3>4 DEF Leads
  <2> QED
    BY <2>1, <2>2
<1> QED
  BY <1>3, <1>4, <1>5 DEF a

\* A post that runs does what it would have done later.
LEMMA LeadsTail ==
  ASSUME TypeOK, posts # <<>>, NEW c, NEW l, NEW k,
         c \in k <=> Head(posts) = <<"start", c>> \/ (c \in l /\ Head(posts) # <<"stop", c>>)
  PROVE  Leads(posts, l, c) <=> Leads(Tail(posts), k, c)
<1> DEFINE n == Len(posts)
           t == Tail(posts)
<1>1. /\ n \in Nat /\ n >= 1 /\ Len(t) = n - 1 /\ Head(posts) = posts[1]
      /\ \A i \in 1 .. n - 1 : t[i] = posts[i + 1]
  <2>1. posts \in Seq({"start", "stop"} \X Uis) /\ posts # <<>>
    BY Zenon DEF TypeOK
  <2> QED
    BY ONLY SMTT(60), <2>1
<1> HIDE DEF n, t
<1>2. Len(posts) = n
  BY DEF n
<1>3. \A i \in 2 .. n : posts[i] = t[i - 1]
  BY <1>1
<1>4. ASSUME Leads(posts, l, c) PROVE Leads(t, k, c)
  <2>1. PICK i \in 0 .. n : /\ IF i = 0 THEN c \in l ELSE posts[i] = <<"start", c>>
                            /\ \A j \in i + 1 .. n : posts[j] # <<"stop", c>>
    BY Zenon, <1>2, <1>4 DEF Leads
  <2>2. CASE i \in {0, 1}
    <3>1. c \in k
      BY <1>1, <2>1, <2>2
    <3>2. \A j \in 0 + 1 .. Len(t) : t[j] # <<"stop", c>>
      BY <1>1, <2>1, <2>2
    <3>3. 0 \in 0 .. Len(t)
      BY <1>1
    <3> QED
      BY Zenon, <1>1, <3>1, <3>2, <3>3 DEF Leads
  <2>3. CASE i > 1
    <3>1. i - 1 \in 0 .. Len(t) /\ i - 1 # 0 /\ t[i - 1] = <<"start", c>>
      BY SMTT(60), <1>1, <1>3, <2>1, <2>3
    <3>2. ASSUME NEW j \in (i - 1) + 1 .. Len(t) PROVE t[j] # <<"stop", c>>
      <4>1. j \in 1 .. n - 1 /\ j + 1 \in i + 1 .. n
        BY <1>1, <2>3
      <4> QED
        BY <1>1, <2>1, <4>1
    <3> QED
      BY Zenon, <3>1, <3>2 DEF Leads
  <2> QED
    BY <2>2, <2>3
<1>5. ASSUME Leads(t, k, c) PROVE Leads(posts, l, c)
  <2>1. PICK i \in 0 .. n - 1 : /\ IF i = 0 THEN c \in k ELSE t[i] = <<"start", c>>
                                /\ \A j \in i + 1 .. n - 1 : t[j] # <<"stop", c>>
    BY Zenon, <1>1, <1>5 DEF Leads
  <2>2. ASSUME NEW j \in i + 2 .. n PROVE posts[j] # <<"stop", c>>
    <3>1. j \in 2 .. n /\ j - 1 \in i + 1 .. n - 1
      BY <1>1
    <3> QED
      BY <1>3, <2>1, <3>1
  <2>3. CASE i # 0 \/ posts[1] = <<"start", c>>
    <3>1. i + 1 \in 0 .. n /\ i + 1 # 0 /\ posts[i + 1] = <<"start", c>>
      BY <1>1, <2>1, <2>3
    <3>2. \A j \in (i + 1) + 1 .. n : posts[j] # <<"stop", c>>
      BY <1>1, <2>2
    <3> QED
      BY Zenon, <1>2, <3>1, <3>2 DEF Leads
  <2>4. CASE i = 0 /\ posts[1] # <<"start", c>>
    <3>1. c \in l /\ posts[1] # <<"stop", c>>
      BY <1>1, <2>1, <2>4
    <3>2. \A j \in 0 + 1 .. n : posts[j] # <<"stop", c>>
      BY <1>1, <2>2, <2>4, <3>1
    <3>3. 0 \in 0 .. n
      BY <1>1
    <3> QED
      BY Zenon, <1>2, <3>1, <3>2, <3>3 DEF Leads
  <2> QED
    BY <2>3, <2>4
<1> QED
  BY <1>4, <1>5 DEF t

\* Who wants the bandwidth gets it, and who is gone is taken off: the posts run
\* in the order of the calls that made them.
LEMMA StepListen ==
  ASSUME TypeOK, AliveRight, EventsRight, NumbersRight, ConnectedRight, CallbackRight,
         ListenRight, [Next]_vars
  PROVE  ListenRight'
<1> USE DEF sessionVars, serviceVars, connectionVars, systemVars, fixed, historyVars
<1> DEFINE Stopping(c) == Has(oneway, <<"stop", c>>) \/ Has(oneway, <<"unregister", c>>)
           Clean == ~late /\ ~overtaken /\ ~orphaned
<1>0. /\ bg \in Nat /\ service \in Nat /\ ui \in Uis
      /\ Notification \notin Uis
  BY DEF TypeOK, Uis, Notification
<1>1. /\ Registered /\ bandwidth /\ ~overtaken => WillListen(ui)
      /\ Clean => \A c \in Uis : WillListen(c) => (c = ui /\ Registered) \/ Stopping(c)
  BY DEF ListenRight
<1>2. SUFFICES
        /\ Registered' /\ bandwidth' /\ ~overtaken' => WillListen(ui)'
        /\ Clean' => \A c \in Uis : WillListen(c)' => (c = ui' /\ Registered') \/ Stopping(c)'
  BY DEF ListenRight
<1>3. ASSUME /\ \A c \in Uis : Leads(posts', bandwidthListeners', c)
                                 <=> Leads(posts, bandwidthListeners, c)
             /\ UNCHANGED <<service, bg, alive, callbackRegistered, ui, oneway, bandwidth,
                            incall, historyVars>>
      PROVE  ListenRight'
  <2>1. (Registered' <=> Registered) /\ \A c \in Uis : WillListen(c)' <=> WillListen(c)
    BY <1>3 DEF Registered, Reachable, WillListen
  <2> QED
    BY <1>0, <1>1, <1>3, <2>1 DEF ListenRight
<1>4. ASSUME Crash PROVE ListenRight'
  <2>1. ~Registered' /\ \A c \in Uis : ~WillListen(c)'
    BY <1>4 DEF Crash, Registered, Reachable, WillListen, Leads
  <2> QED
    BY <2>1 DEF ListenRight
<1>5. CASE PostRuns
  <2>1. CASE Crash
    BY Zenon, <1>4, <2>1 DEF ListenRight
  <2>2. CASE ~Crash
    <3>1. /\ posts # <<>> /\ posts' = Tail(posts)
          /\ UNCHANGED <<service, bg, alive, callbackRegistered, ui, oneway, bandwidth,
                         incall, historyVars>>
          /\ \/ /\ Head(posts)[1] = "start"
                /\ bandwidthListeners' = bandwidthListeners \cup {Head(posts)[2]}
             \/ /\ Head(posts)[1] = "stop"
                /\ bandwidthListeners' = bandwidthListeners \ {Head(posts)[2]}
      BY ZenonT(30), <1>5, <2>2 DEF PostRuns, AddListener, RemoveListener
    <3>2. Head(posts) = <<Head(posts)[1], Head(posts)[2]>>
      <4>1. posts \in Seq({"start", "stop"} \X Uis) /\ posts # <<>>
        BY ZenonT(30), <3>1 DEF TypeOK
      <4>2. Head(posts) \in {"start", "stop"} \X Uis
        BY ONLY SMTT(60), <4>1
      <4> QED
        BY ONLY SMTT(60), <4>2
    <3>3. ASSUME NEW c \in Uis
          PROVE  (c \in bandwidthListeners') <=>
                   \/ Head(posts) = <<"start", c>>
                   \/ c \in bandwidthListeners /\ Head(posts) # <<"stop", c>>
      <4> DEFINE h == Head(posts)
      <4> HIDE DEF h
      <4>1. h = <<h[1], h[2]>>
        BY Zenon, <3>2 DEF h
      <4>2. ASSUME NEW k PROVE h = <<k, c>> <=> h[1] = k /\ h[2] = c
        BY <4>1
      <4>3. \/ /\ h[1] = "start" /\ bandwidthListeners' = bandwidthListeners \cup {h[2]}
            \/ /\ h[1] = "stop" /\ bandwidthListeners' = bandwidthListeners \ {h[2]}
        BY Zenon, <3>1 DEF h
      <4>4. c \in bandwidthListeners' <=>
              h = <<"start", c>> \/ (c \in bandwidthListeners /\ h # <<"stop", c>>)
        <5>1. h[1] = "start" => h[1] # "stop"
          BY SMT
        <5>2. CASE h[1] = "start" /\ bandwidthListeners' = bandwidthListeners \cup {h[2]}
          BY ZenonT(30), <4>2, <5>1, <5>2
        <5>3. CASE h[1] = "stop" /\ bandwidthListeners' = bandwidthListeners \ {h[2]}
          BY ZenonT(30), <4>2, <5>1, <5>3
        <5> QED
          BY Zenon, <4>3, <5>2, <5>3
      <4> QED
        BY Zenon, <4>4 DEF h
    <3>4. ASSUME NEW c \in Uis
          PROVE  Leads(posts, bandwidthListeners, c) <=>
                   Leads(Tail(posts), bandwidthListeners', c)
      BY <3>1, <3>3, LeadsTail
    <3> QED
      BY <1>3, <3>1, <3>4 DEF ListenRight
  <2> QED
    BY <2>1, <2>2
<1>6. CASE startListeningForBandwidth
  <2>1. /\ incall /\ ~incall' /\ posts' = Append(posts, <<"start", ui>>)
        /\ UNCHANGED <<service, bg, alive, callbackRegistered, ui, oneway, bandwidth,
                       bandwidthListeners, historyVars>>
    BY <1>6 DEF startListeningForBandwidth
  <2>2. Registered' <=> Registered
    BY <2>1 DEF Registered, Reachable
  <2>3. WillListen(ui) /\ WillListen(ui)'
    BY <2>1, LeadsAppend DEF WillListen
  <2>4. ASSUME NEW c \in Uis, c # ui PROVE WillListen(c)' <=> WillListen(c)
    <3>1. <<"start", ui>> # <<"start", c>> /\ <<"start", ui>> # <<"stop", c>>
      BY <2>4
    <3>2. Leads(posts', bandwidthListeners, c) <=> Leads(posts, bandwidthListeners, c)
      BY <2>1, <3>1, LeadsAppend
    <3> QED
      BY <2>1, <2>4, <3>2 DEF WillListen
  <2> QED
    BY <1>0, <1>1, <2>1, <2>2, <2>3, <2>4
<1>7. CASE OnewayRuns
  <2> DEFINE d == Head(oneway)[2]
  <2>1. /\ oneway # <<>> /\ oneway' = Tail(oneway)
        /\ posts' = Append(posts, <<"stop", d>>)
        /\ overtaken' = (overtaken \/ (d = ui /\ callbackRegistered /\ Reachable(service)))
        /\ UNCHANGED <<service, bg, alive, callbackRegistered, ui, bandwidth, incall,
                       bandwidthListeners, late, orphaned>>
    BY <1>7 DEF OnewayRuns
  <2>2. Registered' <=> Registered
    BY <2>1 DEF Registered, Reachable
  <2>3. <<>> \in Seq({"stop", "unregister"} \X Uis)
    OBVIOUS
  <2>4. ASSUME NEW c \in Uis, c # d, Stopping(c) PROVE Stopping(c)'
    <3>1. Head(oneway) # <<"stop", c>> /\ Head(oneway) # <<"unregister", c>>
      BY <2>4
    <3>2. Has(oneway, <<"stop", c>>) => Has(Tail(oneway), <<"stop", c>>)
      BY Zenon, <2>1, <2>3, <3>1, OnewayFacts
    <3>3. Has(oneway, <<"unregister", c>>) => Has(Tail(oneway), <<"unregister", c>>)
      BY Zenon, <2>1, <2>3, <3>1, OnewayFacts
    <3> QED
      BY <2>1, <2>4, <3>2, <3>3
  <2>5. \A c : c = d => ~Leads(posts', bandwidthListeners, c)
    BY <2>1, LeadsAppend
  <2>6. ASSUME NEW c \in Uis, c # d PROVE WillListen(c)' <=> WillListen(c)
    <3>1. <<"stop", d>> # <<"start", c>> /\ <<"stop", d>> # <<"stop", c>>
      BY <2>6
    <3>2. Leads(posts', bandwidthListeners, c) <=> Leads(posts, bandwidthListeners, c)
      BY <2>1, <3>1, LeadsAppend
    <3> QED
      BY <2>1, <3>2 DEF WillListen
  <2>7. Registered /\ ~overtaken' => d # ui
    BY Zenon, <2>1 DEF Registered
  <2> HIDE DEF Stopping, d
  <2>8. ASSUME Clean', NEW c \in Uis, WillListen(c)'
        PROVE  (c = ui /\ Registered) \/ Stopping(c)'
    <3>1. CASE c # d
      BY Zenon, <1>1, <2>1, <2>4, <2>6, <2>8, <3>1
    <3>2. CASE c = d
      <4>1. c = ui /\ incall
        BY <2>1, <2>5, <2>8, <3>2 DEF WillListen
      <4> QED
        BY <2>1, <2>8, <4>1 DEF ConnectedRight, Registered
    <3> QED
      BY <3>1, <3>2
  <2>9. Registered /\ bandwidth /\ ~overtaken' => WillListen(ui)'
    BY Zenon, <1>0, <1>1, <2>1, <2>6, <2>7
  <2> QED
    BY Zenon, <2>1, <2>2, <2>8, <2>9
<1>8. CASE SessionBegins \/ SessionConnects \/ SessionEnds \/ Screen
  <2>1. ASSUME NEW on, updateCallback(on), NEW c \in Uis
        PROVE  posts' = posts /\ (c \in bandwidthListeners' <=> c \in bandwidthListeners)
    BY <1>0, <2>1 DEF updateCallback, AddListener, RemoveListener
  <2>2. /\ posts' = posts
        /\ \A c \in Uis : c \in bandwidthListeners' <=> c \in bandwidthListeners
    BY ZenonT(30), <1>0, <1>8, <2>1 DEF SessionBegins, SessionConnects, SessionEnds, Screen
  <2>3. UNCHANGED <<service, bg, alive, callbackRegistered, ui, oneway, bandwidth,
                    incall, historyVars>>
    BY <1>8 DEF SessionBegins, SessionConnects, SessionEnds, Screen, updateCallback
  <2>4. \A c \in Uis : Leads(posts', bandwidthListeners', c)
                         <=> Leads(posts, bandwidthListeners, c)
    BY Zenon, <2>2 DEF Leads
  <2> QED
    BY <1>3, <2>3, <2>4 DEF ListenRight
<1>9. CASE SetBandwidth
  <2>1. /\ ~incall /\ bandwidth' /\ incall' = Reachable(service)
        /\ UNCHANGED <<service, bg, alive, callbackRegistered, ui, oneway, posts,
                       bandwidthListeners, historyVars>>
    BY <1>9 DEF SetBandwidth
  <2>2. Registered' <=> Registered
    BY <2>1 DEF Registered, Reachable
  <2>3. Registered => WillListen(ui)'
    BY <2>1 DEF WillListen, Registered
  <2>4. \A c \in Uis : WillListen(c)' => WillListen(c) \/ (c = ui /\ Registered)
    BY <2>1 DEF WillListen, Registered, ConnectedRight
  <2> QED
    BY <1>0, <1>1, <2>1, <2>2, <2>3, <2>4
<1>10. CASE connect
  <2>1. UNCHANGED <<service, bg, alive, callbackRegistered, ui, oneway, bandwidth, posts,
                    bandwidthListeners, incall, historyVars>>
    BY <1>10 DEF connect
  <2> QED
    BY <1>3, <2>1 DEF ListenRight
<1>11. CASE disconnect
  <2> DEFINE s == IF Reachable(service)
                    THEN (IF callbackRegistered THEN <<<<"unregister", ui>>>> ELSE <<>>)
                           \o <<<<"stop", ui>>>>
                    ELSE <<>>
  <2>1. /\ oneway' = oneway \o s /\ ~callbackRegistered' /\ ~incall /\ ~incall'
        /\ UNCHANGED <<ui, posts, bandwidthListeners, historyVars>>
    BY <1>11 DEF disconnect
  <2>2. s \in Seq({"stop", "unregister"} \X Uis) /\ (Registered => Has(s, <<"unregister", ui>>))
    BY <1>0, DisconnectCalls
  <2> HIDE DEF s
  <2>3. \A c \in Uis : Stopping(c) => Stopping(c)'
    BY <2>1, <2>2, OnewayFacts
  <2>4. Registered => Stopping(ui)'
    BY <2>1, <2>2, OnewayFacts
  <2>5. \A c \in Uis : WillListen(c)' <=> WillListen(c)
    BY <2>1 DEF WillListen
  <2> QED
    BY <1>1, <2>1, <2>3, <2>4, <2>5 DEF Registered
<1>12. CASE onServiceConnected
  <2>1. /\ UNCHANGED <<bg, alive, ui, oneway, bandwidth, posts, bandwidthListeners, historyVars>>
        /\ ~incall
        /\ IF Reachable(service')
             THEN callbackRegistered' /\ incall' = bandwidth
             ELSE incall' = incall
    BY <1>12 DEF onServiceConnected
  <2>2. ~Registered
    BY <1>12, EventFacts DEF onServiceConnected, EventsRight, Registered
  <2>3. Registered' <=> Reachable(service')
    BY <2>1, <2>2 DEF Registered, Reachable
  <2>4. \A c \in Uis : c # ui => (WillListen(c)' <=> WillListen(c))
    BY <2>1 DEF WillListen
  <2>5. ~Reachable(service') => (WillListen(ui)' <=> WillListen(ui))
    BY <2>1 DEF WillListen
  <2>6. Reachable(service') /\ bandwidth => WillListen(ui)'
    BY <2>1 DEF WillListen
  <2>7. \A c \in Uis : Stopping(c)' <=> Stopping(c)
    BY <2>1
  <2> HIDE DEF Stopping
  <2> QED
    BY <1>0, <1>1, <2>1, <2>2, <2>3, <2>4, <2>5, <2>6, <2>7
<1>13. CASE onServiceDisconnected
  <2>1. /\ ~callbackRegistered'
        /\ UNCHANGED <<ui, posts, bandwidthListeners, incall, historyVars>>
        /\ ~Registered => oneway' = oneway
        /\ Registered => oneway' = Append(oneway, <<"unregister", ui>>)
    BY <1>13 DEF onServiceDisconnected, Registered
  <2>2. Registered => oneway' = oneway \o <<<<"unregister", ui>>>>
    BY SMTT(30), <2>1, UnregisterCall
  <2>3. <<<<"unregister", ui>>>> \in Seq({"stop", "unregister"} \X Uis)
        /\ Has(<<<<"unregister", ui>>>>, <<"unregister", ui>>)
    BY <1>0 DEF Has
  <2>4. ASSUME NEW c \in Uis, Stopping(c) PROVE Stopping(c)'
    <3>1. Has(oneway, <<"stop", c>>) => Has(oneway', <<"stop", c>>)
      BY Zenon, <2>1, <2>2, <2>3, OnewayFacts
    <3>2. Has(oneway, <<"unregister", c>>) => Has(oneway', <<"unregister", c>>)
      BY Zenon, <2>1, <2>2, <2>3, OnewayFacts
    <3> QED
      BY <2>4, <3>1, <3>2
  <2>5. Registered => Stopping(ui)'
    <3>1. Registered => Has(oneway', <<"unregister", ui>>)
      BY Zenon, <2>2, <2>3, OnewayFacts
    <3> QED
      BY <2>1, <3>1
  <2>6. \A c \in Uis : WillListen(c)' <=> WillListen(c)
    BY <2>1 DEF WillListen
  <2> QED
    BY <1>1, <2>1, <2>4, <2>5, <2>6 DEF Registered
<1>14. CASE \E n \in 1 .. MaxBg : binderDied(n)
  <2> PICK n \in 1 .. MaxBg : binderDied(n)
    BY <1>14
  <2>1. /\ n \in deaths /\ service' = 0 /\ ~callbackRegistered'
        /\ UNCHANGED <<bg, alive, oneway, ui, posts, bandwidthListeners, incall, overtaken,
                       orphaned>>
        /\ late' = (late \/ (service # None /\ service # n))
    BY DEF binderDied, None
  <2>2. Registered => late'
    BY Zenon, <2>1 DEF NumbersRight, Registered, Reachable, AliveRight, None
  <2>3. \A c \in Uis : WillListen(c)' <=> WillListen(c)
    BY <2>1 DEF WillListen
  <2> QED
    BY Zenon, <1>1, <2>1, <2>2, <2>3 DEF Registered
<1>15. CASE BgStarts
  <2>1. /\ bg' = bg + 1 /\ ~alive
        /\ UNCHANGED <<service, ui, oneway, posts, bandwidthListeners, incall, historyVars>>
    BY <1>15 DEF BgStarts
  <2>2. ~Registered' /\ ~Registered
    <3>1. service <= bg
      BY Zenon DEF NumbersRight
    <3>2. service # bg + 1
      BY <1>0, <3>1
    <3>3. service' = service /\ bg' = bg + 1
      BY Zenon, <2>1
    <3>4. ~Reachable(service)' /\ ~Reachable(service)
      BY Zenon, <2>1, <3>2, <3>3 DEF Reachable
    <3> QED
      BY Zenon, <3>4 DEF Registered
  <2>3. \A c \in Uis : WillListen(c)' <=> WillListen(c)
    BY <2>1 DEF WillListen
  <2> QED
    BY <1>1, <2>1, <2>2, <2>3
<1>16. CASE BgDies
  BY <1>4, <1>16 DEF BgDies, ListenRight
<1>17. CASE UiDies
  <2>1. /\ ui' = ui + 1 /\ ~callbackRegistered' /\ ~incall'
        /\ orphaned' = (orphaned \/ incall)
        /\ UNCHANGED <<bandwidthListeners, oneway, late, overtaken>>
    BY <1>17 DEF UiDies
  <2>2. SUFFICES ASSUME Clean', NEW c \in Uis, WillListen(c)' PROVE Stopping(c)'
    BY <2>1 DEF Registered
  <2>3. Clean /\ ~incall
    BY Zenon, <2>1, <2>2
  <2>4. IF ui \in callbacks THEN posts' = Append(posts, <<"stop", ui>>) ELSE posts' = posts
    <3> DEFINE P == {"start", "stop"} \X Uis
    <3>1. posts \in Seq(P) /\ <<"stop", ui>> \in P
      BY <1>0 DEF TypeOK
    <3> HIDE DEF P
    <3>2. /\ posts \o <<>> \o <<<<"stop", ui>>>> = Append(posts, <<"stop", ui>>)
          /\ posts \o <<<<"stop", ui>>>> \o <<>> = Append(posts, <<"stop", ui>>)
          /\ posts \o <<>> \o <<>> = posts
      BY <3>1
    <3> QED
      BY Zenon, <1>17, <2>3, <3>2 DEF UiDies
  <2>5. Leads(posts', bandwidthListeners, c)
    BY <2>1, <2>2 DEF WillListen
  <2>6. CASE c = ui
    <3>1. ui \notin callbacks
      <4>1. ~Leads(Append(posts, <<"stop", ui>>), bandwidthListeners, ui)
        BY LeadsAppend
      <4> QED
        BY Zenon, <2>4, <2>5, <2>6, <4>1
    <3>2. ~Registered
      BY <2>3, <3>1 DEF CallbackRight
    <3>3. WillListen(c)
      BY <2>4, <2>5, <3>1 DEF WillListen
    <3> QED
      BY <1>1, <2>1, <2>3, <3>2, <3>3
  <2>7. CASE c # ui
    <3>1. <<"stop", ui>> # <<"start", c>> /\ <<"stop", ui>> # <<"stop", c>>
      BY <2>7
    <3>2. WillListen(c)
      BY ZenonT(30), <2>4, <2>5, <3>1, LeadsAppend DEF WillListen
    <3> QED
      BY <1>1, <2>1, <2>3, <2>7, <3>2
  <2> QED
    BY <2>6, <2>7
<1>18. CASE UNCHANGED vars
  BY <1>3, <1>18 DEF vars, ListenRight
<1> QED
  BY Zenon, <1>5, <1>6, <1>7, <1>8, <1>9, <1>10, <1>11, <1>12, <1>13, <1>14, <1>15, <1>16, <1>17,
     <1>18 DEF Next

-----------------------------------------------------------------------------
\* The invariant holds in every state.
LEMMA Invariance == Spec => []IInv
<1>1. IInv /\ [Next]_vars => IInv'
  BY StepType, StepLoop, StepAlive, StepEvents, StepNumbers, StepConnected, StepCallback,
     StepNotification, StepListen DEF IInv
<1> QED
  BY <1>1, InitIInv, PTL DEF Spec

\* `check(looper == null)', `looper!!' and `check(!callbackRegistered)' never
\* fail, however calls, bindings and the deaths of both processes interleave.
THEOREM ChecksHold == Spec => []AssertionsHold
<1>1. IInv => AssertionsHold
  BY EventFacts DEF IInv, LoopRight, EventsRight, AssertionsHold
<1> QED
  BY <1>1, Invariance, PTL

\* When everything on its way has arrived, a connection that is active with a
\* service that runs is registered with it and listens if it wants to, for any
\* number of bindings and deaths before.
THEOREM ActiveConnectionIsRegistered == Spec => []ActiveIsRegistered
<1>1. ASSUME IInv, Quiet, connectionActive, alive, ~late, ~overtaken
      PROVE  service = bg /\ ui \in callbacks /\ (bandwidth => ui \in bandwidthListeners)
  <2>1. Registered
    BY <1>1 DEF IInv, Quiet, ConnectedRight, Registered
  <2>2. ui \in callbacks
    BY <1>1, <2>1 DEF IInv, CallbackRight
  <2>3. bandwidth => WillListen(ui)
    BY <1>1, <2>1 DEF IInv, ListenRight
  <2>4. WillListen(ui) => ui \in bandwidthListeners
    BY <1>1 DEF Quiet, WillListen, Leads
  <2> QED
    BY <2>1, <2>2, <2>3, <2>4 DEF Registered, Reachable
<1>2. IInv => ActiveIsRegistered
  BY <1>1 DEF ActiveIsRegistered
<1> QED
  BY <1>2, Invariance, PTL

\* When everything on its way has arrived, the service lists no client that is
\* disconnected or dead, and no notification without a session.
THEOREM NothingIsLeftOver == Spec => []NoLeftovers
<1>1. ASSUME IInv, Quiet, ~late, ~overtaken, ~orphaned
      PROVE  /\ (callbacks \cup bandwidthListeners) \cap Uis
                  \subseteq (IF connectionActive THEN {ui} ELSE {})
             /\ Notification \in callbacks \cup bandwidthListeners => session # "Stopped"
  <2>1. ~Has(oneway, <<"stop", ui>>) /\ \A x : ~Has(oneway, x)
    BY <1>1 DEF Quiet, Has
  <2>2. Registered => connectionActive
    BY <1>1 DEF IInv, EventsRight, Registered
  <2>3. \A c \in callbacks \cap Uis : c = ui /\ Registered
    BY <1>1, <2>1 DEF IInv, CallbackRight
  <2>4. \A c \in bandwidthListeners : WillListen(c)
    BY <1>1 DEF Quiet, WillListen, Leads
  <2>5. \A c \in bandwidthListeners \cap Uis : c = ui /\ Registered
    BY Zenon, <1>1, <2>1, <2>4 DEF IInv, ListenRight
  <2>6. Notification \in callbacks \cup bandwidthListeners => session # "Stopped"
    BY <1>1 DEF IInv, NotificationRight
  <2> QED
    BY <2>2, <2>3, <2>5, <2>6
<1>2. IInv => NoLeftovers
  BY <1>1 DEF NoLeftovers
<1> QED
  BY <1>2, Invariance, PTL

=============================================================================

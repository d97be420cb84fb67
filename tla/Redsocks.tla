------------------------------- MODULE Redsocks -------------------------------
(***************************************************************************)
(* redsocks as the transparent proxy service runs it: one listener, a      *)
(* SOCKS5 proxy, splice.  Connections are accepted while there are fewer   *)
(* than redsocks_conn_max; at the limit idle ones are dropped or the       *)
(* listener backs off.  A step is a callback of the event loop, a wait of  *)
(* the loop, or something the kernel does.                                 *)
(***************************************************************************)
EXTENDS RedsocksClient, FiniteSetsExt

CONSTANTS
  Talkers,    \* bound: the connections whose client or proxy does anything but
              \* being connected
  MaxSent, MaxReplied   \* bounds: units that are sent each way

ASSUME RedsocksAssumption ==
  /\ {redsocks_conn_max, PipeSize, MaxSent, MaxReplied} \subseteq Nat \ {0}
  /\ Talkers \subseteq Clients /\ NoClient \notin Clients

MaxData(s) == IF s = "client" THEN MaxSent ELSE MaxReplied

VARIABLES
  pending, polled, active,   \* the event loop
  conn,           \* redsocks_conn
  client,         \* the connections
  run,            \* "loop"; "stopped"; "undefined": memory that is free is used
  failed          \* history: assertions that did not hold

vars == <<pending, polled, active, conn, client, run, failed>>

World ==
  [pending |-> pending, polled |-> polled, active |-> active, conn |-> conn,
   client |-> client, run |-> run, failed |-> failed]

Becomes(next) ==
  \E w \in {next} :
    /\ pending' = w.pending /\ polled' = w.polled /\ active' = w.active
    /\ conn' = w.conn /\ client' = w.client /\ run' = w.run /\ failed' = w.failed

Init ==
  /\ pending = {listener} /\ polled = {} /\ active = <<>>
  /\ conn = 0 /\ client = [c \in Clients |-> FreeClient]
  /\ run = "loop" /\ failed = {}

-----------------------------------------------------------------------------
(***************************************************************************)
(* Accepting.                                                              *)
(***************************************************************************)

\* The connections in drop are dropped: those idle for too long, and those
\* whose last event is not in the past (the clock is the wall clock).
drop_idle_connections(w, drop) ==
  FoldSet(LAMBDA c, v : redsocks_drop_client(v, c), w, drop)

conn_pressure(w, drop) ==
  LET a == drop_idle_connections(w, drop)
  IN  IF drop # {} THEN a
      ELSE event_del(event_add_timeout(a, accept_backoff_ev), {listener})

redsocks_conn_list_add(w, c, drop) ==
  LET a == [Check(w, w.conn < redsocks_conn_max, "list_add")
              EXCEPT !.conn = @ + 1, !.client[c].listed = TRUE]
  IN  IF a.conn >= redsocks_conn_max THEN conn_pressure(a, drop) ELSE a

redsocks_connect_relay(w, c, ok) ==
  LET a == [w EXCEPT !.client[c].bev["relay"] = "fd",
                     !.client[c].fd["relay"] = "open"]
  IN  IF ok THEN event_add(a, Ev(c, "relay", "W")) ELSE redsocks_drop_client(w, c)

NewClient ==
  [FreeClient EXCEPT !.state = "new", !.bev["client"] = "fd",
                     !.fd["client"] = "open"]

\* The accepted client may be one of those that are dropped; the callback
\* goes on with it all the same.  When the memory is as it was, the relay is
\* connected for a client that is gone; else, or when there is no relay and
\* the client is freed again, what follows is undefined.
AcceptNew(w, c, drop, ok) ==
  LET a == redsocks_conn_list_add([w EXCEPT !.client[c] = NewClient], c, drop)
      freed == [a EXCEPT !.client[c].state = "freed"]
  IN  IF a.client[c].state = "new"
      THEN redsocks_connect_relay(event_add(a, Ev(c, "client", "R")), c, ok)
      ELSE IF ok THEN event_add(freed, Ev(c, "relay", "W"))
      ELSE [a EXCEPT !.run = "undefined"]

\* The idle connections the list holds, any of them.
Droppable(w, c) == SUBSET (Live(w) \cup {c})

\* The event leaves the queue and its callback is called.
Calls(e, persistent) == event_process_active(World, e, persistent)

\* There is no descriptor left, or no connection any more, or it cannot be
\* set up, or it becomes a client.
redsocks_accept_client ==
  /\ run = "loop" /\ Runs(World, listener)
  /\ LET w == Check(Calls(listener, TRUE), conn < redsocks_conn_max, "accept")
     IN  \/ \E drop \in SUBSET Live(w) : Becomes(conn_pressure(w, drop))
         \/ Becomes(w)
         \/ Becomes(conn_pressure_lowered(w))
         \/ \E c \in {d \in Clients : client[d].state = "free"}, ok \in BOOLEAN :
              \E drop \in Droppable(w, c) :
                /\ conn + 1 < redsocks_conn_max => drop = {}
                /\ Becomes(AcceptNew(w, c, drop, ok))

\* The pressure is still on (the limit, or no descriptor is left) or it is not.
redsocks_accept_backoff ==
  /\ run = "loop" /\ Runs(World, accept_backoff_ev)
  /\ LET w == Calls(accept_backoff_ev, FALSE)
     IN  \/ \E drop \in SUBSET Live(w) : Becomes(conn_pressure(w, drop))
         \/ conn < redsocks_conn_max /\ Becomes(accept_enable(w))

-----------------------------------------------------------------------------
(***************************************************************************)
(* The callbacks of a connection.                                          *)
(***************************************************************************)

ReadEarly(c, s) ==
  /\ run = "loop" /\ Runs(World, Ev(c, s, "R"))
  /\ client[c].state # "pump_active"
  /\ LET w == Calls(Ev(c, s, "R"), TRUE)
     IN  IF s = "client" THEN Becomes(ClientReadEarly(w, c))
         ELSE \E reply \in Replies, pipes \in 0 .. 2 :
                /\ client[c].state # "skip_address" => pipes = 2
                /\ client[c].state = "skip_address" => reply = "address"
                /\ Becomes(RelayReadEarly(w, c, reply, pipes))

WriteEarly(c) ==
  /\ run = "loop" /\ Runs(World, Ev(c, "relay", "W"))
  /\ client[c].state # "pump_active"
  /\ LET w == Calls(Ev(c, "relay", "W"), TRUE)
     IN  Becomes(IF client[c].state = "new" THEN redsocks_relay_connected(w, c)
                 ELSE IF client[c].state = "freed"
                 THEN [w EXCEPT !.run = "undefined"]
                 ELSE bufferevent_writecb(w, c))

\* redsplice_client_read and redsplice_relay_read.
PumpRead(c, s) ==
  /\ run = "loop" /\ Runs(World, Ev(c, s, "R"))
  /\ client[c].state = "pump_active"
  /\ Becomes(redsplice_read_cb(Calls(Ev(c, s, "R"), TRUE), c, s))

\* redsplice_client_write and redsplice_relay_write.  A socket that epoll
\* says is writable takes something.
PumpWrite(c, s) ==
  /\ run = "loop" /\ Runs(World, Ev(c, s, "W"))
  /\ client[c].state = "pump_active"
  /\ \E n \in 0 .. Len(ToWrite(client[c], s)) :
       /\ n = 0 => Ev(c, s, "W") \notin polled \/ ToWrite(client[c], s) = <<>>
       /\ Becomes(redsplice_write_cb(Calls(Ev(c, s, "W"), TRUE), c, s, n))

-----------------------------------------------------------------------------
(***************************************************************************)
(* The loop, the kernel and the end.                                       *)
(***************************************************************************)

Readable(k, s) == k.arrived[s] > 0 \/ k.peer[s] # "open"

Ready ==
  {e \in pending :
     e[1] \in Clients /\ e[3] = "R" => Readable(client[e[1]], e[2])}

\* The wait ends with some of the events that are ready.
Wait ==
  /\ run = "loop" /\ Idle(World)
  /\ \E es \in SUBSET Ready \ {{}} : Becomes(event_base_loop(World, es))

\* The proxy sends nothing before it is connected.
MaySend(c, s) ==
  /\ c \in Talkers /\ c \in Live(World)
  /\ s = "relay" => client[c].state # "new"

Arrive(c, s) ==
  /\ run = "loop" /\ Idle(World) /\ MaySend(c, s) /\ client[c].peer[s] = "open"
  /\ client[c].read[s] + client[c].arrived[s] < MaxData(s)
  /\ Becomes([World EXCEPT !.client[c].arrived[s] = @ + 1])

Finish(c, s) ==
  /\ run = "loop" /\ Idle(World) /\ MaySend(c, s) /\ client[c].peer[s] = "open"
  /\ Becomes([World EXCEPT !.client[c].peer[s] = "fin"])

\* A reset, or a connection that is refused.
Reset(c, s) ==
  /\ run = "loop" /\ Idle(World) /\ client[c].fd[s] = "open"
  /\ client[c].peer[s] # "reset" /\ c \in Talkers
  /\ Becomes([World EXCEPT !.client[c].peer[s] = "reset",
                           !.client[c].arrived[s] = 0])

\* The signal ends the loop after the callback that runs.
redsocks_fini ==
  /\ run = "loop"
  /\ LET a == drop_idle_connections(World, Live(World))
         b == conn_pressure_lowered(event_del(a, {listener}))
     IN  Becomes([Check(b, b.conn = 0, "fini") EXCEPT !.run = "stopped"])

Next ==
  \/ redsocks_accept_client \/ redsocks_accept_backoff
  \/ Wait \/ redsocks_fini
  \/ \E c \in Clients :
       \/ WriteEarly(c)
       \/ \E s \in Side : \/ ReadEarly(c, s) \/ PumpRead(c, s) \/ PumpWrite(c, s)
                          \/ Arrive(c, s) \/ Finish(c, s) \/ Reset(c, s)

Spec == Init /\ [][Next]_vars

-----------------------------------------------------------------------------
(***************************************************************************)
(* Properties.                                                             *)
(***************************************************************************)

States == {"free", "freed", "new", "method_sent", "auth_sent", "request_sent",
           "skip_domain", "skip_address", "pump_active"}

\* The events are those of the listener, the timer and the connections, no
\* buffer holds more than was sent, and no pipe more than it can.
TypeOK ==
  /\ pending \cup polled \subseteq
       {listener, accept_backoff_ev} \cup UNION {EvOf(c) : c \in Clients}
  /\ active \in Seq(UNION {EvOf(c) : c \in Clients})
  /\ conn \in 0 .. redsocks_conn_max
  /\ run \in {"loop", "stopped", "undefined"}
  /\ \A c \in Clients :
       LET k == client[c]
       IN  /\ k.state \in States
           /\ \A s \in Side :
                /\ k.evshut[s] \subseteq {"R", "W"}
                /\ k.bev[s] \in {"null", "fd", "nofd"}
                /\ Len(k.pipe[s]) <= PipeSize /\ k.read[s] <= MaxData(s)

\* The assertions of redsocks.c hold (fewer than redsocks_conn_max
\* connections on accept, none after fini), every descriptor is closed once
\* and by its owner, none stays open when a client is freed, and nothing is
\* spliced into a pipe that is closed or full (TypeOK).
AssertionsHold == TypeOK /\ failed = {}

\* No callback runs for a client that was freed, also when another client's
\* callback dropped it in the same round of the loop, with one exception: a
\* client that is dropped while it is accepted, because its first event is
\* not in the past.  Its relay is connected all the same, and the callback
\* that tells so is given memory that is free.  Nothing else is undefined:
\* such a client has no other event, and it is not in the list.
NothingStale ==
  \A c \in Clients \ Live(World) :
    /\ ~client[c].listed
    /\ EvOf(c) \cap (pending \cup polled \cup Range(active)) \subseteq
         IF client[c].state = "freed" THEN {Ev(c, "relay", "W")} ELSE {}

\* The listener is never open at the limit, and not while it backs off:
\* redsocks_conn is the number of clients in the list, whatever dropped them.
ListensBelowLimit ==
  /\ conn = Cardinality({c \in Clients : client[c].listed})
  /\ run = "loop" /\ listener \in pending =>
       conn < redsocks_conn_max /\ ~event_pending(World, accept_backoff_ev)

\* The proxy gets its handshake and then what the client sent, also the part
\* that was sent before the pump was there; the client gets what the proxy
\* sent after the handshake: all in order, nothing twice, nothing left out.
InOrder ==
  LET Data(s) == [i \in 1 .. MaxData(s) |-> i]
      Begins(q, r) == Len(q) <= Len(r) /\ q = SubSeq(r, 1, Len(q))
      hello == IF do_password THEN {<<Methods, Password, Connect>>,
                                    <<Methods, Connect>>}
               ELSE {<<Methods, Connect>>}
  IN  \A c \in Clients :
        /\ Begins(client[c].got["client"], Data("relay"))
        /\ \E h \in hello : Begins(client[c].got["relay"], h \o Data("client"))

\* A side is told of the end of the data only when the other side has ended
\* it and everything that was read from there has been written.
EofAfterData ==
  \A c \in Clients, s \in Side :
    LET k == client[c]
    IN  "W" \in k.evshut[s] =>
          /\ "R" \in k.evshut[Other(s)] /\ ToWrite(k, s) = <<>>
          /\ k.read[Other(s)] =
               Cardinality({i \in 1 .. Len(k.got[s]) : k.got[s][i] > 0})

\* A connection that pumps never waits for nothing: data and the end of data
\* that have to be written have their write event, and a side that may be
\* read has its read event.
PumpGoesOn ==
  \A c \in Clients, s \in Side :
    LET k == client[c]
        writes == event_pending(World, Ev(c, s, "W"))
        reads == event_pending(World, Ev(c, Other(s), "R"))
    IN  run = "loop" /\ k.state = "pump_active" =>
          /\ ToWrite(k, s) # <<>> => writes
          /\ "R" \in k.evshut[Other(s)] /\ "W" \notin k.evshut[s] => writes
          /\ "R" \notin k.evshut[Other(s)] => reads \/ writes

\* redsocks.c says of the call of conn_pressure when the backoff ends that it
\* is to "rearm timeout": a listener that is off has its timer.
BackoffRearmed ==
  run = "loop" => listener \in pending \/ event_pending(World, accept_backoff_ev)

=============================================================================

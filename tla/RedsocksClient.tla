---------------------------- MODULE RedsocksClient ----------------------------
(***************************************************************************)
(* A connection of redsocks from the accept to the last close: the SOCKS5  *)
(* handshake with the proxy on libevent's bufferevents, then the pump that *)
(* splices the two sockets through two pipes, with what every close does   *)
(* for a listener that backs off.                                          *)
(*                                                                         *)
(* A side is "client", who was redirected, or "relay", the proxy.  Data is *)
(* counted in units; a unit of a side carries its number, a message of the *)
(* handshake a negative one, so that orders can be compared.  The kernel   *)
(* is the part of the record that says what has arrived and what the peer  *)
(* did: nothing, a FIN, a reset.                                           *)
(***************************************************************************)
EXTENDS EventBase, FiniteSets

CONSTANTS
  Clients,            \* places for connections
  NoClient,
  redsocks_conn_max,
  do_password,        \* login and password are configured
  PipeSize            \* units a pipe takes

ASSUME PasswordAssumption == do_password \in BOOLEAN

Side == {"client", "relay"}
Other(s) == IF s = "client" THEN "relay" ELSE "client"

\* The pipe that carries what is read from a side.
PipeOf(s) == IF s = "client" THEN "request" ELSE "reply"

\* The events of a connection: those of its bufferevents in the handshake,
\* those of the pump later.
Ev(c, s, how) == <<c, s, how>>
EvOf(c) == {c} \X Side \X {"R", "W"}
listener == Ev(NoClient, "client", "R")
accept_backoff_ev == Ev(NoClient, "relay", "T")

\* Messages to the proxy.
Methods == -3
Password == -2
Connect == -1

\* bev: the bufferevent is there ("fd"), without its socket, or gone.
\* pipe[s] holds what was read from s (request, reply), read[s] says how many
\* units that were, got[s] is what was written to s.
FreeClient ==
  [state |-> "free", listed |-> FALSE, events |-> FALSE,
   bev |-> [s \in Side |-> "null"], evshut |-> [s \in Side |-> {}],
   input |-> [s \in Side |-> <<>>], output |-> [s \in Side |-> <<>>],
   pipe |-> [s \in Side |-> <<>>],
   fd |-> [f \in Side \cup {"request", "reply"} |-> "none"],
   arrived |-> [s \in Side |-> 0], peer |-> [s \in Side |-> "open"],
   read |-> [s \in Side |-> 0], got |-> [s \in Side |-> <<>>]]

\* "freed": the memory is free, but a bufferevent points to it.
Live(w) == {c \in Clients : w.client[c].state \notin {"free", "freed"}}

-----------------------------------------------------------------------------
(***************************************************************************)
(* Connection pressure.                                                    *)
(***************************************************************************)

accept_enable(w) == event_add(w, listener)

\* Mutant: room for one more is not looked for.
LoweredAnyway(w) ==
  IF ~event_pending(w, accept_backoff_ev) THEN w
  ELSE accept_enable(event_del(w, {accept_backoff_ev}))

conn_pressure_lowered(w) ==
  IF w.conn >= redsocks_conn_max \/ ~event_pending(w, accept_backoff_ev) THEN w
  ELSE accept_enable(event_del(w, {accept_backoff_ev}))

\* Every close may have made room.
redsocks_close(w, c, f) ==
  conn_pressure_lowered(
    Check([w EXCEPT !.client[c].fd[f] = "closed"],
          w.client[c].fd[f] = "open", "close"))

CloseIf(w, c, f, owned) == IF owned THEN redsocks_close(w, c, f) ELSE w

redsocks_conn_list_del(w, c) ==
  conn_pressure_lowered(
    IF w.client[c].listed
    THEN [w EXCEPT !.conn = @ - 1, !.client[c].listed = FALSE] ELSE w)

\* Mutant: the sockets belong to the bufferevents for ever.
DropByBufferevent(w, c) ==
  LET k == w.client[c]
      a == CloseIf(w, c, "client", k.bev["client"] # "null")
      b == CloseIf(a, c, "relay", k.bev["relay"] # "null")
      d == CloseIf(b, c, "request", k.fd["request"] = "open")
      e == CloseIf(d, c, "reply", k.fd["reply"] = "open")
      f == redsocks_conn_list_del(event_del(e, EvOf(c)), c)
      g == Check(f, "open" \notin {f.client[c].fd[x] : x \in DOMAIN k.fd},
                 "leak")
  IN  [g EXCEPT !.client[c] = FreeClient]

\* The socket of a side is closed with its bufferevent, or with the events of
\* the pump once they have it.  Nothing of the connection may stay open.
redsocks_drop_client(w, c) ==
  LET k == w.client[c]
      a == CloseIf(w, c, "client", k.bev["client"] = "fd")
      b == CloseIf(a, c, "relay", k.bev["relay"] = "fd")
      d == CloseIf(b, c, "request", k.fd["request"] = "open")
      e == CloseIf(d, c, "reply", k.fd["reply"] = "open")
      f == CloseIf(e, c, "client", k.events)
      g == CloseIf(f, c, "relay", k.events)
      h == redsocks_conn_list_del(event_del(g, EvOf(c)), c)
      i == Check(h, "open" \notin {h.client[c].fd[x] : x \in DOMAIN k.fd},
                 "leak")
  IN  [i EXCEPT !.client[c] = FreeClient]

shut_both(k) == \A s \in Side : k.evshut[s] = {"R", "W"}

-----------------------------------------------------------------------------
(***************************************************************************)
(* The handshake.                                                          *)
(***************************************************************************)

redsocks_shutdown(w, c, s, how) ==
  LET a == [event_del(w, {Ev(c, s, how)})
              EXCEPT !.client[c].evshut[s] = @ \cup {how}]
  IN  IF shut_both(a.client[c]) THEN redsocks_drop_client(a, c) ELSE a

\* An EOF before the pump is active closes nothing else.
redsocks_event_error(w, c, s, eof) ==
  IF eof THEN redsocks_shutdown(w, c, s, "R") ELSE redsocks_drop_client(w, c)

redsocks_write_helper(w, c, message, state) ==
  LET a == [w EXCEPT !.client[c].output["relay"] = @ \o message,
                     !.client[c].state = state]
      b == IF message = <<>> THEN a ELSE event_add(a, Ev(c, "relay", "W"))
  IN  event_add(b, Ev(c, "relay", "R"))

\* The first write event of the relay: it is connected, or it is not.
redsocks_relay_connected(w, c) ==
  IF w.client[c].peer["relay"] = "reset" THEN redsocks_drop_client(w, c)
  ELSE redsocks_write_helper(event_del(w, {Ev(c, "relay", "W")}), c,
                             <<Methods>>, "method_sent")

\* The bufferevent of the relay writes what it holds.
bufferevent_writecb(w, c) ==
  LET k == w.client[c]
  IN  IF k.peer["relay"] = "reset" THEN redsocks_event_error(w, c, "relay", FALSE)
      ELSE [event_del(w, {Ev(c, "relay", "W")})
              EXCEPT !.client[c].got["relay"] = @ \o k.output["relay"],
                     !.client[c].output["relay"] = <<>>]

Numbers(k, s, n) == [i \in 1 .. n |-> k.read[s] + i]

Failed(k, s) == k.peer[s] = "reset"
Eof(k, s) == k.peer[s] = "fin" /\ k.arrived[s] = 0

\* Nobody reads what the client sends early: it stays in the bufferevent.
ClientReadEarly(w, c) ==
  LET k == w.client[c]
      n == k.arrived["client"]
  IN  IF Failed(k, "client") \/ Eof(k, "client")
      THEN redsocks_event_error(w, c, "client", Eof(k, "client"))
      ELSE [w EXCEPT !.client[c].input["client"] =
                       @ \o Numbers(k, "client", n),
                     !.client[c].read["client"] = @ + n,
                     !.client[c].arrived["client"] = 0]

\* What the proxy may answer; what does not fit the state is refused.
Replies == {"none", "password", "passed", "address", "domain", "refused"}

\* Mutant: nothing writes what the buffers hold already.
StartWithoutFlush(w, c, pipes) ==
  LET a == [event_del(w, EvOf(c))
              EXCEPT !.client[c].state = "pump_active",
                     !.client[c].fd["request"] = "open",
                     !.client[c].fd["reply"] = "open",
                     !.client[c].bev = [s \in Side |-> "nofd"],
                     !.client[c].events = TRUE]
  IN  event_add(event_add(a, Ev(c, "client", "R")), Ev(c, "relay", "R"))

\* pipes: how many of the two pipes could be made.  The sockets change hands.
redsocks_start_splicepump(w, c, pipes) ==
  LET a == event_del([w EXCEPT !.client[c].state = "pump_active"], EvOf(c))
      b == IF pipes = 0 THEN a
           ELSE [a EXCEPT !.client[c].fd["request"] = "open"]
      d == [b EXCEPT !.client[c].fd["reply"] = "open",
                     !.client[c].bev = [s \in Side |-> "nofd"],
                     !.client[c].events = TRUE]
      e == event_active(event_active(d, Ev(c, "client", "W")),
                        Ev(c, "relay", "W"))
  IN  IF pipes < 2 THEN redsocks_drop_client(b, c)
      ELSE event_add(event_add(e, Ev(c, "client", "R")), Ev(c, "relay", "R"))

\* A message of the proxy, one at a time: the watermarks of the bufferevent
\* leave the rest in the socket.
socks5_read_cb(w, c, reply, pipes) ==
  LET a == [w EXCEPT !.client[c].arrived["relay"] = @ - 1]
      Sends(message, state) == redsocks_write_helper(a, c, message, state)
      at == w.client[c].state
  IN  IF at = "skip_address" THEN redsocks_start_splicepump(a, c, pipes)
      ELSE IF at = "skip_domain" THEN Sends(<<>>, "skip_address")
      ELSE IF \/ at = "method_sent" /\ reply = "none"
              \/ at = "auth_sent" /\ reply = "passed"
      THEN Sends(<<Connect>>, "request_sent")
      ELSE IF at = "method_sent" /\ reply = "password" /\ do_password
      THEN Sends(<<Password>>, "auth_sent")
      ELSE IF at = "request_sent" /\ reply = "address"
      THEN Sends(<<>>, "skip_address")
      ELSE IF at = "request_sent" /\ reply = "domain"
      THEN Sends(<<>>, "skip_domain")
      ELSE redsocks_drop_client(a, c)

RelayReadEarly(w, c, reply, pipes) ==
  LET k == w.client[c]
  IN  IF Failed(k, "relay") \/ Eof(k, "relay")
      THEN redsocks_event_error(w, c, "relay", Eof(k, "relay"))
      ELSE socks5_read_cb(w, c, reply, pipes)

-----------------------------------------------------------------------------
(***************************************************************************)
(* The pump.                                                               *)
(***************************************************************************)

\* A bufferevent is freed once both of its buffers are empty.
redsocks_touch_pump(w, c) ==
  [w EXCEPT !.client[c].bev =
     [s \in Side |->
        IF w.client[c].input[s] \o w.client[c].output[s] = <<>> THEN "null"
        ELSE @[s]]]

Front(q, n) == IF n >= Len(q) THEN q ELSE SubSeq(q, 1, n)
Rest(q, n) == IF n >= Len(q) THEN <<>> ELSE SubSeq(q, n + 1, Len(q))

\* Mutant: what the client sent before the pump was active is left out.
WithoutEarly(k, out) == k.output[out] \o k.pipe[Other(out)]

\* What is to be written to side `out', the oldest first.
ToWrite(k, out) == k.output[out] \o k.input[Other(out)] \o k.pipe[Other(out)]

\* n units of it leave the buffers.
Written(w, c, out, n) ==
  LET k == w.client[c]
      src == Other(out)
      inputs == n - Len(k.output[out])
      pipes == inputs - Len(k.input[src])
      Cut(q, m) == IF m <= 0 THEN q ELSE Rest(q, m)
  IN  [w EXCEPT !.client[c].got[out] = @ \o Front(ToWrite(k, out), n),
                !.client[c].output[out] = Cut(@, n),
                !.client[c].input[src] = Cut(@, inputs),
                !.client[c].pipe[src] = Cut(@, pipes)]

\* Mutant: the EOF goes out when the pipe is empty.
EofOverBuffers(k, out) ==
  /\ k.pipe[Other(out)] = <<>>
  /\ "R" \in k.evshut[Other(out)] /\ "W" \notin k.evshut[out]

\* The other side has ended its data and all of it has been written.
EofIsDue(k, out) ==
  /\ ToWrite(k, out) = <<>>
  /\ "R" \in k.evshut[Other(out)] /\ "W" \notin k.evshut[out]

\* A short write stops the reading and waits for the socket; a full one
\* takes it up again.
Backpressure(w, c, out, all) ==
  IF all THEN event_del(event_add(w, Ev(c, Other(out), "R")), {Ev(c, out, "W")})
  ELSE event_add(event_del(w, {Ev(c, Other(out), "R")}), Ev(c, out, "W"))

\* n units can be written now.
redsplice_write_cb(w, c, out, n) ==
  LET k == w.client[c]
      src == Other(out)
      all == n >= Len(ToWrite(k, out))
      a == Written(redsocks_touch_pump(w, c), c, out, n)
      b == redsocks_close([a EXCEPT !.client[c].evshut[out] = @ \cup {"W"}],
                          c, PipeOf(src))
  IN  IF ToWrite(k, out) # <<>> /\ k.peer[out] = "reset"
      THEN redsocks_drop_client(a, c)
      ELSE IF EofIsDue(a.client[c], out)
      THEN IF shut_both(b.client[c]) THEN redsocks_drop_client(b, c)
           ELSE event_del(b, {Ev(c, src, "R"), Ev(c, out, "W")})
      ELSE Backpressure(a, c, out, all)

\* What fits into the pipe.
Spliced(k, in) ==
  IF k.arrived[in] > PipeSize - Len(k.pipe[in])
  THEN PipeSize - Len(k.pipe[in]) ELSE k.arrived[in]

\* A full pipe comes first: splice does not look at the socket then.
redsplice_read_cb(w, c, in) ==
  LET k == w.client[c]
      n == Spliced(k, in)
      a == Check(redsocks_touch_pump(w, c),
                 k.fd[PipeOf(in)] = "open", "splice")
      b == [a EXCEPT !.client[c].pipe[in] = @ \o Numbers(k, in, n),
                     !.client[c].read[in] = @ + n,
                     !.client[c].arrived[in] = @ - n]
      eof == event_del([a EXCEPT !.client[c].evshut[in] = @ \cup {"R"}],
                       {Ev(c, in, "R")})
  IN  IF Len(k.pipe[in]) = PipeSize THEN event_del(a, {Ev(c, in, "R")})
      ELSE IF Failed(k, in) THEN redsocks_drop_client(a, c)
      ELSE event_active(IF Eof(k, in) THEN eof ELSE b, Ev(c, Other(in), "W"))

=============================================================================

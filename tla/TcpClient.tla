------------------------------ MODULE TcpClient ------------------------------
(***************************************************************************)
(* A TCP connection through tun2socks: lwIP ends it on the side of the     *)
(* tunnel (LwipPcb), a SOCKS server is asked to continue it (BSocksClient),*)
(* and struct tcp_client carries the data between the two and decides when *)
(* each side is closed and when the client is freed.                       *)
(*                                                                         *)
(* Everything runs on one thread, but not one call after the other: a      *)
(* callback of lwIP sets jobs and runs them before it returns (the macros  *)
(* SYNC_FROMHERE and SYNC_COMMIT put a mark on the stack of jobs and run   *)
(* what is above it), the jobs may end the connection the callback is for, *)
(* and lwIP goes on with the connection afterwards unless the callback     *)
(* returns ERR_ABRT.  A step of the model is one callback, one job or one  *)
(* event of the reactor.                                                   *)
(***************************************************************************)
EXTENDS LwipPcb, BSocksClient

CONSTANTS
  MaxUp,      \* bound: bytes the peer in the tunnel sends
  MaxDown     \* bound: bytes the SOCKS server sends

ASSUME BoundsAssumption == {MaxUp, MaxDown} \subseteq Nat

VARIABLES
  client,     \* struct tcp_client
  pcb,        \* the connection in lwIP
  socks,      \* client->socks_client
  jobs,       \* the pending jobs of the reactor, the next one first
  input,      \* where tcp_input is, and what it has still to hand out
  dead,       \* badvpn__dead of the callback that is running
  failed,     \* history: assertions that did not hold
  flow        \* history: bytes, and why the sides ended

vars == <<client, pcb, socks, jobs, input, dead, failed, flow>>

\* The state as the record that the operators work on.
World ==
  [client |-> client, pcb |-> pcb, socks |-> socks, jobs |-> jobs,
   dead |-> dead, failed |-> failed, flow |-> flow, event |-> "none",
   running |-> input.stage # "idle"]

Becomes(next) ==
  \E w \in {next} :
    /\ client' = w.client /\ pcb' = w.pcb /\ socks' = w.socks
    /\ jobs' = w.jobs /\ dead' = w.dead /\ failed' = w.failed
    /\ flow' = w.flow

NoInput == [stage |-> "idle", acked |-> 0, data |-> 0, fin |-> FALSE]

\* rbuf_used, rbuf_sent, waiting and pending are the fields socks_recv_*.
NewClient ==
  [alive |-> TRUE, aborted |-> FALSE, client_closed |-> FALSE,
   socks_closed |-> FALSE, socks_up |-> FALSE, buf_used |-> 0,
   rbuf_used |-> -1, rbuf_sent |-> 0, waiting |-> FALSE, pending |-> 0]

\* received, wrote: from the peer, to the SOCKS server; read, acked: from
\* the server, by the peer.  ends: what ended the connection.
NoFlow == [received |-> 0, wrote |-> 0, read |-> 0, acked |-> 0, ends |-> {}]

Ended(w, why) == [w EXCEPT !.flow.ends = @ \cup {why}]

-----------------------------------------------------------------------------
(***************************************************************************)
(* Closing and freeing.                                                    *)
(***************************************************************************)

\* DEAD_KILL_WITH: a callback that is running learns of it.
Kill(w, value) == IF w.running THEN [w EXCEPT !.dead = value] ELSE w

\* Mutant: a client that is freed after it was aborted reports its freeing.
DeallocHidesAbort(w) ==
  LET a == Check(w, w.client.client_closed /\ w.client.socks_closed
                    /\ w.client.alive, "client_dealloc")
  IN  [Kill(a, -1) EXCEPT !.client.alive = FALSE]

client_dealloc(w) ==
  LET a == Check(w, w.client.client_closed /\ w.client.socks_closed
                    /\ w.client.alive, "client_dealloc")
      b == IF w.client.aborted THEN a ELSE Kill(a, -1)
  IN  [b EXCEPT !.client.alive = FALSE]

client_abort_pcb(w) ==
  LET a == Check(w, ~w.client.aborted /\ w.pcb.state # "FREE",
                 "client_abort_pcb")
  IN  Kill([a EXCEPT !.pcb = tcp_abort(@), !.client.aborted = TRUE], 1)

\* The first half of client_free_socks.
SocksFreed(w) ==
  LET a == Check(w, ~w.client.socks_closed, "client_free_socks")
      b == IF a.client.socks_up /\ ~a.client.client_closed
           THEN [a EXCEPT !.pcb.recv = FALSE] ELSE a
  IN  [BSocksClient_Free(b) EXCEPT !.client.socks_closed = TRUE]

\* client_free_socks is called here with the client closed: it frees it.
client_handle_freed_client(w) ==
  LET a == [Check(w, ~w.client.client_closed, "client_handle_freed_client")
              EXCEPT !.client.client_closed = TRUE]
  IN  IF a.client.buf_used > 0 /\ ~a.client.socks_closed THEN a
      ELSE IF ~a.client.socks_closed THEN client_dealloc(SocksFreed(a))
      ELSE client_dealloc(a)

client_free_client(w) ==
  LET a == Check(w, ~w.client.client_closed /\ w.pcb.state # "FREE",
                 "client_free_client")
  IN  client_handle_freed_client(
        [a EXCEPT !.pcb = tcp_close(NoCallbacks(@), w.running)])

client_abort_client(w) ==
  client_handle_freed_client(
    client_abort_pcb(
      [Check(w, ~w.client.client_closed, "client_abort_client")
         EXCEPT !.pcb = NoCallbacks(@)]))

\* Mutant: what is left for the peer is not waited for.
FreeSocksAtOnce(w) ==
  LET a == SocksFreed(w)
  IN  IF ~a.client.client_closed THEN client_free_client(a)
      ELSE client_dealloc(a)

client_free_socks(w) ==
  LET a == SocksFreed(w)
      c == a.client
  IN  IF c.socks_up /\ (c.rbuf_used >= 0 \/ c.pending > 0) /\ ~c.client_closed
      THEN a
      ELSE IF ~c.client_closed THEN client_free_client(a)
      ELSE client_dealloc(a)

client_murder(w) ==
  LET a == IF w.client.client_closed THEN w
           ELSE [client_abort_pcb([w EXCEPT !.pcb = NoCallbacks(@)])
                   EXCEPT !.client.client_closed = TRUE]
      b == IF a.client.socks_closed THEN a
           ELSE [BSocksClient_Free(a) EXCEPT !.client.socks_closed = TRUE]
  IN  client_dealloc(b)

\* Mutant: the client is only told to stop when nothing is buffered.
ErrWhileBuffering(w) ==
  IF w.client.buf_used > 0 THEN w ELSE client_handle_freed_client(w)

client_err_func(w) ==
  client_handle_freed_client(
    Check(w, ~w.client.client_closed /\ w.client.alive, "client_err_func"))

-----------------------------------------------------------------------------
(***************************************************************************)
(* From the peer to the SOCKS server.                                      *)
(***************************************************************************)

client_send_to_socks(w) ==
  Sender_Send(
    Check(w, ~w.client.socks_closed /\ w.client.socks_up
             /\ w.client.buf_used > 0, "client_send_to_socks"),
    w.client.buf_used)

\* Mutant: the window is opened only when the buffer is empty.
SendDoneConfirmsLate(w, n) ==
  LET a == [w EXCEPT !.client.buf_used = @ - n, !.flow.wrote = @ + n]
      b == IF a.client.client_closed \/ a.client.buf_used > 0 THEN a
           ELSE [a EXCEPT !.pcb = tcp_recved(@, n)]
  IN  IF b.client.buf_used > 0 THEN Sender_Send(b, b.client.buf_used)
      ELSE IF b.client.client_closed THEN client_free_socks(b)
      ELSE b

client_socks_send_handler_done(w, n) ==
  LET a == [Check(w, w.client.socks_up /\ ~w.client.socks_closed
                     /\ 0 < n /\ n <= w.client.buf_used,
                  "client_socks_send_handler_done")
              EXCEPT !.client.buf_used = @ - n, !.flow.wrote = @ + n]
      b == IF a.client.client_closed THEN a
           ELSE [Check(a, a.pcb.state # "FREE", "tcp_recved")
                   EXCEPT !.pcb = tcp_recved(@, n)]
  IN  IF b.client.buf_used > 0 THEN Sender_Send(b, b.client.buf_used)
      ELSE IF b.client.client_closed THEN client_free_socks(b)
      ELSE b

\* With n bytes of data; the peer's FIN is client_recv_fin.
client_recv_func(w, n) ==
  LET a == Check(w, ~w.client.client_closed /\ w.client.alive /\ n > 0,
                 "client_recv_func")
      b == [a EXCEPT !.client.buf_used = @ + n, !.flow.received = @ + n]
  IN  IF n > TCP_WND - w.client.buf_used
      THEN [a EXCEPT !.pcb.refused = n]
      ELSE IF b.client.buf_used = n /\ b.client.socks_up
      THEN client_send_to_socks(b)
      ELSE b

client_recv_fin(w) ==
  client_free_client(
    Ended(Check(w, ~w.client.client_closed /\ w.client.alive,
                "client_recv_func"), "fin"))

-----------------------------------------------------------------------------
(***************************************************************************)
(* From the SOCKS server to the peer.                                      *)
(***************************************************************************)

client_socks_recv_initiate(w) ==
  Receiver_Recv(
    Check(w, ~w.client.client_closed /\ ~w.client.socks_closed
             /\ w.client.socks_up /\ w.client.rbuf_used = -1,
          "client_socks_recv_initiate"),
    CLIENT_SOCKS_RECV_BUF_SIZE)

\* The bytes lwIP takes: what its send buffer has space for, if it has memory.
to_write(w, room) ==
  IF room THEN bmin_int(w.client.rbuf_used - w.client.rbuf_sent, w.pcb.snd_buf) ELSE 0

\* lwIP took n bytes of the data in the buffer.
QueueOut(w, n) ==
  [w EXCEPT !.client.rbuf_sent = @ + n, !.client.pending = @ + n,
            !.pcb.snd_buf = @ - n]

\* Something that was read waits to be given to lwIP.
CanSendOut(c) ==
  /\ ~c.client_closed /\ c.socks_up /\ ~c.waiting
  /\ c.rbuf_used > 0 /\ c.rbuf_sent < c.rbuf_used

\* room: lwIP had memory for what the send buffer has space for; sent: the
\* call of tcp_output succeeded.  The client is closed in the result if the
\* connection was aborted.
client_socks_recv_send_out(w, room, sent) ==
  LET a == Check(w, CanSendOut(w.client), "client_socks_recv_send_out")
      b == QueueOut(a, to_write(a, room))
      more == b.client.rbuf_sent < b.client.rbuf_used
  IN  IF ~Open(a.pcb) \/ ~sent \/ (more /\ b.client.pending = 0)
      THEN client_abort_client(Ended(b, "abort"))
      ELSE IF more THEN [b EXCEPT !.client.waiting = TRUE]
      ELSE [b EXCEPT !.client.rbuf_used = -1]

\* Mutant: reading goes on while data waits for space in the send buffer.
RecvDoneReadsOn(w, n, room, sent) ==
  LET a == [w EXCEPT !.client.rbuf_used = n, !.client.rbuf_sent = 0,
                     !.client.waiting = FALSE, !.flow.read = @ + n]
      b == client_socks_recv_send_out(a, room, sent)
  IN  IF w.client.client_closed THEN w
      ELSE IF ~b.client.client_closed THEN client_socks_recv_initiate(b)
      ELSE b

client_socks_recv_handler_done(w, n, room, sent) ==
  LET a == [Check(w, w.client.socks_up /\ ~w.client.socks_closed
                     /\ w.client.rbuf_used = -1
                     /\ 0 < n /\ n <= CLIENT_SOCKS_RECV_BUF_SIZE,
                  "client_socks_recv_handler_done")
              EXCEPT !.client.rbuf_used = n, !.client.rbuf_sent = 0,
                     !.client.waiting = FALSE, !.flow.read = @ + n]
      b == client_socks_recv_send_out(a, room, sent)
  IN  IF w.client.client_closed THEN w
      ELSE IF ~b.client.client_closed /\ b.client.rbuf_used = -1
      THEN client_socks_recv_initiate(b)
      ELSE b

\* Mutant: after the last data is queued nobody reads on.
SentStopsReading(w, n, room, sent) ==
  LET a == [w EXCEPT !.client.pending = @ - n, !.flow.acked = @ + n]
  IN  IF a.client.rbuf_used > 0
      THEN client_socks_recv_send_out([a EXCEPT !.client.waiting = FALSE],
                                      room, sent)
      ELSE IF a.client.socks_closed /\ a.client.pending = 0
      THEN client_free_client(a)
      ELSE a

\* Mutant: the end after the SOCKS connection is looked for only when data
\* was queued.
SentForgetsEnd(w, n, room, sent) ==
  LET a == [w EXCEPT !.client.pending = @ - n, !.flow.acked = @ + n]
      b == client_socks_recv_send_out([a EXCEPT !.client.waiting = FALSE],
                                      room, sent)
  IN  IF a.client.rbuf_used > 0
      THEN IF b.client.client_closed THEN b
           ELSE IF b.client.rbuf_used = -1 /\ ~b.client.socks_closed
           THEN client_socks_recv_initiate(b)
           ELSE b
      ELSE a

client_sent_func(w, n, room, sent) ==
  LET a == [Check(w, ~w.client.client_closed /\ w.client.alive
                     /\ w.client.socks_up /\ 0 < n /\ n <= w.client.pending
                     /\ (w.client.rbuf_used > 0 => w.client.waiting),
                  "client_sent_func")
              EXCEPT !.client.pending = @ - n, !.flow.acked = @ + n]
      b == client_socks_recv_send_out([a EXCEPT !.client.waiting = FALSE],
                                      room, sent)
      c == Check(b, b.client.pending > 0, "nothing pending")
  IN  IF a.client.rbuf_used > 0
      THEN IF b.client.client_closed THEN b
           ELSE IF c.client.rbuf_used = -1 /\ ~c.client.socks_closed
           THEN client_socks_recv_initiate(c)
           ELSE c
      ELSE IF a.client.socks_closed /\ a.client.pending = 0
      THEN client_free_client(a)
      ELSE a

\* What the SOCKS client reports, if it reports anything.
client_socks_handler(w) ==
  LET a == [Check(w, ~w.client.socks_closed /\ w.client.alive
                     /\ (w.event = "UP" => ~w.client.socks_up)
                     /\ (w.event = "ERROR_CLOSED" => w.client.socks_up),
                  "client_socks_handler") EXCEPT !.event = "none"]
      b == [a EXCEPT !.client.rbuf_used = -1, !.client.pending = 0,
                     !.client.socks_up = TRUE,
                     !.pcb.sent = @ \/ ~a.client.client_closed]
      c == IF b.client.buf_used > 0 THEN client_send_to_socks(b) ELSE b
  IN  IF w.event = "none" THEN w
      ELSE IF w.event = "UP"
      THEN IF c.client.client_closed THEN c ELSE client_socks_recv_initiate(c)
      ELSE client_free_socks(
             Ended(a, IF w.event = "ERROR" THEN "error" ELSE "eof"))

-----------------------------------------------------------------------------
(***************************************************************************)
(* lwIP.  A segment is taken apart by tcp_input: first what it             *)
(* acknowledges is told (the sent callback), then its data is handed over, *)
(* then the end of the stream (both the recv callback).                    *)
(***************************************************************************)

Init ==
  /\ client = [NewClient EXCEPT !.alive = FALSE]
  /\ pcb = [NewPcb EXCEPT !.state = "FREE"]
  /\ socks = [NewSocks EXCEPT !.state = "FREED"]
  /\ jobs = <<>> /\ input = NoInput /\ dead = 0 /\ failed = {}
  /\ flow = NoFlow

\* The reactor is between two events.
Quiet == input.stage = "idle" /\ jobs = <<>>

\* A callback of lwIP begins: the mark is set, and dead is cleared.
Enter(w) == [BPending_Set(w, "mark") EXCEPT !.dead = 0, !.running = TRUE]

\* The handshake of TCP is complete: a new connection, after the last one.
\* The client may not be created (lwIP then aborts the connection), and the
\* connection to the SOCKS server may be there at once.
Accept ==
  /\ Quiet /\ ~client.alive /\ pcb.state = "FREE"
  /\ \/ /\ flow' = [NoFlow EXCEPT !.ends = {"refused"}]
        /\ UNCHANGED <<client, pcb, socks, jobs, input, dead, failed>>
     \/ \E connected \in BOOLEAN, data \in 0 .. MaxUp, fin \in BOOLEAN :
          LET p == [NewPcb EXCEPT !.state = "ESTABLISHED",
                                  !.recv = TRUE, !.errf = TRUE]
              w == Enter([World EXCEPT !.client = NewClient, !.pcb = p,
                                       !.socks = NewSocks, !.flow = NoFlow])
          IN  /\ FitsWindow(p, data, fin)
              /\ Becomes(IF connected THEN BPending_Set(w, "connect") ELSE w)
              /\ input' = [stage |-> "accept", acked |-> 0, data |-> data,
                           fin |-> fin]

\* A segment for a connection that the application has not closed.
TcpInput ==
  /\ Quiet /\ Open(pcb) /\ ~pcb.rxclosed
  /\ \E acked \in 0 .. TCP_SND_BUF - pcb.snd_buf, data \in 0 .. MaxUp,
        fin \in BOOLEAN :
       /\ acked + data > 0 \/ fin
       /\ flow.received + data <= MaxUp
       /\ pcb.state = "CLOSE_WAIT" => data = 0 /\ ~fin
       /\ FitsWindow(pcb, data, fin)
       /\ pcb' = tcp_receive(pcb, acked, data, fin)
       /\ input' = [stage |-> "sent", acked |-> acked, data |-> data,
                    fin |-> fin]
  /\ UNCHANGED <<client, socks, jobs, dead, failed, flow>>

\* A callback of stage s runs, or tcp_input goes on without one.
Calls(w, s) == Becomes(w) /\ input' = [input EXCEPT !.stage = s]
Skips(p, s) ==
  /\ pcb' = p /\ input' = [input EXCEPT !.stage = s]
  /\ UNCHANGED <<client, socks, jobs, dead, failed, flow>>

TellSent ==
  /\ input.stage = "sent"
  /\ IF input.acked > 0 /\ pcb.sent
     THEN \E room, sent \in BOOLEAN :
            Calls(client_sent_func(Enter(World), input.acked, room, sent),
                  "in sent")
     ELSE Skips(pcb, "recv")

\* Data after the application closed the connection aborts it; without a
\* recv callback the stack takes the data itself (tcp_recv_null).
TellData ==
  /\ input.stage = "recv"
  /\ IF input.data > 0 /\ ~pcb.rxclosed /\ pcb.recv
     THEN Calls(client_recv_func(Enter(World), input.data), "in recv")
     ELSE IF input.data = 0 THEN Skips(pcb, "fin")
     ELSE IF pcb.rxclosed THEN Skips(tcp_abort(pcb), "idle")
     ELSE Skips(tcp_recved(pcb, input.data), "fin")

TellFin ==
  /\ input.stage = "fin"
  /\ IF input.fin /\ pcb.refused = 0 /\ pcb.recv
     THEN Calls(client_recv_fin(Enter([World EXCEPT !.pcb = ConfirmFin(@)])),
                "in fin")
     ELSE Skips(IF input.fin /\ pcb.refused = 0 THEN ConfirmFin(pcb)
                ELSE pcb, "out")

\* Where tcp_input goes on after a callback that did not return ERR_ABRT.
Following == [s \in {"accept", "in sent", "in recv", "in fin"} |->
  IF s = "accept" THEN "sent" ELSE IF s = "in sent" THEN "recv"
  ELSE IF s = "in recv" THEN "fin" ELSE "out"]

\* SYNC_COMMIT has come to the mark: the callback returns, ERR_ABRT if the
\* connection was aborted.  The data that came with the end of the
\* handshake is received after the accept callback.
CallbackReturns ==
  /\ input.stage \in DOMAIN Following
  /\ Head(jobs) = "mark"
  /\ jobs' = Tail(jobs)
  /\ dead' = 0
  /\ IF dead > 0 THEN input' = NoInput /\ UNCHANGED pcb
     ELSE IF input.stage = "in sent" /\ pcb.state = "PURGED"
     THEN input' = NoInput /\ pcb' = [pcb EXCEPT !.state = "FREE"]
     ELSE /\ input' = [input EXCEPT !.stage = Following[@]]
          /\ pcb' = IF input.stage = "accept"
                    THEN tcp_receive(pcb, 0, input.data, input.fin)
                    ELSE pcb
  /\ UNCHANGED <<client, socks, failed, flow>>

\* The end of tcp_input.
InputEnds ==
  /\ input.stage = "out"
  /\ input' = NoInput
  /\ pcb' = IF pcb.state = "PURGED" THEN [pcb EXCEPT !.state = "FREE"] ELSE pcb
  /\ UNCHANGED <<client, socks, jobs, dead, failed, flow>>

\* The connection goes: lwIP frees it and calls the error callback.
PcbDies(why) ==
  LET w == Ended([World EXCEPT !.pcb.state = "FREE"], why)
  IN  /\ Becomes(IF pcb.errf THEN client_err_func(w) ELSE w)
      /\ UNCHANGED input

\* A reset from the peer; lwIP needs the memory for another connection.
TcpReset == Quiet /\ Open(pcb) /\ ~pcb.rxclosed /\ PcbDies("reset")

\* Data stayed unacknowledged, or a window closed, for too long.
RetransmitTimeout ==
  /\ Quiet /\ Open(pcb) /\ ~pcb.rxclosed
  /\ pcb.snd_buf < TCP_SND_BUF
  /\ PcbDies("timeout")

\* A connection that the application closed ends by itself.
PcbExpires ==
  /\ Quiet /\ pcb.rxclosed /\ pcb.state # "FREE"
  /\ pcb' = [pcb EXCEPT !.state = "FREE"]
  /\ UNCHANGED <<client, socks, jobs, input, dead, failed, flow>>

-----------------------------------------------------------------------------
(***************************************************************************)
(* The reactor.                                                            *)
(***************************************************************************)

Run(job) == jobs # <<>> /\ Head(jobs) = job
Popped == [World EXCEPT !.jobs = Tail(@)]
Handled(w) == Becomes(client_socks_handler(w)) /\ UNCHANGED input

RunConnect ==
  /\ Run("connect")
  /\ \E ok \in BOOLEAN : Handled(connector_handler(Popped, ok))

RunSendOp ==
  /\ Run("sendOp")
  /\ \E o \in SendOutcomes(Popped) : Handled(connection_send(Popped, o))

RunRecv ==
  /\ Run("recvOp") \/ Run("recvJob")
  /\ \E o \in RecvOutcomes(Popped) :
       /\ flow.read + o <= MaxDown
       /\ Handled(connection_recv(Popped, o))

RunSendDone ==
  /\ Run("sendDone")
  /\ LET w == [Popped EXCEPT !.socks.send = "none"]
     IN  IF socks.state = "UP"
         THEN /\ Becomes(client_socks_send_handler_done(w, socks.sendlen))
              /\ UNCHANGED input
         ELSE \E ok \in BOOLEAN : Handled(send_handler_done(w, ok))

RunRecvDone ==
  /\ Run("recvDone")
  /\ LET w == [Popped EXCEPT !.socks.recv = "none"]
     IN  IF socks.state = "UP"
         THEN /\ \E room, sent \in BOOLEAN :
                   Becomes(client_socks_recv_handler_done(w, socks.recvlen,
                                                          room, sent))
              /\ UNCHANGED input
         ELSE \E ok \in BOOLEAN, method \in Methods :
                Handled(recv_handler_done(w, ok, method))

\* The connection to the SOCKS server is made, or refused, later.
ConnectorEvent ==
  /\ Quiet /\ socks.state = "CONNECTING"
  /\ \E ok \in BOOLEAN : Handled(connector_handler(World, ok))

ConnectionEvent ==
  /\ Quiet /\ socks.state \notin {"CONNECTING", "FREED"} /\ ~socks.hup
  /\ \E ev \in FdEvents(socks) : \E w \in connection_fd_handler(World, ev) :
       /\ w.socks.recv = "done" => flow.read + w.socks.recvlen <= MaxDown
       /\ Handled(w)

\* The program is asked to end, and frees the clients it has.
Terminate ==
  /\ Quiet /\ client.alive
  /\ Becomes(client_murder(Ended(World, "murder"))) /\ UNCHANGED input

Jobs == RunConnect \/ RunSendOp \/ RunRecv \/ RunSendDone \/ RunRecvDone

Lwip ==
  \/ TellSent \/ TellData \/ TellFin \/ CallbackReturns \/ InputEnds

Next ==
  \/ Jobs \/ Lwip
  \/ Accept \/ TcpInput \/ TcpReset \/ RetransmitTimeout \/ PcbExpires
  \/ ConnectorEvent \/ ConnectionEvent \/ Terminate

Spec == Init /\ [][Next]_vars

\* The thread goes on whenever it is between two events, and the other
\* sides do their part: the SOCKS server is reached or refuses, takes what
\* it is sent and answers, or breaks the connection; the peer acknowledges
\* what it was sent, or lwIP gives it up after its retransmissions.  Weak
\* fairness of the thread and strong fairness of the others, with their
\* enabling conditions written out.
ServerTakes ==
  ConnectionEvent /\ (socks'.send = "done" \/ socks'.state = "FREED")
ServerAnswers ==
  ConnectionEvent /\ (socks'.recv = "done" \/ socks'.state = "FREED")
PeerAnswers == (TcpInput /\ input'.acked > 0) \/ RetransmitTimeout

Fairness ==
  /\ []<>Quiet \/ []<><<Jobs \/ Lwip>>_vars
  /\ []<>(Quiet /\ socks.state = "CONNECTING") => []<><<ConnectorEvent>>_vars
  /\ []<>(Quiet /\ socks.send = "busy") => []<><<ServerTakes>>_vars
  /\ []<>(Quiet /\ socks.recv = "busy") => []<><<ServerAnswers>>_vars
  /\ []<>(Quiet /\ Open(pcb) /\ pcb.snd_buf < TCP_SND_BUF) =>
       []<><<PeerAnswers>>_vars

FairSpec == Spec /\ Fairness

-----------------------------------------------------------------------------
TypeOK ==
  /\ client \in [alive : BOOLEAN, aborted : BOOLEAN, client_closed : BOOLEAN,
                 socks_closed : BOOLEAN, socks_up : BOOLEAN,
                 buf_used : 0 .. TCP_WND,
                 rbuf_used : -1 .. CLIENT_SOCKS_RECV_BUF_SIZE,
                 rbuf_sent : 0 .. CLIENT_SOCKS_RECV_BUF_SIZE,
                 waiting : BOOLEAN, pending : 0 .. TCP_SND_BUF]
  /\ pcb \in Pcb
  /\ socks.state \in {"CONNECTING", "UP", "FREED"} \cup Sending \cup Receiving
  /\ socks.send \in Interface /\ socks.recv \in Interface
  /\ jobs \in Seq(SocksJobs \cup {"mark"})
  /\ input.stage \in {"idle", "sent", "recv", "fin", "out"}
                       \cup DOMAIN Following
  /\ dead \in {-1, 0, 1}

\* No assertion of the code fails (a release build does not check them), and
\* every value stays within its bounds: no callback reaches a client that is
\* closed or freed, nothing is freed twice, an interface has one operation at
\* a time, and lwIP is given only connections it has.
AssertionsHold == TypeOK /\ failed = {}

\* "Return ERR_ABRT if and only if tcp_abort was called from this callback":
\* lwIP goes on with the connection otherwise, so it must still be there,
\* whatever the jobs that ran inside the callback did to the client.
AbortIsReturned ==
  (input.stage \in DOMAIN Following /\ Head(jobs) = "mark") =>
    (dead > 0 <=> pcb.state = "FREE")

\* As long as the client has not closed its side it may use client->pcb:
\* lwIP has not freed it, and it is open.
ClientHasPcb == (client.alive /\ ~client.client_closed) => Open(pcb)

\* What tcp_input holds that the client has not been given.
Unread ==
  IF input.stage \in {"sent", "in sent", "recv"}
  THEN input.data + (IF input.fin THEN 1 ELSE 0)
  ELSE IF input.stage \in {"in recv", "fin"} /\ input.fin THEN 1 ELSE 0

\* The receive window and the buffer of the client add up, so the peer never
\* sends more than the client can buffer ("no buffer for data !?!" is not
\* reached), and no part of the window is lost for good.
WindowIsRoom ==
  (client.alive /\ ~client.client_closed) =>
    /\ pcb.rcv_wnd + client.buf_used + Unread = TCP_WND
    /\ pcb.refused = 0

\* Between two events, data for the SOCKS server is always on its way to it,
\* a client that can take data has a read open or waits for an
\* acknowledgement that is outstanding, and a client that is left with one
\* side has something to finish: nobody waits for nobody.
NobodyStalls ==
  (Quiet /\ client.alive) =>
    /\ client.client_closed => client.buf_used > 0
    /\ client.socks_closed => client.pending > 0
    /\ client.socks_up /\ ~client.socks_closed =>
         /\ client.buf_used > 0 => socks.send = "busy"
         /\ ~client.client_closed =>
              socks.recv = "busy" \/ (client.waiting /\ client.pending > 0)
    /\ client.pending = IF client.client_closed THEN client.pending
                        ELSE TCP_SND_BUF - pcb.snd_buf

\* When a client is freed, everything the peer sent was written to the SOCKS
\* server, unless that connection failed first, and everything the server
\* sent was acknowledged by the peer, unless that side ended first.
FreedIsDelivered ==
  ~client.alive =>
    /\ flow.ends \cap {"error", "eof", "murder"} = {} =>
         flow.wrote = flow.received
    /\ flow.ends \subseteq {"error", "eof"} => flow.acked = flow.read

\* A client that lost one side is freed: what it buffered is delivered, or
\* the other side ends as well.
ClosedIsFreed ==
  (client.client_closed \/ client.socks_closed) ~> ~client.alive

=============================================================================

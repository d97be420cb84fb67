----------------------------- MODULE BSocksClient -----------------------------
(***************************************************************************)
(* The connection to the SOCKS server of one TCP client of tun2socks: the  *)
(* connector, the non-blocking socket with its two one-operation           *)
(* interfaces (BConnection), and the client of the SOCKS5 handshake.       *)
(*                                                                         *)
(* An operator takes a world w and returns the next one (see BPending):    *)
(* w.socks is the connection, w.event what the last call reported to the   *)
(* handler of the user ("none" if nothing).                                *)
(***************************************************************************)
EXTENDS BPending

CONSTANTS
  CLIENT_SOCKS_RECV_BUF_SIZE,   \* the size of a read when the client is up
  WithPassword                  \* a user name and a password are configured

ASSUME SocksAssumption ==
  CLIENT_SOCKS_RECV_BUF_SIZE \in Nat \ {0} /\ WithPassword \in BOOLEAN

Sending == {"SENDING_HELLO", "SENDING_PASSWORD", "SENDING_REQUEST"}
Receiving == {"SENT_HELLO", "SENT_PASSWORD", "SENT_REQUEST",
              "RECEIVED_REPLY_HEADER"}
SocksJobs == {"connect", "sendOp", "sendDone", "recvOp", "recvDone", "recvJob"}

NewSocks ==
  [state |-> "CONNECTING", send |-> "none", sendlen |-> 0,
   recv |-> "none", recvlen |-> 0, wait |-> {}, hup |-> FALSE]

Sender_Send(w, len) ==
  LET a == Check(w, w.socks.send = "none" /\ w.socks.state # "FREED",
                 "Sender_Send")
  IN  BPending_Set([a EXCEPT !.socks.send = "op", !.socks.sendlen = len],
                   "sendOp")

Receiver_Recv(w, len) ==
  LET a == Check(w, w.socks.recv = "none" /\ w.socks.state # "FREED",
                 "Receiver_Recv")
  IN  BPending_Set([a EXCEPT !.socks.recv = "op", !.socks.recvlen = len],
                   "recvOp")

report_error(w, event) == [w EXCEPT !.event = event]

connection_handler(w, event) ==
  report_error(w, IF w.socks.state = "UP" /\ event = "RECVCLOSED"
                  THEN "ERROR_CLOSED" ELSE "ERROR")

\* o is the outcome of write: 0 for a wait (the limit of the reactor, or
\* EAGAIN), -1 for an error, or the number of bytes written.
connection_send(w, o) ==
  LET a == Check(w, w.socks.send \in {"op", "busy"}, "connection_send")
  IN  IF o = 0
      THEN [a EXCEPT !.socks.send = "busy", !.socks.wait = @ \cup {"write"}]
      ELSE IF o = -1
      THEN connection_handler([a EXCEPT !.socks.send = "busy"], "ERROR")
      ELSE BPending_Set([a EXCEPT !.socks.send = "done", !.socks.sendlen = o],
                        "sendDone")

\* After a hang-up no write succeeds, and nothing waits.
SendOutcomes(w) ==
  IF w.socks.hup THEN {-1} ELSE {-1, 0} \cup 1 .. w.socks.sendlen

Eof == -2

\* The same for read, and Eof for the end of the stream.
connection_recv(w, o) ==
  LET a == Check(w, w.socks.recv \in {"op", "busy"}, "connection_recv")
  IN  IF o = 0
      THEN [a EXCEPT !.socks.recv = "busy", !.socks.wait = @ \cup {"read"}]
      ELSE IF o = Eof
      THEN connection_handler([a EXCEPT !.socks.recv = "closed"], "RECVCLOSED")
      ELSE IF o = -1
      THEN connection_handler([a EXCEPT !.socks.recv = "busy"], "ERROR")
      ELSE BPending_Set([a EXCEPT !.socks.recv = "done", !.socks.recvlen = o],
                        "recvDone")

RecvOutcomes(w) ==
  (IF w.socks.hup THEN {-1, Eof} ELSE {-1, Eof, 0}) \cup 1 .. w.socks.recvlen

\* The events of the socket that connection_fd_handler may be called with.
FdEvents(s) ==
  {ev \in SUBSET {"read", "write", "error", "hup"} :
     ev # {} /\ ev \cap {"read", "write"} \subseteq s.wait}

\* Everything of connection_fd_handler before it sends or receives.
FdHandled(w, ev) ==
  [Check(w, /\ ~w.socks.hup
            /\ "write" \in ev => w.socks.send = "busy"
            /\ "read" \in ev => w.socks.recv = "busy", "connection_fd_handler")
     EXCEPT !.socks.wait = @ \ ev, !.socks.hup = @ \/ "hup" \in ev]

HaveSend(w, ev) ==
  "write" \in ev \/ (ev \cap {"error", "hup"} # {} /\ w.socks.send = "busy")
HaveRecv(w, ev) ==
  "read" \in ev \/ (ev \cap {"error", "hup"} # {} /\ w.socks.recv = "busy")

\* The successors of a call of connection_fd_handler.  An error event means
\* that the socket has a pending error, which the next write returns, and a
\* read that finds no data.
connection_fd_handler(w, ev) ==
  LET a == FdHandled(w, ev)
      b == IF HaveRecv(w, ev) THEN BPending_Set(a, "recvJob") ELSE a
      writes == IF "error" \in ev THEN {-1} ELSE SendOutcomes(b)
      reads == IF "read" \in ev THEN RecvOutcomes(a) ELSE {-1}
  IN  IF HaveSend(w, ev) THEN {connection_send(b, o) : o \in writes}
      ELSE IF HaveRecv(w, ev) THEN {connection_recv(a, o) : o \in reads}
      ELSE {IF "hup" \in ev THEN a ELSE connection_handler(a, "ERROR")}

BSocksClient_Free(w) ==
  LET a == Check(w, w.socks.state # "FREED", "BSocksClient_Free")
  IN  BPending_Free([a EXCEPT !.socks = [NewSocks EXCEPT !.state = "FREED"]],
                    SocksJobs)

-----------------------------------------------------------------------------
(***************************************************************************)
(* The handshake.  A message of it is one unit, written and read at once;  *)
(* ok is FALSE when the connection failed, a buffer could not be allocated *)
(* or the server answered something the client does not accept.            *)
(***************************************************************************)

To(w, state) == [w EXCEPT !.socks.state = state]

\* The connection is not made, or given up again, in state CONNECTING.
connector_handler(w, ok) ==
  IF ok THEN To(Sender_Send(w, 1), "SENDING_HELLO")
  ELSE report_error(w, "ERROR")

send_handler_done(w, ok) ==
  LET s == w.socks.state
      next == IF s = "SENDING_HELLO" THEN "SENT_HELLO"
              ELSE IF s = "SENDING_PASSWORD" THEN "SENT_PASSWORD"
              ELSE "SENT_REQUEST"
      a == Check(w, s \in Sending, "send_handler_done")
  IN  IF ok THEN To(Receiver_Recv(a, 1), next) ELSE report_error(a, "ERROR")

auth_finished(w) == To(Sender_Send(w, 1), "SENDING_REQUEST")

\* method is what the server chose in its hello.
recv_handler_done(w, ok, method) ==
  LET s == w.socks.state
      a == Check(w, s \in Receiving, "recv_handler_done")
  IN  IF ~ok THEN report_error(a, "ERROR")
      ELSE IF s = "SENT_HELLO" /\ method = "password"
      THEN To(Sender_Send(a, 1), "SENDING_PASSWORD")
      ELSE IF s \in {"SENT_HELLO", "SENT_PASSWORD"} THEN auth_finished(a)
      ELSE IF s = "SENT_REQUEST"
      THEN To(Receiver_Recv(a, 1), "RECEIVED_REPLY_HEADER")
      ELSE report_error(To(BPending_Free(a, SocksJobs), "UP"), "UP")

Methods == IF WithPassword THEN {"none", "password"} ELSE {"none"}

=============================================================================

---------------------------- MODULE UdpConnection ----------------------------
(***************************************************************************)
(* One connection of the UDP relay of tun2socks and the objects it owns:   *)
(* the writer and the packet buffer on the way to the relay server         *)
(* (BufferWriter, PacketBuffer, ChunkBuffer2), the datagram socket         *)
(* (BDatagram), and the one-packet buffer on the way back.  They are tied  *)
(* together by interfaces whose operations and completions are jobs.       *)
(*                                                                         *)
(* w.con[c] is the connection of the local address c, w.count the number   *)
(* of packets that connections took.  The flags out_have, send.busy and    *)
(* recv.busy say the same as the state "busy" of writer, send and recv,    *)
(* and are not kept.  w.exiting becomes "overrun" when a write leaves its  *)
(* place in the buffer.                                                    *)
(***************************************************************************)
EXTENDS BPending, ChunkBuffer2

CONSTANTS
  Mtu,                          \* udp_mtu, in blocks
  HeaderLen,                    \* the SOCKS header in front of a payload
  CONNECTION_UDP_BUFFER_SIZE    \* packets a connection buffers

ASSUME RelayAssumption ==
  {Mtu, HeaderLen, CONNECTION_UDP_BUFFER_SIZE} \subseteq Nat \ {0}

\* The jobs of a connection.
Kinds == {"first", "writerOp", "writerDone", "sendOp", "sendJob", "sendDone",
          "recvOp", "recvJob", "recvDone", "passOp", "passDone"}
Job(kind, c) == [kind |-> kind, con |-> c]

\* remote and dns are conaddr.remote_addr and is_dns; to is the address the
\* socket sends to, wait are the events it waits for, and writing is what
\* the writer passes on.  History: broken tells that the socket reported an
\* error, queue is what the buffer should hold, and accepted is the number
\* of the last packet that was taken.
NewCon(remote, dns) ==
  [live |-> TRUE, remote |-> remote, dns |-> dns,
   to |-> IF dns THEN "dnsgw" ELSE "socks",
   buf |-> NewBuffer(calc_blocks(Mtu, CONNECTION_UDP_BUFFER_SIZE), Mtu),
   writer |-> "none", send |-> "none", recv |-> "none", pass |-> "none",
   writing |-> <<>>, started |-> FALSE, wait |-> {}, reply |-> "none",
   broken |-> FALSE, queue |-> <<>>, accepted |-> 0]

\* The user of interface i of connection c starts an operation, and its
\* provider completes it.
Starts(w, c, i, job) ==
  LET a == Check(w, w.con[c].live /\ w.con[c][i] = "none", "start " \o i)
  IN  BPending_Set([a EXCEPT !.con[c] = [@ EXCEPT ![i] = "op"]], Job(job, c))

Completes(w, c, i, job) ==
  LET a == Check(w, w.con[c].live /\ w.con[c][i] = "busy", "complete " \o i)
  IN  BPending_Set([a EXCEPT !.con[c] = [@ EXCEPT ![i] = "done"]], Job(job, c))

Within(w, c, i, state) == [w EXCEPT !.con[c] = [@ EXCEPT ![i] = state]]

-----------------------------------------------------------------------------
(***************************************************************************)
(* To the server.                                                          *)
(***************************************************************************)

\* A packet is dropped when the writer has no place for it.
Ready(con) == con.writer = "busy"

\* The packet, and the address in the SOCKS header in front of it.
Framed(con, p) ==
  [packet |-> p, header |-> IF con.dns THEN "none" ELSE con.remote,
   len |-> p.len + (IF con.dns THEN 0 ELSE HeaderLen)]

\* The header comes on top of a payload of up to udp_mtu, and nothing looks
\* at the sum: a packet that is longer than the place it is written to
\* overruns it, and what follows is undefined.
connection_send(w, c, p) ==
  LET con == w.con[c]
      f == Framed(con, p)
      a == [Check(w, f.len <= Mtu, "mtu")
              EXCEPT !.exiting = IF f.len > con.buf.input_avail THEN "overrun"
                                 ELSE @]
      b == [a EXCEPT !.con[c].buf = Write(@, f, f.len),
                     !.con[c].writing = <<f>>, !.con[c].accepted = p.id,
                     !.count = p.id]
  IN  IF Ready(con) THEN Completes(b, c, "writer", "writerDone") ELSE w

\* History: f at the place in the buffer where the writer has put it.
Entry(buf, f) == [pos |-> end(buf), len |-> f.len, data |-> f]

\* Mutant: a send is scheduled for every packet.
InputDoneSends(w, c) ==
  LET f == Head(w.con[c].writing)
      b == [w EXCEPT !.con[c].buf = SubmitPacket(@, f.len),
                     !.con[c].writing = <<>>,
                     !.con[c].queue = Append(@, Entry(w.con[c].buf, f))]
      d == IF b.con[c].buf.input_avail >= Mtu
           THEN Starts(b, c, "writer", "writerOp") ELSE b
  IN  Starts(d, c, "send", "sendOp")

\* PacketBuffer: the writer has a packet.
input_handler_done(w, c) ==
  LET old == w.con[c].buf
      f == Head(w.con[c].writing)
      a == Check(Check(w, f.len <= Mtu, "mtu"),
                 f.len <= old.input_avail, "ChunkBuffer2_SubmitPacket")
      b == [a EXCEPT !.con[c].buf = SubmitPacket(old, f.len),
                     !.con[c].writing = <<>>,
                     !.con[c].queue = Append(@, Entry(w.con[c].buf, f))]
      d == IF b.con[c].buf.input_avail >= Mtu
           THEN Starts(b, c, "writer", "writerOp") ELSE b
  IN  IF old.output_avail < 0 THEN Starts(d, c, "send", "sendOp") ELSE d

\* Mutant: a full buffer that gets room does not ask for a packet.
OutputDoneForgets(w, c) ==
  LET b == [w EXCEPT !.con[c].buf = ConsumePacket(@),
                     !.con[c].queue = Tail(@)]
  IN  IF b.con[c].buf.output_avail >= 0 THEN Starts(b, c, "send", "sendOp")
      ELSE b

output_handler_done(w, c) ==
  LET full == w.con[c].buf.input_avail < Mtu
      a == Check(w, w.con[c].buf.output_dest >= 0, "ChunkBuffer2_ConsumePacket")
      b == [a EXCEPT !.con[c].buf = ConsumePacket(@),
                     !.con[c].queue = Tail(@)]
      d == IF full /\ b.con[c].buf.input_avail >= Mtu
           THEN Starts(b, c, "writer", "writerOp") ELSE b
  IN  IF b.con[c].buf.output_avail >= 0 THEN Starts(d, c, "send", "sendOp")
      ELSE d

\* An error is reported to dgram_handler, which does no more than log it.  The
\* job of DebugError, which expects the datagram to be freed by then, fails.
report_error(w, c) ==
  Check([w EXCEPT !.con[c].broken = TRUE], FALSE, "DebugError")

\* The socket is written: o is "again" (EAGAIN, or the limit of the
\* reactor), "error", or "ok".
do_send(w, c, o) ==
  LET con == w.con[c]
      a == Check(w, con.live /\ con.send = "busy", "do_send")
      starts == ~con.started /\ con.recv = "busy"
      b == [a EXCEPT !.con[c].started = TRUE]
      d == IF starts THEN BPending_Set(b, Job("recvJob", c)) ELSE b
  IN  IF o = "again" THEN [a EXCEPT !.con[c].wait = @ \cup {"write"}]
      ELSE IF o = "error" THEN report_error(a, c)
      ELSE Completes(d, c, "send", "sendDone")

-----------------------------------------------------------------------------
(***************************************************************************)
(* From the server.                                                        *)
(***************************************************************************)

\* o as above, or the remote address a datagram came from; "bad" is one
\* without a header that can be read.
do_recv(w, c, o) ==
  LET con == w.con[c]
      a == Check(w, con.live /\ con.recv = "busy" /\ con.started, "do_recv")
  IN  IF o = "again" THEN [a EXCEPT !.con[c].wait = @ \cup {"read"}]
      ELSE IF o = "error" THEN report_error(a, c)
      ELSE Completes([a EXCEPT !.con[c].reply = o], c, "recv", "recvDone")

recv_if_handler_recv(w, c) ==
  LET a == Within(w, c, "recv", "busy")
  IN  IF w.con[c].started THEN BPending_Set(a, Job("recvJob", c)) ELSE a

\* A reply of the SOCKS server names the address it comes from, which
\* becomes the remote address of the connection.  What is passed on to the
\* device leaves no state behind.
dgram_handler_received(w, c) ==
  LET a == Completes(Within(w, c, "pass", "busy"), c, "pass", "passDone")
      r == w.con[c].reply
  IN  [a EXCEPT !.con[c].remote = IF w.con[c].dns \/ r = "bad" THEN @ ELSE r,
                !.con[c].reply = "none"]

\* The socket is ready: recv is set aside when both directions are.  An
\* error event comes with a pending error, which the first call returns.
HasSend(con, ev) ==
  "write" \in ev \/ ("error" \in ev /\ con.send = "busy")
HasRecv(con, ev) ==
  "read" \in ev \/ ("error" \in ev /\ con.recv = "busy" /\ con.started)

fd_handler(w, c, ev, o) ==
  LET con == w.con[c]
      a == [w EXCEPT !.con[c].wait = @ \ ev]
  IN  IF HasSend(con, ev)
      THEN do_send(IF HasRecv(con, ev)
                   THEN BPending_Set(a, Job("recvJob", c)) ELSE a, c, o)
      ELSE IF HasRecv(con, ev) THEN do_recv(a, c, o)
      ELSE report_error(a, c)

=============================================================================

------------------------------- MODULE UdpRelay -------------------------------
(***************************************************************************)
(* The UDP relay of tun2socks as it is built for Android: packets read     *)
(* from the TUN device go to a connection per local address                *)
(* (SocksUdpGwClient), at most max_connections of them, the least recently *)
(* used one giving way; and the event loop (BReactor) that runs all of it  *)
(* on one thread.                                                          *)
(*                                                                         *)
(* The loop runs pending jobs, the last one set first; then it hands out   *)
(* the events it got from epoll_wait, one at a time with all the jobs it   *)
(* leads to; then it waits again.  A step is one job, one event, or one    *)
(* wait.  A packet that is not relayed UDP goes to lwIP and leaves no      *)
(* trace here (see TcpClient).                                             *)
(***************************************************************************)
EXTENDS UdpConnection, SequencesExt

CONSTANTS
  Locals,             \* local addresses (and ports) packets come from
  Remotes,            \* addresses they are sent to
  DnsServers,         \* those whose port is the port of DNS
  max_connections,
  BSYSTEM_MAX_RESULTS,  \* events epoll_wait returns at a time
  Payloads,           \* bound: lengths of payloads, in blocks
  MaxPackets          \* bound: packets taken in one run of the program

ASSUME BoundsAssumption ==
  /\ DnsServers \subseteq Remotes
  /\ {max_connections, BSYSTEM_MAX_RESULTS, MaxPackets} \subseteq Nat \ {0}
  /\ Payloads \subseteq 0 .. Mtu

VARIABLES
  con,        \* the connections (connections_tree), by local address
  list,       \* connections_list: local addresses, least recently used first
  jobs,       \* pending jobs, the next one first
  results,    \* epoll_results that have not been dispatched
  dev,        \* the read buffer of the device, and whether it waits for data
  count,      \* history: packets that connections took
  lost,       \* history: packets that were the first of a connection, dropped
  failed,     \* history: assertions that did not hold
  exiting     \* "ended": the program has ended; "overrun": memory was
              \* overwritten, and what it does is undefined

vars == <<con, list, jobs, results, dev, count, lost, failed, exiting>>

NoPacket == [id |-> 0]
NoCon == [NewCon("none", FALSE) EXCEPT !.live = FALSE]

World ==
  [con |-> con, list |-> list, jobs |-> jobs, results |-> results,
   dev |-> dev, count |-> count, lost |-> lost, failed |-> failed,
   exiting |-> exiting]

Becomes(next) ==
  \E w \in {next} :
    /\ con' = w.con /\ list' = w.list /\ jobs' = w.jobs
    /\ results' = w.results /\ dev' = w.dev /\ count' = w.count
    /\ lost' = w.lost /\ failed' = w.failed /\ exiting' = w.exiting

Start ==
  [con |-> [c \in Locals |-> NoCon], list |-> <<>>, jobs |-> <<>>,
   results |-> <<>>, dev |-> [waits |-> TRUE, buf |-> NoPacket], count |-> 0,
   lost |-> {}, failed |-> {}, exiting |-> "no"]

Init ==
  /\ con = Start.con /\ list = Start.list /\ jobs = Start.jobs
  /\ results = Start.results /\ dev = Start.dev /\ count = Start.count
  /\ lost = Start.lost /\ failed = Start.failed /\ exiting = Start.exiting

-----------------------------------------------------------------------------
(***************************************************************************)
(* SocksUdpGwClient.                                                       *)
(***************************************************************************)

\* Mutant: events that were returned before are still handed out.
RemoveKeepsEvents(w, c) == w

\* An object of the reactor is removed: its event is no longer handed out.
BReactor_RemoveFileDescriptor(w, c) ==
  [w EXCEPT !.results = SelectSeq(@, LAMBDA r : r.fd # c)]

\* The connection leaves the list and the tree, and its objects their jobs;
\* all but first_job, which is not freed.
connection_free(w, c) ==
  LET a == Check(w, w.con[c].live, "connection_free")
      b == BPending_Free(a, {Job(k, c) : k \in Kinds \ {"first"}})
  IN  BReactor_RemoveFileDescriptor(
        [b EXCEPT !.con[c] = NoCon, !.list = Remove(@, c)], c)

remove_lru_connection(w) ==
  IF Len(w.list) = max_connections THEN connection_free(w, Head(w.list)) ELSE w

\* The new connection sends its packet in a job of its own, and from the
\* buffer of the device; its interfaces start after that job is set.
connection_init(w, p) ==
  LET c == p.local
      a == BPending_Set([w EXCEPT !.con[c] = NewCon(p.remote, p.dns)],
                        Job("first", c))
      b == Starts(a, c, "writer", "writerOp")
  IN  [Starts(b, c, "recv", "recvOp") EXCEPT !.list = Append(@, c)]

\* A connection is found by the local address alone: is_dns is compared
\* only where no connection was found.
find_connection(w, p) == w.con[p.local].live

\* Mutant: the connection keeps the address of the last reply.
ResetNothing(w, p) == w

reset_connection(w, p) ==
  [w EXCEPT !.con[p.local].remote = p.remote, !.con[p.local].dns = p.dns]

\* Mutant: a packet that is dropped counts as a use of the connection.
SubmitTouches(w, p) ==
  [connection_send(reset_connection(w, p), p.local, p)
     EXCEPT !.list = Append(Remove(@, p.local), p.local)]

\* A packet for a connection that exists, which has been used if it takes
\* the packet.
SubmitToKnown(w, p) ==
  LET c == p.local
      a == connection_send(reset_connection(w, p), c, p)
  IN  IF Ready(w.con[c]) THEN [a EXCEPT !.list = Append(Remove(@, c), c)]
      ELSE a

\* ok is FALSE when the objects of a new connection cannot be made.
SocksUdpGwClient_SubmitPacket(w, p, ok) ==
  IF find_connection(w, p) THEN SubmitToKnown(w, p)
  ELSE IF ok THEN connection_init(remove_lru_connection(w), p)
  ELSE remove_lru_connection(w)

connection_first_job_handler(w, c) ==
  LET a == Check(w, w.con[c].live, "connection_first_job_handler")
  IN  IF Ready(w.con[c]) THEN connection_send(a, c, w.dev.buf)
      ELSE [a EXCEPT !.lost = @ \cup {w.dev.buf.id}]

\* The connections are freed from the first to the last.
SocksUdpGwClient_Free(w) == FoldLeft(connection_free, w, w.list)

-----------------------------------------------------------------------------
(***************************************************************************)
(* The device.  Its buffer is given back before the packet is processed;   *)
(* the job that reads the next packet into it is below all the jobs that   *)
(* the packet leads to.                                                    *)
(***************************************************************************)

Refill == [kind |-> "refill", con |-> "tap"]

\* A query to the port of DNS, which is not empty, is a DNS packet; a payload
\* is at most udp_mtu long (process_device_udp_packet).
Packets ==
  {p \in [id : {count + 1}, local : Locals, remote : Remotes, dns : BOOLEAN,
          len : Payloads] : p.dns => p.remote \in DnsServers /\ p.len > 0}

device_read_handler_send(w, p, ok) ==
  SocksUdpGwClient_SubmitPacket(
    BPending_Set([w EXCEPT !.dev = [waits |-> FALSE, buf |-> p]], Refill),
    p, ok)

\* The loop runs nothing more, main frees the relay, and the program ends.
terminate(w) == [SocksUdpGwClient_Free(w) EXCEPT !.exiting = "ended"]

\* The device is read: a packet, nothing yet, or an error.  The bound is on
\* the packets that are taken, not on those that are dropped.
DeviceRead(w) ==
  \/ \E p \in Packets, ok \in BOOLEAN :
       /\ count < MaxPackets \/ (con[p.local].live /\ ~Ready(con[p.local]))
       /\ Becomes(device_read_handler_send(w, p, ok))
  \/ Becomes([w EXCEPT !.dev = Start.dev])
  \/ Becomes(terminate(w))

-----------------------------------------------------------------------------
(***************************************************************************)
(* The event loop.                                                         *)
(***************************************************************************)

Pop(kind, c) ==
  jobs # <<>> /\ exiting = "no" /\ Head(jobs) = Job(kind, c)
Popped == [World EXCEPT !.jobs = Tail(@)]

RunRefill == Pop("refill", "tap") /\ DeviceRead(Popped)

RunFirst(c) ==
  Pop("first", c) /\ Becomes(connection_first_job_handler(Popped, c))

\* BufferWriter gets a place for a packet; a packet is written.
RunWriterOp(c) ==
  Pop("writerOp", c) /\ Becomes(Within(Popped, c, "writer", "busy"))
RunWriterDone(c) ==
  /\ Pop("writerDone", c)
  /\ Becomes(input_handler_done(Within(Popped, c, "writer", "none"), c))

RunSendOp(c) ==
  /\ Pop("sendOp", c)
  /\ Becomes(BPending_Set(Within(Popped, c, "send", "busy"),
                          Job("sendJob", c)))
RunSendJob(c) ==
  /\ Pop("sendJob", c)
  /\ \E o \in {"ok", "again", "error"} : Becomes(do_send(Popped, c, o))
RunSendDone(c) ==
  /\ Pop("sendDone", c)
  /\ Becomes(output_handler_done(Within(Popped, c, "send", "none"), c))

\* A reply may come from anywhere.
Replies == Remotes \cup {"elsewhere", "bad", "again", "error"}
RunRecvOp(c) == Pop("recvOp", c) /\ Becomes(recv_if_handler_recv(Popped, c))
RunRecvJob(c) ==
  /\ Pop("recvJob", c)
  /\ \E o \in Replies : Becomes(do_recv(Popped, c, o))

\* SinglePacketBuffer passes a packet on, and asks for the next one.
RunRecvDone(c) ==
  /\ Pop("recvDone", c)
  /\ Becomes(Starts(Within(Popped, c, "recv", "none"), c, "pass", "passOp"))
RunPassOp(c) == Pop("passOp", c) /\ Becomes(dgram_handler_received(Popped, c))
RunPassDone(c) ==
  /\ Pop("passDone", c)
  /\ Becomes(Starts(Within(Popped, c, "pass", "none"), c, "recv", "recvOp"))

\* What epoll_wait may return of the device and of the sockets: an error is
\* reported whether or not it is waited for.
Reports ==
  (IF dev.waits THEN {[fd |-> "tap", events |-> {"read"}]} ELSE {})
  \cup UNION {{[fd |-> c, events |-> ev] :
                 ev \in SUBSET (con[c].wait \cup {"error"}) \ {{}}} :
              c \in {d \in Locals : con[d].live}}

wait_for_events ==
  /\ jobs = <<>> /\ results = <<>> /\ exiting = "no"
  /\ \E n \in 1 .. BSYSTEM_MAX_RESULTS : \E r \in [1 .. n -> Reports] :
       /\ \A i, j \in 1 .. n : r[i].fd = r[j].fd => i = j
       /\ results' = r
  /\ UNCHANGED <<con, list, jobs, dev, count, lost, failed, exiting>>

\* Only what is still waited for is handed out.
Dispatched == [World EXCEPT !.results = Tail(@)]
Returned(fd) ==
  jobs = <<>> /\ results # <<>> /\ exiting = "no" /\ Head(results).fd = fd

DispatchDevice ==
  /\ Returned("tap")
  /\ IF dev.waits THEN DeviceRead(Dispatched) ELSE Becomes(Dispatched)

DispatchSocket(c) ==
  /\ Returned(c)
  /\ LET ev == Head(results).events \cap (con[c].wait \cup {"error"})
         outcomes == IF "error" \in ev THEN {"error"}
                     ELSE IF "write" \in ev THEN {"ok", "again", "error"}
                     ELSE Replies
         w == Check(Dispatched, con[c].live, "BReactor_Exec")
     IN  IF ev = {} THEN Becomes(w)
         ELSE \E o \in outcomes : Becomes(fd_handler(w, c, ev, o))

\* A signal ends the program; it is run again.
Signal == jobs = <<>> /\ exiting = "no" /\ Becomes(terminate(World))
Restart == exiting \in {"ended", "overrun"} /\ Becomes(Start)

AnyJob(c) ==
  \/ RunFirst(c) \/ RunWriterOp(c) \/ RunWriterDone(c)
  \/ RunSendOp(c) \/ RunSendJob(c) \/ RunSendDone(c)
  \/ RunRecvOp(c) \/ RunRecvJob(c) \/ RunRecvDone(c)
  \/ RunPassOp(c) \/ RunPassDone(c)

BReactor_Exec ==
  \/ RunRefill \/ wait_for_events \/ DispatchDevice
  \/ \E c \in Locals : AnyJob(c) \/ DispatchSocket(c)

Next == BReactor_Exec \/ Signal \/ Restart

Spec == Init /\ [][Next]_vars

-----------------------------------------------------------------------------
(***************************************************************************)
(* What the relay promises.                                                *)
(***************************************************************************)

Live == {c \in Locals : con[c].live}

\* Every variable keeps its type.  The list names each connection of the
\* tree once, and they are at most max_connections.
TypeOK ==
  /\ \A c \in Locals :
       /\ {con[c].writer, con[c].send, con[c].recv, con[c].pass}
            \subseteq Interface \ {"closed"}
       /\ con[c].wait \subseteq {"read", "write"}
       /\ con[c].remote \in Remotes \cup {"none", "elsewhere"}
       /\ con[c].accepted \in 0 .. count
  /\ IsInjective(list) /\ ToSet(list) = Live /\ Len(list) <= max_connections
  /\ count \in 0 .. MaxPackets /\ exiting \in {"no", "ended", "overrun"}

\* Two assertions can fail.  A payload of udp_mtu with its header is longer
\* than the mtu of the writer, of the buffer and of the datagram ("mtu"), and
\* no error of a socket frees its datagram ("DebugError").  No other assertion
\* of the datagram, the interfaces, the buffers or the reactor does, before
\* these or after them: no operation is started on an interface that carries
\* one, none is completed twice, no event is handed to a socket that is gone,
\* and list, tree and limit of the connections agree (TypeOK).
AssertionsHold ==
  /\ TypeOK /\ failed \subseteq {"mtu", "DebugError"}
  /\ exiting = "overrun" => "mtu" \in failed

\* A job or an event that is waiting belongs to a connection that exists,
\* although connections are freed while events wait, and although first_job
\* is not freed with them.
NothingStale ==
  /\ \A i \in DOMAIN jobs : jobs[i] = Refill \/ jobs[i].con \in Live
  /\ \A i \in DOMAIN results : results[i].fd \in Live \cup {"tap"}

\* A connection sends the packets of its own local address, in the order
\* the device gave them, none twice, each with the address it is meant for:
\* also the first one, which is read from the buffer of the device in a job,
\* and also after a reply has changed the remote address.
\* The packet that makes a connection is never dropped: the writer has a
\* place for it when the job runs.
SentAsSubmitted ==
  /\ lost = {}
  /\ jobs = <<>> => \A c \in Live : con[c].accepted > 0
  /\ \A c \in Live :
       LET q == [i \in DOMAIN con[c].queue |-> con[c].queue[i].data]
                \o con[c].writing
       IN  \A i \in DOMAIN q :
             /\ q[i].packet.local = c
             /\ q[i].header = IF q[i].packet.dns THEN "none"
                              ELSE q[i].packet.remote
             /\ i > 1 => q[i - 1].packet.id < q[i].packet.id

\* The connection that gives way is the one that took a packet longest ago.
LeastRecentFirst ==
  jobs = <<>> =>
    \A i, j \in DOMAIN list :
      i < j => con[list[i]].accepted < con[list[j]].accepted


\* When the loop has nothing to run, a connection without an error waits for
\* exactly what it needs: for the socket to take a packet if it has one, for
\* a reply once it has sent one; and it has a place for a packet unless its
\* buffer is full.
NobodyStalls ==
  jobs = <<>> =>
    \A c \in Live : ~con[c].broken =>
      /\ con[c].wait = (IF con[c].queue # <<>> THEN {"write"} ELSE {})
                       \cup (IF con[c].started THEN {"read"} ELSE {})
      /\ con[c].writer = "busy" \/ con[c].buf.input_avail < Mtu
      /\ con[c].recv = "busy" /\ con[c].pass = "none"

\* A packet to the DNS port is sent to the DNS gateway, and no other packet
\* is ("any packet arriving at out netif address to port 53 is considered a
\* DNS packet").
DnsToGateway ==
  \A c \in Live : \A i \in DOMAIN con[c].queue :
    con[c].queue[i].data.packet.dns <=> con[c].to = "dnsgw"

=============================================================================

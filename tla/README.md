# A TLA+ model of the VPN application

The repository is an Android VPN client. `app/` is the user interface: the
connect button, the server list, the advertisements. `core/` is a fork of
shadowsocks-android: the service that runs the VPN, its helper processes, and
the interface between the two. The user interface and the service run in two
processes (`:bg` is the service's). The service starts native programs, whose
source is under `core/src/main/jni`: `tun2socks` (from badvpn, with the IP stack
lwIP) carries the packets of the VPN interface to `ss-local`, and `redsocks`
(with libevent) does so for redirected connections in the transparent proxy
mode.

This directory models the concurrent parts of `core/` and the event-driven
native code that is built from the repository, checks them with TLC on small
instances, and proves the main results about the service and about the packet
buffer with TLAPS. Kotlin paths below are relative to
`core/src/main/java/com/github/shadowsocks/`, C paths to `core/src/main/jni/`.
`PROJECT.json` holds the same information for tools: the components, the runs,
the source lines of every definition, the hazards of the code and the properties
that would catch them.

## The system and what is modelled

| Part | Sources | Modules | Status |
|---|---|---|---|
| Service life cycle | `bg/BaseService.kt`, `bg/VpnService.kt` | `BaseService`, `ServiceLifecycle`, `RevokeRace`, `BaseServiceProofs`, `BaseServiceRefinement` | modelled and proved, except creation, binding and destruction by the system |
| Guarded processes | `bg/GuardedProcessPool.kt` | `GuardedProcessPool`, `GuardContract`, `GuardedProcessPoolProofs` | modelled and proved |
| Default network | `net/DefaultNetworkListener.kt` and its use in `bg/VpnService.kt` | `DefaultNetworkListener`, `DefaultNetworkListenerProofs` | modelled and proved |
| Traffic monitor | `bg/TrafficMonitor.kt` | `TrafficMonitor`, `TrafficMonitorProofs` | modelled and proved |
| Service binder and its clients | `BaseService.Binder`, `aidl/ShadowsocksConnection.kt`, `bg/ServiceNotification.kt` | `ServiceBinder`, `ServiceBinderProofs` | modelled, except `close()` on destruction |
| tun2socks: TCP | `badvpn/tun2socks/tun2socks.c`, `badvpn/socksclient/BSocksClient.c`, `badvpn/system/BConnection_unix.c`, `badvpn/base/BPending.c` | `TcpClient`, `BSocksClient`, `BPending` | modelled |
| lwIP | `badvpn/lwip/src/core/tcp*.c` | `LwipPcb`, `TcpClient` | in part: a connection as its user sees it |
| tun2socks: UDP relay | `badvpn/tun2socks/SocksUdpGwClient.c`, `badvpn/system/BDatagram_unix.c`, `badvpn/flow/`, `badvpn/structure/ChunkBuffer2.h` | `UdpRelay`, `UdpConnection`, `ChunkBuffer2`, `ChunkBuffer2Proofs` | modelled, the buffer proved |
| redsocks | `redsocks/redsocks.c`, `socks5.c`, `utils.c` | `Redsocks`, `RedsocksClient` | in part: the SOCKS5 relay with the splicing pump |
| libevent | `libevent/event.c`, `bufferevent_sock.c`, `epoll.c` | `EventBase`, `RedsocksClient` | in part: what redsocks uses |

How the parts interact. A start command makes `VpnService` start a connecting
coroutine, which registers with the default network, perhaps downloads custom
rules, creates a pool of guarded processes and the listener threads, establishes
the VPN and sends its descriptor to `tun2socks`. A stop cancels that coroutine,
shuts everything down and waits for it. The guards report a process that cannot
be kept running by `onFatal`, which is again a stop. `ss-local` reports its
traffic to a listener thread; the binder's loop passes it on and the stop adds
it to the profile. `tun2socks` ends the TCP connections of the device in lwIP
and opens one SOCKS connection for each, and relays UDP packets through one
socket per local address.

## The modules

### `BaseService`: the life cycle

All of this code runs on the main thread of `:bg`, as handlers and as
coroutines of `Dispatchers.Main` and `Main.immediate`. An action is one turn of
that thread: a handler until it returns, or a coroutine until it next suspends.

| State | Code |
|---|---|
| `state`, `connectingJob` | the fields of `Data` with these names |
| `session`, `startPending` | accepted start commands, and those not yet handled |
| `job`, `cancelled`, `tries` | where the connecting coroutine waits, whether it is cancelled, `sendFd`'s counter |
| `refs` | the other fields of `Data` and `VpnService`, each with the session that set it |
| `tasks`, `fatals` | running guards and listener threads; posted `onFatal` calls |
| `stops` | the stop coroutines, what they join and what they wait for |
| `boot` | `BootReceiver.enabled` |

| Actions | Code |
|---|---|
| `StartRefused`, `StartIgnored`, `StartInvalid`, `StartAccepted` | the returns of `onStartCommand` |
| `JobBegin` ... `JobConnected`, `JobSendFails`, `JobCancelled` | the connecting coroutine between its suspension points; it can fail after any building step |
| `stopRunner`, `StopBody`, `StopFinish` | the stop coroutine: join, release, wait, report, restart |
| `GuardFails`, `TaskEnds`, `OnFatal`, `RestartSendFails` | guards and listener threads |
| `CloseBroadcast`, `ReloadBroadcast`, `onRevoke`, `UserStart` | the environment |

Two details decide the order of steps. A coroutine that is cancelled before its
first turn never enters its body, so its `finally` does not clear
`connectingJob`. And the end of a joined coroutine resumes the joiner in the
same turn, so a job that fails and the stop it asked for are one step.

`ServiceLifecycle` is what a client sees: the order of the reported states and
the set of sessions that hold anything. `BaseService` is shown to implement it,
by TLC and by proof.

`RevokeRace` adds the one handler that is not on the main thread. The system
calls `onRevoke` on a binder thread, where `stopRunner` tests the state, writes
it and posts its coroutine in separate steps. `Prompt` keeps the main thread
from delays it does not have.

### `GuardedProcessPool`: a process and its guard

For each guard: its coroutine on the main thread (`pc`), the process, the
thread that waits for the exit code, and the rendezvous channel between the two
(`handed` is a value handed over to a receive that has not resumed yet). A
receive that is cancelled, or times out, in that window loses its value: this is
the documented prompt cancellation of kotlinx.coroutines 1.6. History: `lost` are
the guards whose exit code went that way. The thread is created by each turn of
the loop, after the restart callback of the turn before: while the callback runs
the process has no thread, and if the callback throws or the pool is closed
then, it never gets one (`unwatched`) and the clean-up waits for ever.
`GuardContract`
is what `BaseService` relies on: a guard ends only if it has failed or its pool
is closed, it fails only in an open pool, and it posts `onFatal` once.
`GuardedProcessPool` is shown to implement it.

### `DefaultNetworkListener`: the underlying network

The actor's messages are one step each. The system's default network changes
freely; callbacks arrive in order, later. The session uses the actor as
`VpnService` does: `preInit` starts, `openConnection` gets, `killProcesses`
stops, with the key the code really passes (`StopKey`). `startVpn` is split
where a callback on another thread can come between; from API 26 on callbacks
run on the main thread and cannot.

### `TrafficMonitor`: the traffic of a session

`ss-local` and its reports, the monitor's thread (which writes `current` and
then `dirty`), `requestUpdate` on the main thread (which copies and then clears
`dirty`), and the two places where a session is added to the profile.

### `ServiceBinder`: the service and its clients

On the service's side the callbacks, the bandwidth listeners, the loop and the
launches posted to the main thread; on the client's side the fields of
`ShadowsocksConnection`; in between the calls on their way. A synchronous call
made after a oneway one can arrive before it. Either process can die: the
service's takes all of this state with it, and a user interface that comes back
is another client. The notification of a session is a client on the main
thread, whose calls take effect at once. History variables record the orders of
events in which the code loses track of a client; the properties hold except in
these, and name them.

### `TcpClient`: a TCP connection through tun2socks

`LwipPcb` is a connection of lwIP as its user sees it: its state, the callbacks
that are registered, the receive window, the space left for sending, and what
`tcp_close`, `tcp_abort`, `tcp_recved` and a segment do to them. `BSocksClient`
is the connection to the SOCKS server with its handshake, `BPending` the stack
of jobs. `TcpClient` is `struct tcp_client` with all of its handlers
(`client_recv_func`, `client_sent_func`, `client_err_func`,
`client_socks_handler`, the two `..._handler_done`, and the functions that free
it), which keep their names.

There is one thread, but not one call after the other: lwIP calls a callback,
which sets jobs and runs them before it returns, and a job may free the client
the callback is for. A step is one callback, one job or one event of the
reactor; `input` says where `tcp_input` is and what it has still to hand out, and
`dead` is the variable through which a callback learns that its client is gone.
Operators take the state as a record (a *world*) and return the next, so that a
handler reads like the calls it makes; assertions of the code are collected in
`failed` instead of stopping the model, as a release build leaves them out.

### `UdpRelay`: UDP packets through tun2socks

`UdpConnection` is a connection with the objects it owns: writer, packet
buffer, datagram socket, the one-packet buffer of the way back. They are tied by
interfaces whose operations and completions are jobs. `ChunkBuffer2` is the ring
of blocks behind the packet buffer, field by field. `UdpRelay` adds
`SocksUdpGwClient` (at most `max_connections`, the least recently used gives
way), the device and `BReactor_Exec`: jobs first, the one set last before the
others, then the events that `epoll_wait` returned, one at a time. A connection
may be freed while an event for it waits among those.

`tun2socks` is built with `NDEBUG`, so an assertion that fails is recorded in
`failed` and the model goes on as the program does. Two do fail. A payload of
`udp_mtu` is let through and then gets a header, which makes it longer than the
mtu of the writer and of the buffer; when less than its length is free it leaves
the place it is written to (`overrun`), and this run of it ends there, as what
the program does next is undefined. And an error of a socket is only logged,
while `DebugError` expects the datagram to be freed: it stays, and is `broken`.

### `Redsocks`: redirected connections

`EventBase` is the event queue of libevent as far as redsocks uses it: pending
events, those of the last wait (in any order), and those activated by hand.
`RedsocksClient` is a connection from the accept to the last close: the SOCKS5
handshake on bufferevents, then the pump that splices two sockets through two
pipes. `Redsocks` adds the listener, the limit `redsocks_conn_max`, the dropping
of idle connections, the backoff timer and the end of the program. What the
kernel and the peers do happens while the loop waits. A client may be dropped by
`conn_pressure` in the middle of its own accept, which goes on with it: its state
is `freed`, and its relay is connected with a pointer to memory that is free. The
callback of that relay, or a failure to connect it, makes the rest of the
behaviour undefined. A wait may report any part
of what is ready, so something that comes between two callbacks is as good as
something that came before and was not reported yet.

## Runs

| Run | Configuration | Distinct states | Shows |
|---|---|---|---|
| `lifecycle` | `MCBaseService.cfg` | 113966 | stops exclude each other (`StopExclusive`), Stopped is released, Connected is complete, nothing is orphaned, the proxy is the session's own, a stop ends the connecting job before it releases (`StopsConnectingFirst`); `BaseService` implements `ServiceLifecycle`; Connecting is left, except during the download of the rules, and so is Stopping if the guards end (`TransientStatesEnd`) |
| `revoke_race` | `MCRevokeRace.cfg` | violation | with `onRevoke` on its own thread, a stop releases the fields of a session whose job is pending |
| `guards` | `MCGuardedProcessPool.cfg` | 557 | no guard that ends leaves a process behind, the pool implements `GuardContract`, and closing completes unless an exit code was lost or a guard was in its restart callback |
| `guard_cleanup` | `MCGuardedProcessPoolCleanUp.cfg` | violation | the clean-up waits forever for an exit code that was lost, or that no thread sends after a restart callback |
| `default_network` | `MCDefaultNetworkListener.cfg` | 42366 | every listener and the VPN know the actor's network, a quiet actor knows the system's, requests are answered |
| `traffic` | `MCTrafficMonitor.cfg` | 185194 | no traffic is charged twice unless a session is persisted twice; no negative rates unless `ss-local` restarts; every count is shown, but one that falls between two statements of `requestUpdate` |
| `binder` | `MCServiceBinder.cfg` | 679198 | the checks of the code cannot fail; once everything has arrived, who should be registered is, and nobody else |
| `tun_tcp` | `MCTcpClient.cfg` | 122371 | no assertion fails; a callback returns `ERR_ABRT` exactly if the connection was aborted inside it; a client never uses a connection lwIP has freed; window and buffer add up; nobody waits for nobody; a client that is freed has delivered everything, and one that lost a side is freed |
| `udp_relay` | `MCUdpRelay.cfg` | 1766936 | no assertion fails but those about a payload of `udp_mtu` and about a socket with an error; no job or event outlives its connection; packets are sent in order with their own address; the least recently used connection gives way; the ring is a queue until a packet that is too long overruns it; an idle connection without an error waits for exactly what it needs |
| `udp_dns` | `UdpDns.cfg` | violation | a local port that sends DNS queries and other packets gets one connection for both, with the destination of the first |
| `redsocks` | `MCRedsocks.cfg` | 894080 | no assertion fails and every descriptor is closed once; no callback runs for a freed client, with the one exception of a client that was dropped while it was accepted; the listener is closed at the limit; data goes through in order, early data included; the end of data comes after the data; a pump that has something to do has its event |
| `redsocks_backoff` | `RedsocksBackoff.cfg` | violation | a backoff that ends at the limit and finds an idle connection leaves the listener off, without a timer |

The four violations are disagreements between the code and its own comments;
`PROJECT.json` quotes the lines. `guard_cleanup` is also why `BaseService` assumes
no fairness of its guards: that a stop completes is stated for behaviours in
which the guards it waits for end (`GuardsEnd`), and `guards` says when they may
not. `redsocks_backoff` is why `redsocks` has no liveness property about
the listener.

Type invariants. Those of `BaseService`, `GuardedProcessPool`,
`DefaultNetworkListener` and `TrafficMonitor` are proved (`TypeCorrect`) and not
listed in the configurations. In `ServiceBinder`, `TcpClient`, `UdpRelay` and
`Redsocks` the type invariant is a conjunct of `AssertionsHold`.

### Bounds

- `BaseService`: `MaxSession` = 2, as a fault of one session that shows in the
  next needs two; the race of `RevokeRace` needs three. `MaxPending` = 2 lets a
  start command overtake a restart. `MaxTries` = 1 (5 in the code) still has a
  retry and a last try. Two `StopSlots`: a second stop coroutine is what
  `StopExclusive` excludes, and it could only be missed if there were no slot
  for it.
- Two guards, one with a restart callback and one without, on both sides of
  API 26.
- Two networks, two service objects, three callbacks on their way, two requests:
  enough for a callback about an old network to follow a newer one, for a
  service that follows a destroyed one, and for a request left over from a
  cancelled session.
- Two incarnations of each process, three bindings, two posted launches: a
  service that dies and comes back to the same client, a client that dies and
  comes back to the same service, and a third binding after either.
- Three units of traffic and two reports on their way: two sessions that both
  transfer, and reports that could be taken out of order.
- `TcpClient`: windows of three units and a read of two, so that a read does not
  fit and is sent in parts; four units each way, so that both windows go round;
  with a password, which is the longer handshake. Connections follow each other;
  several at a time share nothing but the stack of jobs, of which a callback runs
  its own part only.
- `UdpRelay`: three local addresses compete for two connections, three packets,
  two events per wait, a buffer of one packet (two rounds of the ring), payloads
  that are empty or of `udp_mtu` and a header of half that length, so that a
  packet fits, is too long and fits by chance, or overruns the ring. Packets go
  to the DNS port, as queries or not; replies come from there or from elsewhere.
  `UdpDns.cfg` has an ordinary destination as well. Local addresses are interchangeable and
  reduced by symmetry; only invariants are checked.
- `Redsocks`: a limit of two connections; one talks, the other is there to reach
  the limit, be dropped or replaced: its proxy is connected and stays silent. Two units to the proxy and one back through
  pipes that hold one, so that a pipe is full and a write is short; with one unit
  back, `InOrder` says of that direction only that nothing is lost or repeated.
  With a
  password the proxy may still choose the method without, so both handshakes
  occur.

Deadlock is checked in every passing run but `guards`, where a behaviour ends
when the pool is closed or a clean-up waits for ever, and `redsocks`, where it
ends with the program or is undefined.

### Fairness

`BaseService`: the main looper runs what is posted to it (`StopFinish`,
`OnFatal`, the turns of a job); a listener thread that is shut down ends
(`TaskEnds`), as its socket is. There is none on the guards, whose clean-up may
not end, and none on the download of the rules, which is a blocking read without
a time limit.
`GuardedProcessPool`: the same looper, the waiting thread, and a process that
ends when it is killed. `DefaultNetworkListener`: the system delivers its
callbacks and a turn that has begun ends. `TcpClient`: the thread goes on; the
SOCKS server is reached or refuses, takes what it is sent, and answers or breaks
the connection (`ServerTakes`, `ServerAnswers`); the peer acknowledges, or lwIP
gives it up after its retransmissions (`PeerAnswers`). That the server does its
part is an assumption: the code has no time limit of its own for it. Everywhere
else nothing is assumed of users, networks or servers.

## Proofs

All theorems hold for every value of the constants; the assumptions on these
(`ConstantsAssumption`, `CallbackAssumption`, `NetworkAssumption`,
`TrafficAssumption`, `BinderAssumption`) only say what kind of values they are,
such as numbers and sets that are not empty, and TLC evaluates them in the runs.

| Module | Theorem | Statement |
|---|---|---|
| `BaseServiceProofs` | `TypeCorrect`, `StopIsExclusive`, `JobIsReferenced`, `StoppedIsReleased`, `ConnectedIsComplete`, `NoneOrphaned`, `ProxyIsPresent` | the invariants `TypeOK`, `StopExclusive`, `JobReferenced`, `StoppedReleased`, `ConnectedComplete`, `NoOrphans`, `ProxyPresent` |
| | `ConnectingStopsFirst` | the action property `StopsConnectingFirst` |
| `BaseServiceRefinement` | `ServiceImplementsLifecycle` | `Spec => ImplementsLifecycle` |
| `GuardedProcessPoolProofs` | `TypeCorrect`, `DoneLeavesNothing`, `CodeIsKept` | the invariants `TypeOK`, `DoneIsClean`, `ExitCodeKept` |
| | `PoolImplementsContract` | `Spec => ImplementsContract` |
| `DefaultNetworkListenerProofs` | `TypeCorrect`, `GetIsHeard`, `PendingIsUnanswerable`, `ListenersAreCurrent`, `QuietActorIsCurrent`, `VpnIsCurrent` | the invariants `TypeOK`, `GetHasListener`, `PendingUnanswerable`, `ListenersCurrent`, `QuietIsCurrent`, `VpnCurrent` |
| `TrafficMonitorProofs` | `TypeCorrect`, `ChargedOnce`, `RateIsNonNegative`, `UpdateIsShown` | the invariants `TypeOK`, `CountedOnce`, `RateNonNegative`, `UpdateShown` |
| `ServiceBinderProofs` | `ChecksHold`, `ActiveConnectionIsRegistered`, `NothingIsLeftOver` | the invariants `AssertionsHold`, `ActiveIsRegistered`, `NoLeftovers` |
| `ChunkBuffer2Proofs` | `NewIsQueue`, `SubmitAppends`, `ConsumePops` | a new ring is the empty queue, a packet that is submitted is appended, one that is consumed is the first: for every size, MTU and packet that fits the place it was offered |
| | `NewHasRoom`, `SubmitKeepsRoom`, `ConsumeKeepsRoom`, `RoomUntilFull` | a ring that `calc_blocks` has sized for `num` packets takes a packet of the full MTU as long as it holds fewer than `num`, wherever they lie |

The arguments. Few of these invariants are inductive by themselves; each module
defines an `IInv` that is.

- `BaseService`. `StopsRight`: a stop that joins waits for the current session's
  cancelled job and every task is still reachable; a stop that closes has no job
  left, all fields cleared, and waits for every task there is. `PhaseRight`:
  while Connecting the session is either fresh (only what the start command set)
  or whole (everything built), depending on where the job waits; Connected is
  whole. Most handlers only call `stopRunner`, so `BeginClosing`, `BeginJoining`
  and `StopHandler` state once what that call does to the invariant.
- `BaseServiceRefinement`. The promise is about the set of sessions that hold
  anything. `OneHolder` says it has at most the current session in it.
  `NextShrinks` shows that it only shrinks, except when a session is accepted or
  refused, `Transitions` which states follow each other, and `StepLifecycle`
  puts the two together, one case per pair of states.
- `GuardedProcessPool`. `GuardRight` places the exit code of a process: with
  the waiting thread, handed to the receive, or nowhere, because it was lost or
  because the guard left its restart callback without a thread. A guard that is
  done has taken it, which is what makes its process dead and its thread gone,
  and a guard that cannot get it is never done.
- `DefaultNetworkListener`. That a quiet actor is right needs to know that
  callbacks on their way make it right: `CallsRight` says there is a sequence of
  networks that leads from the actor's, one callback at a time, to the system's,
  and that a `Lost` is always about the network the actor holds by then.
- `TrafficMonitor`. `ChargeRight` bounds what a session may still charge by the
  traffic that was not charged, for every count on its way; `OrderRight` says
  that counts on their way grow; `ShownRight` that what was copied and not
  overtaken is what the thread holds.
- `ServiceBinder`. `EventsRight`: the system reports connections and
  disconnections in turn, the last one as the service is now, and a registration
  with a service that is gone has its disconnection on the way. `AliveRight`:
  no post and no call is on its way to a service that is not there. That the
  lists are right when all is quiet needs to know what the calls on their way
  will make of them: `CallbackRight` says that the user interface is listed
  because it is registered or its unregistration is on the way, and
  `ListenRight` that the posts on their way leave it listening if it wants to,
  and nobody who has not asked, unless the call that ends it is on the way. The
  exceptions the properties name (`late`, `overtaken`, `orphaned`) are
  exceptions of these facets too.
- `ChunkBuffer2`. `IsQueue` (the property that `udp_relay` checks on real
  connections) describes the ring by the positions of its packets. The lemmas
  follow `update_input`, `update_output` and the two calls, with one case for a
  ring whose data goes round the end and one for a ring whose data does not.
  That `calc_blocks` is enough needs more than `IsQueue`: `RoomRight` says how
  much of the array lies between each packet and the end of the data, where a
  packet of the MTU did fit, and how little is lost at the end of the array.

Model-checked only: all liveness (fairness and `ENABLED` are out of the provers'
reach), and `TcpClient`, `UdpRelay` and `Redsocks` apart from the ring.
`SubmitAppends` and `ConsumePops` are about one call; that the relay makes these calls in the right
order is checked by TLC.

## What is abstracted or left out

- `proxy` stands for `proxy` and `udpFallback`; the second proxy's `ss-local`
  and monitor behave like the first's.
- Configuration files, command lines, routes and notifications' contents.
- The API 23 branches: the application's `minSdk` is 24. The null that API 28
  gets for a metered profile's underlying network.
- `TrafficMonitor` keeps sent traffic only, and rates up to the length of the
  interval. Whether the profile is in the database or in the device-protected
  copy belongs to the profile store.
- A screen that goes off while the service is Connecting is modelled: the
  notification ignores it and stays registered once Connected. No run is about
  it.
- The listener that `VpnService` never removes (`StopKey`) is modelled, and no
  document says otherwise, so no run calls it wrong. The same goes for an
  `onFatal` of an old session that stops a newer one, and for a close request
  during a restart, which is ignored.
- In the native code bytes are units or blocks, addresses are model values, and
  the text of the SOCKS messages is left out.
- In lwIP segments, sequence numbers, retransmission, out of order data, the IP
  layer and pbufs: the properties are those of the user of the stack.

## Not modelled

| Part | Why |
|---|---|
| Creation, binding and destruction of the service, `BootReceiver.kt`, `VpnRequestActivity.kt`, `Core.kt` | when the system binds, starts and destroys a service is decided by rules of the platform that the repository does not contain; `BaseService` has the start command and the boot flag, `ServiceBinder` the binding and the deaths |
| Connect flow (`MainActivity.kt` and the other activities) and advertisements (`adkfieo/`) | the order of the callbacks is that of the activity life cycle and of the advertisement library; a model would mostly be assumptions about these |
| `ProxyService.kt`, `TransproxyService.kt` | the application starts `VpnService` only; the life cycle is the same |
| `LocalSocketListener.kt` and its subclasses | a blocking accept loop with a flag that ends it; `BaseService` has each as a task that ends when it is shut down |
| Access control lists, plugins, command lines | sequential work on text within one call |
| Profiles, subscriptions, server list, history | single transactions of generated database code, and lists of the screen in front |
| Network tests, DNS resolver, executable clean-up, analytics | input and output without state that another part reads |
| redsocks: buffer pump, http and socks4 relays, DNS relays, configuration parser | a kernel with `splice` never starts the buffer pump; the service does not configure the others |
| libevent: everything redsocks does not use | other back ends, threads, signals, rate limits, http, dns, rpc |
| badvpn: client, server, ncd, udpgw and what only they use; the rest of lwIP | not built into the application (`Android.mk`), or below what the properties tell apart. This is most of the native source, so the modules cover a small share of its lines |
| shadowsocks-rust | its source is not in the repository |

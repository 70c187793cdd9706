# A TLA+ model of udpip-broadcaster

`udpip-broadcaster` (`src/src/`, C, libev) is a daemon that runs on each host of
a broadcast network. It takes UDP messages from a local application and
broadcasts them on the network, and hands UDP messages from the network to a
local application. This directory models the daemon, its startup, its command
line, and several daemons on one network, checks the models with TLC, and proves
the main safety properties with TLAPS.

Paths below are relative to `src/src/`. `libev`, the kernel's UDP sockets, the
terminal, the applications and other hosts are not part of the repository; they
are modelled from how the code uses them and are marked `external` in
`PROJECT.json`.

## 1. The system

| Component | Source | State | Operations |
|---|---|---|---|
| Configuration | `configuration.c` | one `configuration_t`, the global `__verbose` | read an option, check the whole |
| Startup | `main.c`, `udpev/udp_events.c`, `udpev/udp_socket.c` | sockets, their options and ports, watchers, forwarding addresses | `init_net_udp_events`, `init_app_udp_events`, `init_tx_udp_events`, entering the loop |
| Socket data layer | `udpev/udp_socket.c` | one `msghdr`, one buffer per watcher | build addresses, receive, find the source address, send |
| Event loop and callbacks | `udpev/udp_events.c`, `udpev/cb_udp_events.c`, libev | libev's pending events, `public_arg` of both watchers, the program counter of the one thread | `cb_common`, `cb_forward_recvfrom`, `cb_broadcast_recvfrom` |
| Network of daemons | all of the above on several hosts | receive buffers, what applications got, the thread of each daemon | relays, applications, hosts outside |
| Whole program | `main.c` | the `configuration_t` between its two halves | reading it, building the managers from it |
| Transmission test | `cb_broadcast_sendto` | a counter | never reached: `main` crashes first |
| NEC header, unused functions, printing | `__NEC__gnbtpapi_udp_msg.c`, ... | none | text only, or never called |

Interaction. `main` reads the configuration, builds two event managers and
enters `ev_loop`. Each manager has a bound receiving socket with an `EV_READ`
watcher, and an unbound socket to send through:

    network --(rx_port)------> cb_forward_recvfrom ----> 0.0.0.0:app_tx_port
    application --(app_rx_port)-> cb_broadcast_recvfrom -> 255.255.255.255:tx_port

libev calls `cb_common`, which calls the manager's callback. The callback calls
`recv_msg` (blocking `recvmsg` and the source address) and `send_message`
(`sendto`, and `getchar()` when it fails). Managers share no data; they share
the thread, so that either can stop the other.

What is hard here:

* one thread and *blocking* calls (`recvmsg`, `getchar`) behind a readiness
  notification that is acted on later, after another callback;
* a `msghdr`, a buffer and a length that are reused, where `recvmsg`
  overwrites what the next call depends on (`msg_controllen`);
* every call may fail, and most failures inside the loop are only logged;
* a callback reads one datagram of as many as there are, so that a flood into one
  socket competes with the other socket for the thread;
* the callbacks print, verbose or not, before they read and while they hold a message;
* the network loses datagrams and brings them twice, and a host with two interfaces on
  the sender's networks gets a copy by each;
* broadcasts loop back to their sender, and whether a message stops, returns or
  goes round for ever is decided by ports that several hosts choose on their own;
* one callback is several calls: peers, applications and the daemon's own
  broadcasts change its receive buffers in between, and a print to a full stdout
  or a `getchar()` stops it in the middle;
* a daemon sends on the network of its interface (`SO_BINDTODEVICE`) but receives on
  every network of its host, its receivers being bound to no device;
* ports are `int`s of which `htons` keeps 16 bits (`in_port_t`);
* other processes and the network interface change between two calls of the startup.

What makes each component correct:

* event loop: the thread only blocks where the terminal or a reader of stdout releases it; each
  direction relays in order and at most once; nothing is dropped but what the
  code says; every datagram is eventually served, and soon compared with the other
  direction's;
* network: with a careful choice of ports nothing goes round, nothing that the
  network did not duplicate is delivered twice, nothing where no port leads, and what is
  not lost arrives;
* startup: the loop is entered with two ports of its own and complete sockets, or
  not at all, and only if the interface had an address;
* configuration: what `main` gets is what the command line says.

`PROJECT.json` lists the hazards line by line, each with the properties that
would catch it. Some have none: that a cut or refused message is lost, and that
`IP_PKTINFO` depends on the bits of a pointer, is what the code does, which the
properties describe as such instead of excluding it.

## 2. Modules

| Module | Models | EXTENDS / uses |
|---|---|---|
| `UdpSocket` | addresses, `htons`, the control buffer, truncation: operators | |
| `LossyRelay` | abstract specification: a lossy, ordered, at-most-once relay | |
| `EventLoop` | one daemon in its loop | `UdpSocket`; refines `LossyRelay` |
| `EventLoopTurns` | the same, with a count of the turns that a socket waits | `EventLoop` |
| `BroadcastNet` | several daemons, one callback per step | `UdpSocket` |
| `DaemonNet` | the same with each call of a callback as a step | `BroadcastNet`, and refines it |
| `Startup` | `main` up to the loop | `UdpSocket` |
| `Configuration` | the command line | |
| `Main` | the command line, then the startup | instances of `Configuration` and `Startup` |
| `MC...` | the constants of the runs | the module they are named after |
| `EventLoop_proofs`, `BroadcastNet_proofs`, `Startup_proofs`, `Configuration_proofs` | theorems about one module | that module, `TLAPS` |
| `EventLoopTurns_proofs` | the theorem about `EventLoopTurns` | `EventLoopTurns`, `EventLoop_proofs` |
| `DaemonNet_proofs` | theorems about `DaemonNet` | `DaemonNet`, `BroadcastNet_proofs` and an instance of it |
| `Main_proofs` | theorems about `Main` | `Main`, instances of `Configuration_proofs` and `Startup_proofs` |

How they compose:

* `Main` runs `Configuration` and then `Startup` on what it leaves in the
  `configuration_t` (`Handed`), among the same other processes and interfaces.
  Its properties go from the command line to the sockets of the loop.
* `Startup!ReadyForLoop` and `OwnPorts` say what `EventLoop!Init` and the
  assumption on `Configs` in `BroadcastNet` take for granted.
* `EventLoop` is one daemon with libev in full. It shows that a callback finds
  the datagram it was invoked for, relays what it read once and in order or
  loses it, that both sockets are served, and (`EventLoopTurns`) that neither waits for
  more than two callbacks of the other: what `DaemonNet` takes for granted
  in `cb_common`, `recv_msg` and its fairness.
* `DaemonNet` is several daemons whose callbacks interleave call by call. It
  implements `BroadcastNet`, where one callback is one step
  (`CallbacksAreAtomic`), so that the invariants checked and proved there hold of it.
  Liveness is a matter of `DaemonNet`, because only there can a thread hang.

### EventLoop

| Variable | In the code |
|---|---|
| `arrived`, `read` | the kernel's receive buffer: accepted datagrams, how many `recvmsg` returned |
| `fd`, `revents` | libev's `anfds` and `pendings` |
| `pc` | the call the thread is in: `fd_reify`, `epoll_wait`, `ev_invoke_pending`, `recvmsg`, `sendto`, `getchar`, a print (`print_received`, `print_read`, `print_failed`, `print_done`); or it is gone (`segv`, `exit`) |
| `cur` | the watcher whose callback runs |
| `data`, `len`, `controllen` | `public_arg.data`, `.len`, `.msg_header->msg_controllen` |
| `pktinfo` | the `IP_PKTINFO` option, set from the low word of a pointer |
| `out`, `failed` | what `sendto` accepted and refused |
| `typed`, `eof` | stdin |

A step is one system call and the code up to the next: between them datagrams
arrive and characters are typed. A callback is `cb_common` to the first print, that
print, `recvmsg` with `get_source_address` and the filter, the print of what was
read, `sendto`, a print and `getchar` when that fails, and the print at its end.
The prints are those that do not depend on `--verbose`; each is a call that may never
return when nobody drains the standard output. A datagram is its
position in `arrived`, so that "the same message" has a meaning; its contents are
its source and its length.

Points a reader may stumble over, all as in the source:

* `local_addr` is 0.0.0.0. `init_sockaddr_in` never stores the address
  (`udp_socket.c:186`), so that the filter blocks only sources 0.0.0.0.
* Only `cb_forward_recvfrom` looks at `blocked`.
* A datagram of length 0 is relayed like any other; one of more than 5000 bytes
  is cut.
* With no `IP_PKTINFO` header `get_source_address` dereferences NULL (`segv`).
  The process is gone then, and the properties speak of what it did before.
* A `sendto` on UDP is never short, so that the second branch of
  `send_message` is not modelled; neither is a `cb_specfic` of NULL.
* That a socket libev found readable still has its datagram later, as long as
  nobody reads it, is a property of the kernel (checksums of datagrams for
  blocking sockets are verified in `poll`). It is in `epoll_wait` and `Arrive`.

### EventLoopTurns

`overtaken` counts, for each watcher, the callbacks of the other one that were entered
while it had a datagram to read. It is a history variable: every behaviour of
`EventLoop` has its counts, and no action looks at it. `ServedInTurn` bounds it by
two, however many datagrams flood the other socket, whatever fails and for as long
as the thread runs at all: it is a safety property and needs no fairness.

### BroadcastNet

One callback is one step. A node has two receive buffers and an application. It is
attached to some networks and has its interface on one of them.
`Transmit` sends to a port on a set of hosts. The network may lose the datagram at any of
them, or bring it up to `MaxCopies` times: it duplicates, and a receiver hears a
broadcast once by each network that it shares with the sender. A full buffer loses
what does not fit. What stays on a host comes once. `duplicated` remembers what came
to a host more than once in one transmission: no relay is to blame for that. `Listener` is the port map of a node: the
daemon's sockets, bound first, or the application, which listens on
`app_tx_port`. A packet carries the history of its relays, which the code does
not have: it serves the properties and the source address. `sendto` to 0.0.0.0
reaches the local host; a limited broadcast reaches all hosts on the network of
the interface, its sender included. A receiver takes what any network of its
host brings. A host outside has an address, and `cb_forward_recvfrom` hands its message
to the application, or has none yet (source 0.0.0.0), and the filter drops it. It may send to any port on which a daemon listens, the
application's side included, which makes the daemon broadcast it.

`PortHygiene`, the hypothesis of its properties, is the condition on ports that
the program does not check: no `tx_port` is the `app_rx_port` of a daemon that its
broadcasts reach, and no
`app_tx_port` is one of the daemon's own reception ports. Three of the five
configurations of the run satisfy it when every node has one of them (`Usual`,
`Wrapped`, which is `Usual` modulo 65536, and `Swapped`, where a broadcast goes
straight to applications); `Rebroadcast` and `SelfForward` break it, one at
each of its conjuncts.

### DaemonNet

Each node has the program counter of its thread, the socket whose callback runs
and the message in its hand. A callback is `cb_common`, a print, `recvmsg`,
another print, `sendto`, and `getchar` when that fails; a thread that hangs in the
print at its end is not told from one that hangs in the first of the next callback. The refinement
counts the message in hand as still in its socket, whose buffer is one longer
for it: `recv_msg` is then a stutter (or the step that drops a blocked message) and
`send_message` or its failure the one step of the callback.

`Attended(n)` is somebody who reads what node `n` prints and types a character when
`getchar` waits for it. It is a hypothesis of the liveness properties, of all
nodes in `StormFree`, and in `EndToEnd` of the sender and the receiver only.

### Startup

The calls of the straight-line code are a sequence; each action makes the next
one, and any that can fail may, which ends the process (`handle_sys_error` and
`handle_app_error` are `exit`). Others take and release ports, and the interface
appears, loses its address and disappears, between any two calls. An interface
name that the host does not have is an absent interface; so is one of 16
characters, which `read_configuration` and `init_ifreq` let pass. `NeedsInterface` says
what the look-ups are for: on a host whose interface never has an address the process
exits before the loop, however the other calls turn out.

### Main

`create_configuration` takes the steps of `Configuration`; if it returns, `main`
starts the calls of `Startup`. Each half leaves the variables of the other alone,
and the rest of the host moves during both.

### Configuration

`getopt_long`'s results are the elements of `Argvs`. `atoi` has been applied; the
text of an address stays, because the code stores it.

## 3. Runs

| Run | Expect | Question | Bounds | States |
|---|---|---|---|---|
| `EventLoop` | pass | safety of one daemon, refinement, neither direction starves the other | 2 kinds of datagram, 3 arrivals per socket, buffers of 2, 1 character, `IP_PKTINFO` on or off per socket | 3.0 million |
| `EventLoopLive` | pass | every datagram is served | 2 arrivals per socket, option on | 115 000 |
| `EventLoopUnattended` | violation | "immediate forwarding" | as `EventLoopLive` | |
| `BroadcastNet` | pass | safety of three daemons on two networks | 5 configurations per node, 1 message of an application and 1 from outside, buffers of 1, 1 copy, 2 relays per datagram | 175 000 |
| `DaemonNet` | pass | atomicity of callbacks, no storm | 2 nodes, one on two networks, 3 configurations per node, 1 message of an application and 1 of a host without address, buffers of 1, 1 copy, 2 relays per datagram | 25 000 |
| `DaemonNetEndToEnd` | pass | delivery, no second copy but the network's | 3 nodes, 2 configurations per node, 1 message of an application, buffers of 2, 2 copies, 2 relays | 30 000 |
| `BroadcastNetRebroadcast` | violation | "self-broadcast messages are not received" | 1 message | |
| `Configuration` | pass | the configuration is the command line's | a complete command line with up to 2 more options anywhere, and incomplete ones | 62 000 |
| `Startup` | pass | what the loop starts from | 6 configurations, 1 interface, 2 ephemeral ports, 2 ports of others | 1 488 |
| `Main` | pass | from the command line to the sockets | 28 command lines, the rest as above | 8 000 |
| `StartupTxTest` | violation | "loop that waits for net_events to occur" | normal mode and test | |
| `StartupAppAddress` | violation | "the given source address and port" | one configuration | |

Why the bounds suffice. In `EventLoop`, three arrivals with a buffer of two let a
buffer fill, drain and fill again, let both watchers be pending with one stale by
a whole callback, and let `msg_controllen` take both of its values and keep the
second; they are also one more than may overtake a datagram of the other socket. The
two kinds of datagram differ in everything the code looks at. The
control flow does not depend on the number of datagrams, which the theorems
confirm for any number. In `BroadcastNet`, the nodes with five configurations
contain every way one port pair can meet another, on the node itself and on
another; three nodes on two networks contain a sender, one that hears it and
answers elsewhere, and one that does not hear it. With hygienic ports a message
needs two relays (a broadcast, a hand-over to the application); a third would
show as a packet in a socket whose path has length two, which `HopBound`
excludes, so that a loop is seen before `MaxRelays` stops it. A buffer of one
fills with one message, and has no room for a second copy of it. In `DaemonNet`, either
daemon may hang at any of its calls; both hear themselves and each other, one of them
the host outside as well; one of the three configurations is not hygienic, so that
`MaxRelays` does stop messages there, and `StormFree` has hygiene as its hypothesis. In
`DaemonNetEndToEnd` every buffer has room for the two copies that the network makes of a
broadcast, and a third daemon that hears the sender may hang for ever, or relay its own
copies, whatever the other two do. In `Configuration`, two extra options are the least in which order,
repetition and early exits interact.

Deadlock is not checked where the system really stops: the daemon exits, crashes
or waits in `epoll_wait` when the bounded arrivals are used up; the network falls
silent; the parser ends. It is checked in `Startup` and `Main`, where the
environment never stops.

Fairness:

* `EventLoop`: weak fairness of the thread's steps together (one thread that the
  scheduler runs) and strong fairness of `recv_msg` for each watcher (a readable
  socket does not fail `recvmsg` for ever). Nothing is assumed of the network.
  A print is not one of those steps. `DrainedIfAttended` names what else it needs:
  somebody at the terminal, who types or closes it (`WF_vars(Terminal)`), and somebody
  who drains the standard output (`OutputDrained`). `EventLoopUnattended` grants the
  second (`FairPrintingSpec`), so that its counterexample is due to `getchar` alone.
  Serving both watchers needs no fairness of its own: one iteration invokes
  everything that is pending.
* `EventLoopTurns`, `BroadcastNet`: none; they have safety properties only.
* `DaemonNet`: weak fairness of `recvmsg` and of `sendto`, which return or fail;
  strong fairness of `recv_msg` (a readable socket does not fail for ever) and of
  `cb_common` for each socket (one iteration of libev invokes all that is pending,
  see `EventLoopLive` and `ServedInTurn`). Nothing of the applications or the networks, and nothing of the
  prints and `getchar`: `Attended` is a hypothesis where a property needs it.
* `Startup`: no call before the loop blocks. This includes its prints: whoever starts
  the daemon is assumed to read them.

### Disagreements between the source and its own comments

The violation runs show them; `PROJECT.json` quotes the lines.

1. A failed `sendto` parks the daemon in `getchar()` (`udp_socket.c:376`): no
   "immediate forwarding" of either direction until a character is typed.
2. "(self-broadcast messages are not received)": they are, and where a
   `tx_port` is the `app_rx_port` they are broadcast again.
3. `--txtest` ends in a NULL dereference (`main.c:88`).
4. `--appaddr` has no effect (`udp_socket.c:186`).

Three more are visible in the modules and have no run: by the same line as 4, the
filter for the host's own messages (`cb_udp_events.c:95`) never matches one of them
(`EventLoop!local_addr`); a datagram above 5000 bytes is forwarded cut, without notice;
and `--netrx 65536` binds a port of the
kernel's choice (`Startup!Asked`).

## 4. Proofs

Every safety property of the passing runs, and both refinements, are theorems,
proved by TLAPS for all values of the constants. Nothing is finite and no bound is
fixed: any set of datagrams, nodes, networks, configurations and messages, any
buffer size, any ports and interfaces, command lines of any length. The
assumptions are those named in the modules, and TLC evaluates them on every run:

| Module | Assumptions |
|---|---|
| `EventLoop` | `HostAddrAssumption`, `DatagramsAssumption`, `BoundsAssumption` |
| `BroadcastNet`, `DaemonNet` | `ConfigsAssumption`, `OriginAssumption`, `NetworksAssumption`, `NodesAssumption`, `BoundsAssumption` |
| `Startup` | `ConfigsAssumption` (what `check_configuration` lets pass), `PortsAssumption` (no process binds port 0) |
| `Configuration` | `ArgvsAssumption` (what `getopt_long` and `atoi` return), `TruncatedAssumption` (only an empty interface name is cut to an empty one) |
| `Main` | `PartsAssumption`: those of `Configuration`, and `PortsAssumption`. `ConfigsAssumption` is proved there |

### EventLoop_proofs

* `TypeCorrect`. `TypeOK` is not inductive: `recv_msg_error` leaves -1 in `len`.
  `TypeInv` adds that in front of `sendto` it is a length.
* `NeverBlocksInRecv`. `QueueInv`: a watcher with a pending `EV_READ` has an
  unread datagram, and so has the current one in front of `recvmsg`. The pending event
  survives the other watcher's callback because only a watcher's own
  callback reads its socket, and `cb_common` clears the event.
* `SourceAlwaysKnown`. `ControlInv`: `msg_controllen` of a socket with the
  option never falls below `PKTINFO_SPACE`; one `recvmsg` makes it exactly that.
* `RelaysInOrder`. `RelayInv` = `InHandInv` (in front of `sendto` the datagram in
  the buffer is the last one read, neither sent nor failed) and `OrderInv` (what was sent is
  increasing, already read and did not fail). The property says nothing of the
  datagram in hand, hence the strengthening.
* `NothingLostSilently`. `NoSilentLoss` is inductive relative to the above.
* `LoopImplementsRelay`. `send_message` maps to `Relay` of the datagram in
  hand, which `RelayInv` places after the last one relayed; `Arrive` maps to
  `Arrive`; every other step leaves `arrived` and `out` alone.

### EventLoopTurns_proofs

* `TurnsAreFair`. `ServedInTurn` is not inductive. `TurnsInv`: a watcher whose event
  is not pending has lost at most one turn, counting the one that the other's pending
  event is about to take; with its own event pending, two. It rests on `QueueInv` of
  `EventLoop_proofs`: a watcher stops waiting only by its own callback.

### BroadcastNet_proofs

* `CopiesFollow`: `Appended` puts copies of one packet behind a buffer and nothing else.
* `TransmitEffect`, `DequeuedEffect`, `ListenerOfSocket` say what sending, taking and
  listening do to the set of packets in a socket; each action then has one lemma that
  says where its packet comes from and goes.
* `TypeCorrect`, with the bound on every receive buffer.
* `NoMessageGoesRound` and `DeliveredOnlyWhereWired`, from `WayInv`: under
  `PortHygiene` a packet on the application's side has no relays, one on the network's
  side at most one, which is a broadcast of its origin that this port hears; what is
  delivered came that way. Neither property is inductive alone: delivery is
  decided by how the packet got into the socket.

* `DeliveredAtMostOnce`, from `OneCopyInv`: under `PortHygiene` a message of an
  application is with its application, then in one copy with its own daemon, then in
  at most one copy with every receiver, which it leaves as it is delivered.
  `AtMostOnce` counts deliveries only; that there is no second packet on its way is
  what makes it inductive. All of it exempts receivers to which the network itself
  brought the message twice (`duplicated`). Lemmas count the packets of a message in a
  sequence to which copies are appended and from which one is taken (`AddedCopies`,
  `TailCopies`), and `SendExactly` what a send adds at each receiver.

### DaemonNet_proofs

* `HandsAreRight`, from `HandInv`: a callback holds one message exactly between a
  successful `recvmsg` and the end of `sendto`, one that the filter let pass.
* `LoopsAreAtomic`, step by step: `TransmitComes` and `AtomicTransmitComes` bring a send of
  either module to one form, what comes to each node; it puts the copies behind the
  messages in hand (`TransmitBehindHands`), `recv_msg` is a stutter or drops a blocked message,
  `send_message` and its failure (a send of which nothing comes) are the callback of `BroadcastNet`, every other step is
  a stutter.
* `LoopsKeepPromises`. `Proved` is an instance of `BroadcastNet_proofs` with the
  messages in hand counted as still in their sockets. `AssumptionsHold` discharges its
  assumptions, `SameSpecification` identifies it with the instance that `DaemonNet`
  refines, and `PropertiesCarryOver` brings the properties back.

### Startup_proofs

* `NetPart`, `AppPart`, `MainPart` and the lemmas before them: the calls of each part
  of the script as a set, and that it opens a socket before anything uses it.
* The invariant is `Types`, `PortsInv` and `ScriptInv`. `ScriptInv`: while the process
  is alive, a call of the script is still to be made or has left its effect behind
  (`Done`); and while a socket is still to be opened, so is everything that uses it. The
  second part is what keeps `socket` from undoing what an option did. `PortsInv`: a port
  that is bound was asked for and has no other owner.
* `LoopIsPrepared`, because nothing is left to be made in the loop; `PortsAreOwn`,
  because two equal numbers that are not 0 would have been two owners of one port.
* `InterfaceIsNeeded`: without an address the calls that are left hold a look-up, which
  cannot succeed, so that neither the loop nor the crash of a transmission test is
  reached (`Waiting`).
* In the proofs `in_port_t` stays closed but in `PortNumbers`: the prover enumerates the
  range otherwise.

### Configuration_proofs

* The invariant says what has become of the first `Pos` options: `ReadInv`, that the
  configuration holds for each option what the last one of its kind says, as long as none
  has ended the reading; `PcInv`, which option ended it. `IsLast` describes "the last of
  its kind" so that it can be carried from one option to the next; `LastIsLastOf` and
  `FirstEndIsEnding` identify it with the operators of the properties over the whole.
* `AcceptedIsAsked` and `OutcomeIsRight` follow with all options read, or at the option
  that ended the reading.

### Main_proofs

* `ReadsCommandLine`: a behaviour of `Main` is one of `Configuration`, whose theorems
  hold of it (`CommandLineIsRead`).
* `Startup` starts in the middle of a behaviour of `Main`, among ports already taken, so
  that its lemmas are used instead of its theorems: `FreshHolds` at the step `main`,
  `TypesStep` and `ScriptStep` after it. `MainInv`: nothing is open before the
  command line is accepted; then the invariant of `Startup` holds for what was handed on.
* `SocketsAreAskedFor` and `PortsFollowCommandLine` combine the two. The second is about
  ports and the interface. The forwarding address of the network's side is 0.0.0.0 in
  it, whatever `-d` says, as the run `StartupAppAddress` shows.

### Only model-checked

Liveness under fairness (`DrainedIfAttended`, `StormFree`, `EndToEnd`, `StartupEnds`) is beyond the prover and is checked by TLC. That the four
quotations of the source are wrong is shown by counterexamples. Everything else that
a run checks is proved.

## 5. Not modelled

* `__NEC__gnbtpapi_udp_msg.c`: prints a header, is never called; `nec_mode` is
  stored and never read.
* `cb_broadcast_sendto`: unreachable, see above. `cb_print_recvfrom`,
  `recv_message`, `free_udp_events`, `new_sockaddr`, `print_eth_address`: not called.
* All text: logging, `print_configuration`, `print_hex_data`. The prints of the loop that
  do not depend on `--verbose` are modelled as calls that may not return; those of
  `--verbose` add more of the same at the same places. That
  `init_ev_io_arg` prints an uninitialised buffer (`udp_events.c:203`) is
  noted as a hazard.
* Failures of `malloc`: they end the process like any other (`handle_sys_error`).
* Signals, `EINTR`, and more than one interface address.

## 6. Plan

Done: the core (`EventLoop`, `LossyRelay`), the network (`BroadcastNet`,
`DaemonNet`), `Startup`, `Configuration`, their composition `Main`, and the theorems
above: all safety properties that the runs check. Left, in this order:

1. That the loop of `Main` starts where `EventLoop` and `BroadcastNet` start: their
   assumptions on configurations and options as a consequence of `MainInv`, for ports
   that `htons` leaves other than 0.
2. Action properties of the startup (a port that is bound is only given up with the
   process) from `ScriptInv`.
3. The parts of `StormFree` that are safety: a measure of the work that is left, which
   every step of a callback decreases under `PortHygiene`.

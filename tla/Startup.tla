------------------------------ MODULE Startup ------------------------------
(***************************************************************************)
(* main, from an accepted configuration to the event loop: the sockets and *)
(* the two watchers of normal mode, or the one of a transmission test.     *)
(* Every system call may fail, which ends the process at once; other       *)
(* processes bind and release ports, and the interface comes and goes,     *)
(* between any two of them.                                                *)
(*                                                                         *)
(* The calls are data: "calls" is what is left of the straight-line code.  *)
(***************************************************************************)
EXTENDS UdpSocket, Sequences

CONSTANTS
    Configs,    \* accepted configurations
    Ephemeral,  \* the ports that the kernel picks from
    OtherPorts, \* the ports that other processes may bind
    Interfaces  \* the names of the interfaces that the host may have

\* What main hands on of a configuration_t, but for two flags that choose what is
\* printed.
Fields == {"tx_port", "rx_port", "app_tx_port", "app_rx_port", "app_address", "if_name",
           "__tx_test"}

ASSUME ConfigsAssumption ==
    \A c \in Configs :
        /\ DOMAIN c = Fields
        /\ {c.tx_port, c.rx_port, c.app_tx_port, c.app_rx_port} \subseteq Nat \ {0}
        /\ c.__tx_test \in BOOLEAN
ASSUME PortsAssumption == Ephemeral \cup OtherPorts \subseteq in_port_t \ {0}

\* The sockets: one of each udp_events_t, named for what it is for, and one that
\* each of the two managers of normal mode forwards through.
SocketNames == {"net", "app", "net_fwd", "app_fwd", "test"}

VARIABLES
    cfg,      \* the configuration
    calls,    \* the calls that main has still to make, in order
    pc,       \* "init", "ev_loop", "EXIT_FAILURE" or "segv"
    port,     \* [SocketNames -> in_port_t], the port bound, 0 for none
    opts,     \* [SocketNames -> SUBSET options], {} for one not open
    watchers, \* the sockets whose watcher was started
    fwd_addr, \* [SocketNames -> sockaddr], forwarding_addr by the watcher's socket
    in_use,   \* the ports bound by other processes
    if_state  \* [Interfaces -> "absent", "down", "inet"], "inet": it has an address

daemonVars == <<cfg, calls, pc, port, opts, watchers, fwd_addr>>
vars == <<daemonVars, in_use, if_state>>

----------------------------------------------------------------------------
(* The calls, in the order of the source *)

Call(f, s) == [call |-> f, sock |-> s]

open_receiver_udp_socket(s) ==
    <<Call("socket", s), Call("bind", s), Call("set_msghdrs_socket", s)>>

\* Mutant: no option lets the socket broadcast, and none keeps it on the interface.
open_broadcast_udp_socket_plain(s) == <<Call("socket", s)>>

open_transmitter_udp_socket(s) == <<Call("socket", s)>>

open_broadcast_udp_socket(s) ==
    <<Call("socket", s), Call("set_broadcast_socket", s), Call("set_bindtodevice_socket", s)>>

\* The only call of it that can fail is the look-up of the interface.
init_ev_io_arg(s) == <<Call("init_if_sockaddr_in", s)>>

init_watcher(s) == init_ev_io_arg(s) \o <<Call("ev_io_start", s)>>

init_rx_udp_events(s) == open_receiver_udp_socket(s) \o init_watcher(s)

init_net_udp_events ==
    init_rx_udp_events("net")
        \o <<Call("init_if_sockaddr_in", "net")>>
        \o open_transmitter_udp_socket("net_fwd")
        \o <<Call("forwarding_addr", "net")>>

init_app_udp_events ==
    init_rx_udp_events("app")
        \o <<Call("init_if_sockaddr_in", "app")>>
        \o open_broadcast_udp_socket("app_fwd")
        \o <<Call("forwarding_addr", "app")>>

init_tx_udp_events == open_broadcast_udp_socket("test") \o init_watcher("test")

main(c) == IF c.__tx_test THEN init_tx_udp_events
                          ELSE init_net_udp_events \o init_app_udp_events

----------------------------------------------------------------------------
Making(f, s) == pc = "init" /\ calls # << >> /\ Head(calls) = Call(f, s)

Made == calls' = Tail(calls) /\ UNCHANGED <<cfg, pc, in_use, if_state>>

socket(s) ==
    /\ Making("socket", s) /\ Made
    /\ opts' = [opts EXCEPT ![s] = {"open"}]
    /\ UNCHANGED <<port, watchers, fwd_addr>>

\* Mutant: the two reception ports are mixed up.
Asked_swapped(s) ==
    LET wanted == init_any_sockaddr_in(IF s = "net" THEN cfg.app_rx_port ELSE cfg.rx_port).sin_port
    IN  IF wanted = 0 THEN Ephemeral ELSE {wanted}

\* The port that a receiver asks for, any of the kernel's if htons leaves 0.
Asked(s) ==
    LET wanted == init_any_sockaddr_in(IF s = "net" THEN cfg.rx_port ELSE cfg.app_rx_port).sin_port
    IN  IF wanted = 0 THEN Ephemeral ELSE {wanted}

Free(p) == p \notin in_use /\ \A s \in SocketNames : port[s] # p

\* Mutant: SO_REUSEADDR, the port may be bound already.
bind_reuse(s) ==
    /\ Making("bind", s) /\ Made
    /\ \E p \in Asked(s) : port' = [port EXCEPT ![s] = p]
    /\ UNCHANGED <<opts, watchers, fwd_addr>>

bind(s) ==
    /\ Making("bind", s) /\ Made
    /\ \E p \in Asked(s) : Free(p) /\ port' = [port EXCEPT ![s] = p]
    /\ UNCHANGED <<opts, watchers, fwd_addr>>

setsockopt(o, s) ==
    /\ Making(o, s) /\ Made
    /\ opts' = [opts EXCEPT ![s] = @ \union {o}]
    /\ UNCHANGED <<port, watchers, fwd_addr>>

set_msghdrs_socket_option(s) == setsockopt("set_msghdrs_socket", s)

set_broadcast_socket(s) == setsockopt("set_broadcast_socket", s)

StateOf(if_name) == IF if_name \in Interfaces THEN if_state[if_name] ELSE "absent"

\* The interface has to exist; it need not be up.
set_bindtodevice_socket(s) ==
    setsockopt("set_bindtodevice_socket", s) /\ StateOf(cfg.if_name) # "absent"

\* Mutant: a look-up that finds nothing is passed over.
init_if_sockaddr_in_unchecked(s) ==
    /\ Making("init_if_sockaddr_in", s) /\ Made
    /\ UNCHANGED <<port, opts, watchers, fwd_addr>>

\* The address it looks for is printed, and given to init_sockaddr_in, which
\* forgets it: public_arg.local_addr is 0.0.0.0 in any case.
init_if_sockaddr_in(s) ==
    /\ Making("init_if_sockaddr_in", s) /\ Made
    /\ StateOf(cfg.if_name) = "inet"
    /\ UNCHANGED <<port, opts, watchers, fwd_addr>>

ev_io_start(s) ==
    /\ Making("ev_io_start", s) /\ Made
    /\ watchers' = watchers \union {s}
    /\ UNCHANGED <<port, opts, fwd_addr>>

forwarding_addr(s) ==
    /\ Making("forwarding_addr", s) /\ Made
    /\ fwd_addr' = [fwd_addr EXCEPT ![s] =
                      IF s = "net" THEN init_sockaddr_in(cfg.app_address, cfg.app_tx_port)
                                   ELSE init_broadcast_sockaddr_in(cfg.tx_port)]
    /\ UNCHANGED <<port, opts, watchers>>

\* Mutant: a failed call is made again.
handle_sys_error_retries ==
    /\ pc = "init" /\ calls # << >>
    /\ Head(calls).call \notin {"ev_io_start", "forwarding_addr"}
    /\ UNCHANGED vars

\* Whatever call fails, handle_sys_error or handle_app_error exits, and the
\* kernel closes what was opened.
handle_sys_error ==
    /\ pc = "init" /\ calls # << >>
    /\ Head(calls).call \notin {"ev_io_start", "forwarding_addr"}
    /\ pc' = "EXIT_FAILURE"
    /\ port' = [s \in SocketNames |-> 0]
    /\ opts' = [s \in SocketNames |-> {}]
    /\ UNCHANGED <<cfg, calls, watchers, fwd_addr, in_use, if_state>>

\* main enters the loop through app_events, which a transmission test left NULL.
ev_loop ==
    /\ pc = "init" /\ calls = << >>
    /\ pc' = IF cfg.__tx_test THEN "segv" ELSE "ev_loop"
    /\ UNCHANGED <<cfg, calls, port, opts, watchers, fwd_addr, in_use, if_state>>

----------------------------------------------------------------------------
(* The environment *)

OtherBinds ==
    /\ \E p \in OtherPorts : Free(p) /\ in_use' = in_use \union {p}
    /\ UNCHANGED <<daemonVars, if_state>>

OtherReleases ==
    /\ \E p \in in_use : in_use' = in_use \ {p}
    /\ UNCHANGED <<daemonVars, if_state>>

InterfaceChanges ==
    /\ \E i \in Interfaces, state \in {"absent", "down", "inet"} :
          state # if_state[i] /\ if_state' = [if_state EXCEPT ![i] = state]
    /\ UNCHANGED <<daemonVars, in_use>>

----------------------------------------------------------------------------
Init ==
    /\ cfg \in Configs
    /\ calls = main(cfg)
    /\ pc = "init"
    /\ port = [s \in SocketNames |-> 0]
    /\ opts = [s \in SocketNames |-> {}]
    /\ watchers = {}
    /\ fwd_addr = [s \in SocketNames |-> sockaddr_in(INADDR_ANY, 0)]
    /\ in_use = {}
    /\ if_state \in [Interfaces -> {"absent", "down", "inet"}]

Daemon ==
    \/ \E s \in SocketNames :
          \/ socket(s) \/ bind(s)
          \/ set_msghdrs_socket_option(s) \/ set_broadcast_socket(s)
          \/ set_bindtodevice_socket(s)
          \/ init_if_sockaddr_in(s) \/ ev_io_start(s) \/ forwarding_addr(s)
    \/ handle_sys_error
    \/ ev_loop

Environment == OtherBinds \/ OtherReleases \/ InterfaceChanges

Next == Daemon \/ Environment

Spec == Init /\ [][Next]_vars

\* No call of main blocks before the loop.
FairSpec == Spec /\ WF_vars(Daemon)

----------------------------------------------------------------------------
(* Properties *)

\* Ports and addresses are what their types can hold.
TypeOK ==
    /\ cfg \in Configs
    /\ pc \in {"init", "ev_loop", "EXIT_FAILURE", "segv"}
    /\ port \in [SocketNames -> in_port_t]
    /\ \A s \in SocketNames : fwd_addr[s].sin_port \in in_port_t
    /\ watchers \subseteq SocketNames
    /\ in_use \subseteq OtherPorts

\* What EventLoop and BroadcastNet start from: when the loop runs both watchers
\* are started on bound sockets, each can send where it forwards to, and the one
\* that broadcasts may do so and stays on the interface.
ReadyForLoop ==
    pc = "ev_loop" =>
        /\ watchers = {"net", "app"}
        /\ \A s \in watchers : port[s] # 0 /\ "set_msghdrs_socket" \in opts[s]
        /\ opts["net_fwd"] # {}
        /\ {"set_broadcast_socket", "set_bindtodevice_socket"} \subseteq opts["app_fwd"]
        /\ fwd_addr["net"] = sockaddr_in(INADDR_ANY, cfg.app_tx_port)
        /\ fwd_addr["app"] = sockaddr_in(INADDR_BROADCAST, cfg.tx_port)

\* A daemon only runs with two ports of its own, shared with nobody: one whose two
\* reception ports are the same number for htons never gets to its loop, although
\* check_configuration let it pass.
OwnPorts ==
    pc = "ev_loop" =>
        /\ port["net"] # port["app"]
        /\ {port["net"], port["app"]} \cap in_use = {}
        /\ htons(cfg.rx_port) = htons(cfg.app_rx_port) => htons(cfg.rx_port) = 0

\* However often the interface comes and goes between the look-ups of it: where it
\* has no address at any time, one of them fails, and main ends before the loop.
NeedsInterface ==
    [](StateOf(cfg.if_name) # "inet") => [](pc \in {"init", "EXIT_FAILURE"})

\* main gets to the loop or ends, whatever the ports and the interface do.
StartupEnds == <>(pc # "init")

----------------------------------------------------------------------------
(* What the source says of itself and the code does not do *)

\* "loop that waits for net_events to occur..." (main.c:87): a process that gets
\* as far as that does not crash there.
LoopWaitsForNetEvents == pc # "segv"

\* "sending messages to the given source address and port" (udp_socket.h:124): the
\* network's watcher forwards to the address of the application.
ForwardsToAppAddress ==
    pc = "ev_loop" => fwd_addr["net"].sin_addr = cfg.app_address
=============================================================================

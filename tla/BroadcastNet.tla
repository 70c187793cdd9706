---------------------------- MODULE BroadcastNet ----------------------------
(***************************************************************************)
(* Daemons on broadcast networks.  Each node runs one daemon with a socket *)
(* for the network and a socket for its local application; each daemon     *)
(* takes the head of a socket's queue and relays it, to the network of its *)
(* interface or to its own host, to a port that the command line chose.    *)
(* A daemon sends on its interface only but receives on every network of   *)
(* its host, and which socket receives is a question of ports alone: the   *)
(* wiring decides whether a message stops, comes back, or goes round for   *)
(* ever.                                                                   *)
(*                                                                         *)
(* One callback is one step here; DaemonNet, where it is several, shows    *)
(* that nothing is lost by that.                                           *)
(***************************************************************************)
EXTENDS UdpSocket, Sequences

CONSTANTS
    Nodes,      \* the hosts that run a daemon; a node is its own address
    Outside,    \* hosts without a daemon
    NoAddress,  \* those of them that have no address, as yet
    Networks,   \* the broadcast domains
    attached,   \* [Nodes \union Outside -> SUBSET Networks]
    iface,      \* [Nodes -> Networks], the network of the daemon's interface
    Configs,    \* the configurations a daemon may have been started with
    Msgs,       \* payloads, each sent once
    origin,     \* [Msgs -> Nodes \union Outside], who sends a payload
    RcvBuf,     \* datagrams that the kernel buffers for one socket
    MaxCopies,  \* bound: copies of one broadcast that reach a socket
    MaxRelays   \* bound: relays of one datagram

Ports == Nat \ {0}

\* check_configuration wants positive ports; two sockets of a daemon that asked
\* for one port do not both bind; a port that htons maps to 0 stands for one
\* that the kernel picks, and is left out.
ASSUME ConfigsAssumption ==
    \A c \in Configs :
        /\ c \in [tx_port : Ports, rx_port : Ports, app_tx_port : Ports, app_rx_port : Ports]
        /\ htons(c.rx_port) # htons(c.app_rx_port)
        /\ \A p \in {c.tx_port, c.rx_port, c.app_tx_port, c.app_rx_port} : htons(p) # 0
ASSUME OriginAssumption ==
    /\ origin \in [Msgs -> Nodes \union Outside]
    /\ Nodes \cap Outside = {} /\ NoAddress \subseteq Outside
ASSUME NetworksAssumption ==
    /\ attached \in [Nodes \union Outside -> SUBSET Networks]
    /\ iface \in [Nodes -> Networks]
    /\ \A n \in Nodes : iface[n] \in attached[n]
ASSUME NodesAssumption ==
    {INADDR_ANY, INADDR_LOOPBACK, INADDR_BROADCAST} \cap (Nodes \union Outside) = {}
ASSUME BoundsAssumption == RcvBuf \in Nat /\ MaxCopies \in Nat /\ MaxRelays \in Nat

Sockets == {"net", "app"}

VARIABLES
    cfg,        \* [Nodes -> Configs], chosen once
    sent,       \* SUBSET Msgs: the payloads whose sender has sent them
    queue,      \* [Nodes -> [Sockets -> Seq(Packet)]], the receive buffers
    delivered,  \* [Nodes -> [Msgs -> Nat]], what the application received
    lost,       \* SUBSET Nodes: where some datagram was lost so far
    duplicated  \* [Nodes -> SUBSET Msgs]: what the network brought there twice

vars == <<cfg, sent, queue, delivered, lost, duplicated>>

----------------------------------------------------------------------------
(* Datagrams.  "path" is the history of relays, youngest last. *)

Relays == [node : Nodes, by : {"cb_broadcast_recvfrom", "cb_forward_recvfrom"}]
Packet == [msg : Msgs, path : Seq(Relays)]

\* The source address that recvmsg reports: the sender's for what came over the
\* network, 0.0.0.0 if it has no address yet, and the loopback address for what
\* stayed on the host.
src_addr(p) ==
    IF p.path = << >>
    THEN IF origin[p.msg] \in Nodes THEN INADDR_LOOPBACK
         ELSE IF origin[p.msg] \in NoAddress THEN INADDR_ANY ELSE origin[p.msg]
    ELSE LET last == p.path[Len(p.path)]
         IN  IF last.by = "cb_broadcast_recvfrom" THEN last.node ELSE INADDR_LOOPBACK

Relayed(p, n, callback) ==
    [p EXCEPT !.path = Append(@, [node |-> n, by |-> callback])]

----------------------------------------------------------------------------
(* Sockets *)

\* Who receives on a port of node r: the daemon's sockets, bound when it was
\* started, or the application, which listens where the daemon forwards to.
Listener(r, port) ==
    IF port = htons(cfg[r].rx_port) THEN "net"
    ELSE IF port = htons(cfg[r].app_rx_port) THEN "app"
    ELSE IF port = htons(cfg[r].app_tx_port) THEN "application"
    ELSE "none"

\* A receiver is bound to no device: it hears every network of its host.
OnNetwork(net) == {r \in Nodes : net \in attached[r]}

\* Mutant: what stays on the host and what goes out on the network is one.
Reached_everywhere(n, addr) == OnNetwork(iface[n])

\* Mutant: the socket that broadcasts is not bound to the interface.
Reached_unbound(n, addr) ==
    IF addr = INADDR_BROADCAST THEN UNION {OnNetwork(net) : net \in attached[n]} ELSE {n}

\* The hosts that a datagram from node n reaches: 0.0.0.0 stands for the local
\* host; a limited broadcast goes out on the interface that the socket is bound
\* to (SO_BINDTODEVICE), and is looped back to its sender.
Reached(n, addr) == IF addr = INADDR_BROADCAST THEN OnNetwork(iface[n]) ELSE {n}

\* The copies of a datagram that may come to one of the sockets it is sent to.
\* The network may lose it or bring it more than once, and it comes once for each
\* network that a host shares with the sender; what stays on a host does not leave
\* its kernel.
Copies(dest) == 0 .. (IF dest.sin_addr = INADDR_BROADCAST THEN MaxCopies ELSE 1)

\* Mutant: a receive buffer without a limit.
Fits_always(q, r, s, k) == TRUE

\* The receive buffer of the daemon's socket s on r, if it is one, takes k more.
Fits(q, r, s, k) == s \in Sockets => Len(q[r][s]) + k <= RcvBuf

Appended(seq, p, k) == seq \o [i \in 1 .. k |-> p]

\* Sends p to dest on all "hosts", with the receive buffers in q.
Transmit(q, hosts, dest, p) ==
    LET heard(r) == Listener(r, dest.sin_port)
        hearers  == {r \in hosts : heard(r) # "none"}
    IN  \E got \in [Nodes -> Copies(dest)] :
           /\ \A r \in Nodes : got[r] > 0 => r \in hearers /\ Fits(q, r, heard(r), got[r])
           /\ queue' = [r \in Nodes |-> [s \in Sockets |->
                          IF heard(r) = s THEN Appended(q[r][s], p, got[r]) ELSE q[r][s]]]
           /\ delivered' = [r \in Nodes |-> [m \in Msgs |->
                          IF heard(r) = "application" /\ m = p.msg
                          THEN delivered[r][m] + got[r] ELSE delivered[r][m]]]
           /\ lost' = lost \union {r \in hearers : got[r] = 0}
           /\ duplicated' = [r \in Nodes |->
                          IF got[r] > 1 THEN duplicated[r] \union {p.msg} ELSE duplicated[r]]

\* Mutant: the message stays in the socket (MSG_PEEK).
Dequeued_peeks(n, s) == queue

Dequeued(n, s) == [queue EXCEPT ![n][s] = Tail(@)]

\* sendto with failures: one that fails outright loses the message everywhere.
sendto(q, n, dest, p) == Transmit(q, Reached(n, dest.sin_addr), dest, p)

----------------------------------------------------------------------------
(* Senders *)

\* An application hands a message to the daemon of its node.
AppSend(n, m) ==
    /\ origin[m] = n /\ m \notin sent
    /\ sent' = sent \union {m}
    /\ Transmit(queue, {n}, sockaddr_in(INADDR_LOOPBACK, cfg[n].app_rx_port),
                [msg |-> m, path |-> << >>])
    /\ UNCHANGED cfg

BoundPorts == UNION {{cfg[n].rx_port, cfg[n].app_rx_port} : n \in Nodes}

\* A host outside broadcasts to a port on which some daemon listens; what it
\* sends to one host is a broadcast that is lost everywhere else.
OutsideSend(m) ==
    /\ origin[m] \in Outside /\ m \notin sent
    /\ sent' = sent \union {m}
    /\ \E net \in attached[origin[m]], port \in BoundPorts :
          Transmit(queue, OnNetwork(net), sockaddr_in(INADDR_BROADCAST, port),
                   [msg |-> m, path |-> << >>])
    /\ UNCHANGED cfg

----------------------------------------------------------------------------
(* The callbacks *)

\* forwarding_addr of the application's watcher (init_app_udp_events).
broadcast_addr(n) == init_broadcast_sockaddr_in(cfg[n].tx_port)

\* Mutant: main gives init_net_udp_events the other application port.
forwarding_addr_swapped(n) == init_sockaddr_in("app_address", cfg[n].app_rx_port)

\* forwarding_addr of the network's watcher (init_net_udp_events): 0.0.0.0,
\* whatever app_address the command line gave.
forwarding_addr(n) == init_sockaddr_in("app_address", cfg[n].app_tx_port)

\* Application level to network level.  The source is not looked at.
cb_broadcast_recvfrom(n) ==
    /\ queue[n]["app"] # << >>
    /\ LET p == Head(queue[n]["app"])
       IN  /\ Len(p.path) < MaxRelays
           /\ sendto(Dequeued(n, "app"), n, broadcast_addr(n),
                           Relayed(p, n, "cb_broadcast_recvfrom"))
    /\ UNCHANGED <<cfg, sent>>

\* public_arg.local_addr, built from the address of the node's interface.
Blocked(n, p) == src_addr(p) = init_sockaddr_in(n, cfg[n].rx_port).sin_addr

\* Network level to application level.
cb_forward_recvfrom(n) ==
    /\ queue[n]["net"] # << >>
    /\ LET p == Head(queue[n]["net"])
       IN  \/ /\ Blocked(n, p)
              /\ queue' = Dequeued(n, "net")
              /\ UNCHANGED <<delivered, lost, duplicated>>
           \/ /\ ~Blocked(n, p)
              /\ Len(p.path) < MaxRelays
              /\ sendto(Dequeued(n, "net"), n, forwarding_addr(n),
                              Relayed(p, n, "cb_forward_recvfrom"))
    /\ UNCHANGED <<cfg, sent>>

----------------------------------------------------------------------------
Init ==
    /\ cfg \in [Nodes -> Configs]
    /\ sent = {}
    /\ queue = [n \in Nodes |-> [s \in Sockets |-> << >>]]
    /\ delivered = [n \in Nodes |-> [m \in Msgs |-> 0]]
    /\ lost = {}
    /\ duplicated = [n \in Nodes |-> {}]

Daemon(n) == cb_broadcast_recvfrom(n) \/ cb_forward_recvfrom(n)

Next ==
    \/ \E n \in Nodes, m \in Msgs : AppSend(n, m)
    \/ \E m \in Msgs : OutsideSend(m)
    \/ \E n \in Nodes : Daemon(n)

Spec == Init /\ [][Next]_vars

----------------------------------------------------------------------------
(* What a careful choice of ports gives *)

\* No daemon sends to a port on which a daemon would relay the message again: not
\* to the application's side of any daemon on its network, nor to its own sockets.
PortHygiene ==
    \A n \in Nodes :
        /\ \A r \in OnNetwork(iface[n]) : htons(cfg[n].tx_port) # htons(cfg[r].app_rx_port)
        /\ htons(cfg[n].app_tx_port) \notin {htons(cfg[n].rx_port), htons(cfg[n].app_rx_port)}

\* Every variable has its type, and no socket holds more than its buffer takes.
TypeOK ==
    /\ cfg \in [Nodes -> Configs]
    /\ sent \subseteq Msgs
    /\ queue \in [Nodes -> [Sockets -> Seq(Packet)]]
    /\ \A n \in Nodes, s \in Sockets : Len(queue[n][s]) <= RcvBuf
    /\ delivered \in [Nodes -> [Msgs -> Nat]]
    /\ lost \subseteq Nodes
    /\ duplicated \in [Nodes -> SUBSET Msgs]

Queued(n, s) == {queue[n][s][i] : i \in 1 .. Len(queue[n][s])}

\* With such ports no datagram in a socket was relayed more than once, and none
\* that an application socket holds was relayed at all: there is no way round.
HopBound ==
    PortHygiene =>
        \A n \in Nodes : /\ \A p \in Queued(n, "net") : Len(p.path) <= 1
                         /\ \A p \in Queued(n, "app") : p.path = << >>

\* What Listener says of the wire: who hears the broadcasts of o.
Hears(r, o) ==
    /\ iface[o] \in attached[r]
    /\ htons(cfg[o].tx_port) \in {htons(cfg[r].rx_port), htons(cfg[r].app_tx_port)}

\* A message is delivered only where a port pair of the two configurations and
\* the network of the sender's interface connect its sender with the receiver.
Wiring ==
    PortHygiene =>
        \A m \in Msgs, r \in Nodes :
            origin[m] \in Nodes /\ delivered[r][m] > 0 => Hears(r, origin[m])

\* An application gets each message of another application at most once, whatever
\* the broadcast that loops back to the sender does, unless the network itself
\* brought that message to its host twice.
AtMostOnce ==
    PortHygiene =>
        \A m \in Msgs, r \in Nodes :
            origin[m] \in Nodes /\ m \notin duplicated[r] => delivered[r][m] <= 1

----------------------------------------------------------------------------
(* What the source says of itself and the code does not do *)

\* "(self-broadcast messages are not received)" (cb_udp_events.c:129), said of the
\* read in cb_broadcast_recvfrom: no node broadcasts what it has broadcast before.
SelfBroadcastNotReceived ==
    \A n \in Nodes, s \in Sockets : \A p \in Queued(n, s) :
        \A i, j \in 1 .. Len(p.path) :
            /\ p.path[i].by = "cb_broadcast_recvfrom"
            /\ p.path[j].by = "cb_broadcast_recvfrom"
            /\ p.path[i].node = p.path[j].node
            => i = j
=============================================================================

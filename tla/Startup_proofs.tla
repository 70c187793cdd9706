--------------------------- MODULE Startup_proofs ---------------------------
(***************************************************************************)
(* Proofs about Startup, for all accepted configurations, all ports and    *)
(* all interfaces: what the straight-line code has done when it reaches    *)
(* the loop, whatever other processes did meanwhile.                       *)
(***************************************************************************)
EXTENDS Startup, SequenceTheorems, TLAPS

CallNames ==
    {"socket", "bind", "set_msghdrs_socket", "set_broadcast_socket", "set_bindtodevice_socket",
     "init_if_sockaddr_in", "ev_io_start", "forwarding_addr"}
CallSet == [call : CallNames, sock : SocketNames]
Options == {"open", "set_msghdrs_socket", "set_broadcast_socket", "set_bindtodevice_socket"}
OptionCalls == Options \ {"open"}

\* What forwarding_addr can be: init_sockaddr_in forgets every other address.
Addresses == [sin_addr : {INADDR_ANY, INADDR_BROADCAST}, sin_port : in_port_t]

Elements(seq) == {seq[i] : i \in 1 .. Len(seq)}

\* Nothing is done with a socket before socket() has opened it.
SocketFirst(seq) ==
    \A i, j \in 1 .. Len(seq) :
        i < j /\ seq[j].call = "socket" => seq[i].sock # seq[j].sock

Script == Elements(main(cfg))

----------------------------------------------------------------------------
(* The inductive invariant *)

Types ==
    /\ TypeOK
    /\ calls \in Seq(CallSet)
    /\ opts \in [SocketNames -> SUBSET Options]
    /\ fwd_addr \in [SocketNames -> Addresses]

\* A port has one owner, and only the owner it was asked for.
PortsInv ==
    \A s \in SocketNames : port[s] # 0 =>
        /\ Call("bind", s) \in Script
        /\ port[s] \in Asked(s)
        /\ port[s] \notin in_use
        /\ \A t \in SocketNames : t # s => port[t] # port[s]

ForwardTo(s) == IF s = "net" THEN init_sockaddr_in(cfg.app_address, cfg.app_tx_port)
                             ELSE init_broadcast_sockaddr_in(cfg.tx_port)

\* What call c has left behind.
Done(c) ==
    /\ c.call = "socket"              => opts[c.sock] # {}
    /\ c.call = "bind"                => port[c.sock] # 0
    /\ c.call \in OptionCalls         => c.call \in opts[c.sock]
    /\ c.call = "init_if_sockaddr_in" => cfg.if_name \in Interfaces
    /\ c.call = "ev_io_start"         => c.sock \in watchers
    /\ c.call = "forwarding_addr"     => fwd_addr[c.sock] = ForwardTo(c.sock)

\* A call of the script is still to be made or has left its effect behind; while
\* a socket is still to be opened, so is everything that uses it.
ScriptInv ==
    pc \in {"init", "ev_loop"} =>
        /\ SocketFirst(calls)
        /\ Elements(calls) \subseteq Script
        /\ \A c \in Script : c \in Elements(calls) \/ Done(c)
        /\ \A c, d \in Script :
              c \in Elements(calls) /\ c.call = "socket" /\ d.sock = c.sock => d \in Elements(calls)
        /\ \A s \in watchers : Call("ev_io_start", s) \in Script
        /\ pc = "ev_loop" => calls = << >> /\ ~cfg.__tx_test

----------------------------------------------------------------------------
(* The script *)

\* A part of the script: the calls in S, sockets opened before they are used.
Part(seq, S) == seq \in Seq(CallSet) /\ Elements(seq) = S /\ SocketFirst(seq)

LEMMA ConcatParts ==
    ASSUME NEW a, NEW b, NEW A, NEW B, Part(a, A), Part(b, B),
           \A x \in A, y \in B : y.call = "socket" => x.sock # y.sock
    PROVE  Part(a \o b, A \union B)
<1>1. a \in Seq(CallSet) /\ b \in Seq(CallSet)
  BY DEF Part
<1> DEFINE ab == a \o b
<1>2. /\ Len(a) \in Nat /\ Len(b) \in Nat /\ ab \in Seq(CallSet) /\ Len(ab) = Len(a) + Len(b)
      /\ \A i \in 1 .. Len(a) + Len(b) : ab[i] = IF i <= Len(a) THEN a[i] ELSE b[i - Len(a)]
  BY <1>1, ConcatProperties, LenProperties
<1> HIDE DEF ab
<1>3. \A i \in 1 .. Len(ab) : \/ i \in 1 .. Len(a) /\ ab[i] = a[i]
                              \/ i > Len(a) /\ i - Len(a) \in 1 .. Len(b) /\ ab[i] = b[i - Len(a)]
  BY <1>2
<1>4. \A i \in 1 .. Len(a) : i \in 1 .. Len(ab) /\ ab[i] = a[i]
  BY <1>2
<1>5. ASSUME NEW i \in 1 .. Len(b) PROVE i + Len(a) \in 1 .. Len(ab) /\ ab[i + Len(a)] = b[i]
  <2>1. i + Len(a) \in 1 .. Len(a) + Len(b) /\ ~(i + Len(a) <= Len(a)) /\ (i + Len(a)) - Len(a) = i
    BY <1>2
  <2> QED
    BY <1>2, <2>1
<1>6. Elements(ab) = A \union B
  <2>1. A = {a[i] : i \in 1 .. Len(a)} /\ B = {b[i] : i \in 1 .. Len(b)}
    BY DEF Part, Elements
  <2>2. ASSUME NEW i \in 1 .. Len(ab) PROVE ab[i] \in A \union B
    BY <1>3, <2>1
  <2>3. ASSUME NEW x \in A \union B PROVE \E i \in 1 .. Len(ab) : ab[i] = x
    BY <1>4, <1>5, <2>1
  <2> QED
    BY <2>2, <2>3 DEF Elements
<1>7. SocketFirst(ab)
  <2> SUFFICES ASSUME NEW i \in 1 .. Len(ab), NEW j \in 1 .. Len(ab), i < j, ab[j].call = "socket"
               PROVE  ab[i].sock # ab[j].sock
    BY DEF SocketFirst
  <2>1. CASE j \in 1 .. Len(a)
    <3>1. i \in 1 .. Len(a) /\ ab[i] = a[i] /\ ab[j] = a[j]
      BY <1>2, <1>4, <2>1
    <3> QED
      BY <2>1, <3>1 DEF Part, SocketFirst
  <2>2. CASE i \in 1 .. Len(a) /\ j > Len(a)
    <3>1. ab[i] \in A /\ ab[j] \in B
      <4>1. A = {a[k] : k \in 1 .. Len(a)} /\ B = {b[k] : k \in 1 .. Len(b)}
        BY DEF Part, Elements
      <4>2. ab[i] = a[i] /\ j - Len(a) \in 1 .. Len(b) /\ ab[j] = b[j - Len(a)]
        BY <1>2, <1>3, <1>4, <2>2
      <4> QED
        BY <2>2, <4>1, <4>2
    <3> QED
      BY <3>1
  <2>3. CASE i > Len(a) /\ j > Len(a)
    <3>1. /\ i - Len(a) \in 1 .. Len(b) /\ j - Len(a) \in 1 .. Len(b) /\ i - Len(a) < j - Len(a)
          /\ ab[i] = b[i - Len(a)] /\ ab[j] = b[j - Len(a)]
      BY <1>2, <1>3, <2>3
    <3> QED
      BY <3>1 DEF Part, SocketFirst
  <2> QED
    BY <1>2, <2>1, <2>2, <2>3
<1> QED
  BY <1>2, <1>6, <1>7 DEF Part, ab

LEMMA OneCall ==
    ASSUME NEW f \in CallNames, NEW s \in SocketNames
    PROVE  Part(<<Call(f, s)>>, {Call(f, s)})
<1>1. Call(f, s) \in CallSet
  BY DEF Call, CallSet
<1> DEFINE seq == <<Call(f, s)>>
<1>2. seq \in Seq(CallSet) /\ Len(seq) = 1 /\ seq[1] = Call(f, s)
  BY <1>1
<1> HIDE DEF seq
<1>3. \A i \in 1 .. Len(seq) : i = 1
  BY <1>2
<1>4. Elements(seq) = {Call(f, s)}
  BY <1>2, <1>3 DEF Elements
<1>5. SocketFirst(seq)
  BY <1>3 DEF SocketFirst
<1> QED
  BY <1>2, <1>4, <1>5 DEF Part, seq

LEMMA CallEquality ==
    \A f, s, g, t : /\ Call(f, s).call = f /\ Call(f, s).sock = s
                    /\ Call(f, s) = Call(g, t) => f = g /\ s = t
BY DEF Call

LEMMA ThreeCalls ==
    ASSUME NEW f \in CallNames \ {"socket"}, NEW g \in CallNames \ {"socket"}, NEW s \in SocketNames
    PROVE  Part(<<Call("socket", s), Call(f, s), Call(g, s)>>,
                {Call("socket", s), Call(f, s), Call(g, s)})
<1>1. Call("socket", s) \in CallSet /\ Call(f, s) \in CallSet /\ Call(g, s) \in CallSet
  BY DEF Call, CallSet, CallNames
<1>2. /\ Call("socket", s).call = "socket" /\ Call(f, s).call # "socket"
      /\ Call(g, s).call # "socket"
  BY DEF Call
<1> DEFINE seq == <<Call("socket", s), Call(f, s), Call(g, s)>>
<1>3. /\ seq \in Seq(CallSet) /\ Len(seq) = 3
      /\ seq[1] = Call("socket", s) /\ seq[2] = Call(f, s) /\ seq[3] = Call(g, s)
  BY <1>1
<1> HIDE DEF seq
<1>4. \A i \in 1 .. Len(seq) : i = 1 \/ i = 2 \/ i = 3
  BY <1>3
<1>5. Elements(seq) = {Call("socket", s), Call(f, s), Call(g, s)}
  BY <1>3, <1>4 DEF Elements
<1>6. SocketFirst(seq)
  BY <1>2, <1>3, <1>4 DEF SocketFirst
<1> QED
  BY <1>3, <1>5, <1>6 DEF Part, seq

\* The calls of a manager's receiver, of its watcher and of its transmitter.
ReceiverCalls(s) ==
    {Call("socket", s), Call("bind", s), Call("set_msghdrs_socket", s)}
        \union ({Call("init_if_sockaddr_in", s)} \union {Call("ev_io_start", s)})

BroadcastCalls(s) ==
    {Call("socket", s), Call("set_broadcast_socket", s), Call("set_bindtodevice_socket", s)}

NetCalls ==
    ((ReceiverCalls("net") \union {Call("init_if_sockaddr_in", "net")})
        \union {Call("socket", "net_fwd")}) \union {Call("forwarding_addr", "net")}

AppCalls ==
    ((ReceiverCalls("app") \union {Call("init_if_sockaddr_in", "app")})
        \union BroadcastCalls("app_fwd")) \union {Call("forwarding_addr", "app")}

TestCalls ==
    BroadcastCalls("test") \union ({Call("init_if_sockaddr_in", "test")} \union {Call("ev_io_start", "test")})

LEMMA WatcherPart ==
    ASSUME NEW s \in SocketNames
    PROVE  Part(init_watcher(s), {Call("init_if_sockaddr_in", s)} \union {Call("ev_io_start", s)})
<1>1. /\ Part(<<Call("init_if_sockaddr_in", s)>>, {Call("init_if_sockaddr_in", s)})
      /\ Part(<<Call("ev_io_start", s)>>, {Call("ev_io_start", s)})
  BY OneCall DEF CallNames
<1> QED
  BY <1>1, ConcatParts, CallEquality DEF init_watcher, init_ev_io_arg

LEMMA ReceiverPart ==
    ASSUME NEW s \in SocketNames
    PROVE  Part(init_rx_udp_events(s), ReceiverCalls(s))
<1>1. Part(open_receiver_udp_socket(s),
           {Call("socket", s), Call("bind", s), Call("set_msghdrs_socket", s)})
  BY ThreeCalls DEF CallNames, open_receiver_udp_socket
<1> QED
  BY <1>1, WatcherPart, ConcatParts, CallEquality DEF init_rx_udp_events, ReceiverCalls

LEMMA BroadcastPart ==
    ASSUME NEW s \in SocketNames
    PROVE  Part(open_broadcast_udp_socket(s), BroadcastCalls(s))
BY ThreeCalls DEF CallNames, open_broadcast_udp_socket, BroadcastCalls

LEMMA NetPart == Part(init_net_udp_events, NetCalls)
<1>0. {"net", "net_fwd"} \subseteq SocketNames
  BY DEF SocketNames
<1>1. Part(init_rx_udp_events("net"), ReceiverCalls("net"))
  BY <1>0, ReceiverPart
<1>2. /\ Part(<<Call("init_if_sockaddr_in", "net")>>, {Call("init_if_sockaddr_in", "net")})
      /\ Part(open_transmitter_udp_socket("net_fwd"), {Call("socket", "net_fwd")})
      /\ Part(<<Call("forwarding_addr", "net")>>, {Call("forwarding_addr", "net")})
  BY <1>0, OneCall DEF CallNames, open_transmitter_udp_socket
<1> DEFINE S1 == ReceiverCalls("net") \union {Call("init_if_sockaddr_in", "net")}
           S2 == S1 \union {Call("socket", "net_fwd")}
<1>3. \A x \in S1 : x.sock = "net"
  BY CallEquality DEF ReceiverCalls
<1>4. Part(init_rx_udp_events("net") \o <<Call("init_if_sockaddr_in", "net")>>, S1)
  BY <1>1, <1>2, ConcatParts, CallEquality
<1> HIDE DEF S1
<1>5. Part((init_rx_udp_events("net") \o <<Call("init_if_sockaddr_in", "net")>>)
             \o open_transmitter_udp_socket("net_fwd"), S2)
  BY <1>2, <1>3, <1>4, ConcatParts, CallEquality
<1> HIDE DEF S2
<1>6. Part(init_net_udp_events, S2 \union {Call("forwarding_addr", "net")})
  BY <1>2, <1>5, ConcatParts, CallEquality DEF init_net_udp_events
<1> QED
  BY <1>6 DEF S1, S2, NetCalls

LEMMA AppPart == Part(init_app_udp_events, AppCalls)
<1>0. {"app", "app_fwd"} \subseteq SocketNames
  BY DEF SocketNames
<1>1. Part(init_rx_udp_events("app"), ReceiverCalls("app"))
  BY <1>0, ReceiverPart
<1>2. /\ Part(<<Call("init_if_sockaddr_in", "app")>>, {Call("init_if_sockaddr_in", "app")})
      /\ Part(open_broadcast_udp_socket("app_fwd"), BroadcastCalls("app_fwd"))
      /\ Part(<<Call("forwarding_addr", "app")>>, {Call("forwarding_addr", "app")})
  BY <1>0, OneCall, BroadcastPart DEF CallNames
<1> DEFINE S1 == ReceiverCalls("app") \union {Call("init_if_sockaddr_in", "app")}
           S2 == S1 \union BroadcastCalls("app_fwd")
<1>3. /\ \A x \in S1 : x.sock = "app"
      /\ \A y \in BroadcastCalls("app_fwd") : y.sock = "app_fwd"
  BY CallEquality DEF ReceiverCalls, BroadcastCalls
<1>4. Part(init_rx_udp_events("app") \o <<Call("init_if_sockaddr_in", "app")>>, S1)
  BY <1>1, <1>2, ConcatParts, CallEquality
<1> HIDE DEF S1
<1>5. Part((init_rx_udp_events("app") \o <<Call("init_if_sockaddr_in", "app")>>)
             \o open_broadcast_udp_socket("app_fwd"), S2)
  BY <1>2, <1>3, <1>4, ConcatParts
<1> HIDE DEF S2
<1>6. Part(init_app_udp_events, S2 \union {Call("forwarding_addr", "app")})
  BY <1>2, <1>5, ConcatParts, CallEquality DEF init_app_udp_events
<1> QED
  BY <1>6 DEF S1, S2, AppCalls

\* What main calls, with every socket opened before it is used.
LEMMA MainPart ==
    ASSUME NEW c
    PROVE  Part(main(c), IF c.__tx_test THEN TestCalls ELSE NetCalls \union AppCalls)
<1>1. Part(init_tx_udp_events, TestCalls)
  <2>1. "test" \in SocketNames
    BY DEF SocketNames
  <2>2. \A x \in BroadcastCalls("test"), y \in {Call("init_if_sockaddr_in", "test")}
                                                 \union {Call("ev_io_start", "test")} :
           y.call # "socket"
    BY CallEquality
  <2> QED
    BY <2>1, <2>2, BroadcastPart, WatcherPart, ConcatParts DEF init_tx_udp_events, TestCalls
<1>2. Part(init_net_udp_events \o init_app_udp_events, NetCalls \union AppCalls)
  <2>1. /\ \A x \in NetCalls : x.sock \in {"net", "net_fwd"}
        /\ \A y \in AppCalls : y.sock \in {"app", "app_fwd"}
    BY CallEquality DEF NetCalls, AppCalls, ReceiverCalls, BroadcastCalls
  <2> QED
    BY <2>1, NetPart, AppPart, ConcatParts
<1> QED
  BY <1>1, <1>2 DEF main

----------------------------------------------------------------------------
(* Types and ports *)

LEMMA PortNumbers ==
    /\ \A p \in Nat : htons(p) \in in_port_t
    /\ htons(0) = 0
    /\ 0 \in in_port_t
<1>1. ASSUME NEW p \in Nat PROVE htons(p) \in in_port_t
  <2>1. htons(p) \in Nat /\ htons(p) <= UINT16_MAX
    BY DEF htons, UINT16_MAX
  <2>2. UINT16_MAX \in Nat
    BY DEF UINT16_MAX
  <2> QED
    BY <2>1, <2>2 DEF in_port_t
<1>2. htons(0) = 0
  BY DEF htons, UINT16_MAX
<1>3. 0 \in in_port_t
  <2>1. UINT16_MAX \in Nat
    BY DEF UINT16_MAX
  <2> QED
    BY <2>1 DEF in_port_t
<1> QED
  BY <1>1, <1>2, <1>3

LEMMA AskedPorts ==
    ASSUME cfg \in Configs, NEW s, NEW p \in Asked(s)
    PROVE  p \in in_port_t \ {0}
<1>1. cfg.rx_port \in Nat /\ cfg.app_rx_port \in Nat
  BY ConfigsAssumption
<1>2. /\ htons(cfg.rx_port) \in in_port_t /\ htons(cfg.app_rx_port) \in in_port_t
  BY <1>1, PortNumbers
<1>3. Ephemeral \subseteq in_port_t \ {0}
  BY PortsAssumption
<1> QED
  BY <1>2, <1>3 DEF Asked, init_any_sockaddr_in, sockaddr_in

LEMMA ForwardAddresses ==
    ASSUME cfg \in Configs, NEW s
    PROVE  ForwardTo(s) \in Addresses
<1>1. cfg.app_tx_port \in Nat /\ cfg.tx_port \in Nat
  BY ConfigsAssumption
<1>2. htons(cfg.app_tx_port) \in in_port_t /\ htons(cfg.tx_port) \in in_port_t
  BY <1>1, PortNumbers
<1> QED
  BY <1>2 DEF ForwardTo, init_sockaddr_in, init_broadcast_sockaddr_in, sockaddr_in, Addresses

LEMMA HeadAndTail ==
    ASSUME NEW seq \in Seq(CallSet), seq # << >>
    PROVE  /\ Tail(seq) \in Seq(CallSet)
           /\ Head(seq) \in Elements(seq)
           /\ Elements(Tail(seq)) \subseteq Elements(seq)
           /\ Elements(seq) \subseteq Elements(Tail(seq)) \union {Head(seq)}
           /\ SocketFirst(seq) =>
                 /\ SocketFirst(Tail(seq))
                 /\ \A c \in Elements(Tail(seq)) : c.call = "socket" => Head(seq).sock # c.sock
<1> DEFINE rest == Tail(seq)
           head == Head(seq)
<1>1. /\ Len(seq) \in Nat \ {0} /\ head = seq[1]
      /\ rest \in Seq(CallSet) /\ Len(rest) = Len(seq) - 1
      /\ \A i \in 1 .. Len(rest) : rest[i] = seq[i + 1]
  OBVIOUS
<1> HIDE DEF rest, head
<1>2. \A i \in 1 .. Len(rest) : i + 1 \in 1 .. Len(seq) /\ 1 < i + 1 /\ rest[i] = seq[i + 1]
  BY <1>1
<1>3. 1 \in 1 .. Len(seq) /\ \A i \in 1 .. Len(seq) : i # 1 => i - 1 \in 1 .. Len(rest) /\ rest[i - 1] = seq[i]
  BY <1>1
<1>4. head \in Elements(seq)
  BY <1>1, <1>3 DEF Elements
<1>5. Elements(rest) \subseteq Elements(seq)
  BY <1>2 DEF Elements
<1>6. Elements(seq) \subseteq Elements(rest) \union {head}
  BY <1>1, <1>3 DEF Elements
<1>7. ASSUME SocketFirst(seq)
      PROVE  /\ SocketFirst(rest)
             /\ \A c \in Elements(rest) : c.call = "socket" => head.sock # c.sock
  <2>1. ASSUME NEW i \in 1 .. Len(rest), NEW j \in 1 .. Len(rest), i < j, rest[j].call = "socket"
        PROVE  rest[i].sock # rest[j].sock
    <3>1. i + 1 < j + 1
      BY <2>1, <1>1
    <3> QED
      BY <1>2, <1>7, <2>1, <3>1 DEF SocketFirst
  <2>2. ASSUME NEW i \in 1 .. Len(rest), rest[i].call = "socket" PROVE head.sock # rest[i].sock
    BY <1>1, <1>2, <1>3, <1>7, <2>2 DEF SocketFirst
  <2> QED
    BY <2>1, <2>2 DEF SocketFirst, Elements
<1> QED
  BY <1>1, <1>4, <1>5, <1>6, <1>7 DEF rest, head

\* What Init says of main's own state, whatever the ports and the interfaces are.
Fresh ==
    /\ cfg \in Configs
    /\ calls = main(cfg)
    /\ pc = "init"
    /\ port = [s \in SocketNames |-> 0]
    /\ opts = [s \in SocketNames |-> {}]
    /\ watchers = {}
    /\ fwd_addr = [s \in SocketNames |-> sockaddr_in(INADDR_ANY, 0)]

LEMMA FreshHolds == Fresh /\ in_use \subseteq OtherPorts => Types /\ PortsInv /\ ScriptInv
<1> SUFFICES ASSUME Fresh, in_use \subseteq OtherPorts PROVE Types /\ PortsInv /\ ScriptInv
  OBVIOUS
<1>1. Part(calls, Script)
  BY MainPart DEF Fresh, Script, Part
<1>2. Types
  <2>1. sockaddr_in(INADDR_ANY, 0) = [sin_addr |-> INADDR_ANY, sin_port |-> 0]
    BY PortNumbers DEF sockaddr_in
  <2>2. fwd_addr \in [SocketNames -> Addresses]
    BY <2>1, PortNumbers DEF Fresh, Addresses
  <2>3. \A s \in SocketNames : fwd_addr[s].sin_port \in in_port_t
    BY <2>2 DEF Addresses
  <2>4. opts \in [SocketNames -> SUBSET Options] /\ port \in [SocketNames -> in_port_t]
    BY PortNumbers DEF Fresh
  <2> QED
    BY <1>1, <2>2, <2>3, <2>4 DEF Fresh, Types, TypeOK, Part
<1>3. PortsInv
  BY DEF Fresh, PortsInv
<1>4. ScriptInv
  BY <1>1 DEF Fresh, ScriptInv, Part
<1> QED
  BY <1>2, <1>3, <1>4

LEMMA InitHolds == Init => Types /\ PortsInv /\ ScriptInv
<1>1. Init => Fresh /\ in_use \subseteq OtherPorts
  BY DEF Init, Fresh
<1> QED
  BY <1>1, FreshHolds

LEMMA MadeCalls ==
    ASSUME Types, NEW f, NEW s, Making(f, s), Made
    PROVE  /\ calls' \in Seq(CallSet) /\ cfg' = cfg /\ pc' = pc
           /\ in_use' = in_use
           /\ calls \in Seq(CallSet) /\ calls # << >> /\ Head(calls) = Call(f, s)
BY HeadAndTail DEF Types, Making, Made

\* Types and PortsInv look at ports, options, watchers and addresses alone.
LEMMA MadeTypes ==
    ASSUME Types, NEW f, NEW s, Making(f, s), Made,
           port' \in [SocketNames -> in_port_t],
           opts' \in [SocketNames -> SUBSET Options],
           watchers' \subseteq SocketNames,
           fwd_addr' \in [SocketNames -> Addresses]
    PROVE  Types'
<1>1. \A s2 \in SocketNames : fwd_addr'[s2].sin_port \in in_port_t
  BY DEF Addresses
<1> QED
  BY <1>1, MadeCalls DEF Types, TypeOK

LEMMA AskedAgain ==
    ASSUME cfg' = cfg
    PROVE  /\ \A s : Asked(s)' = Asked(s)
           /\ Script' = Script
           /\ \A s : ForwardTo(s)' = ForwardTo(s)
BY DEF Asked, Script, ForwardTo, init_any_sockaddr_in, init_sockaddr_in, init_broadcast_sockaddr_in,
       sockaddr_in

LEMMA SamePorts ==
    ASSUME PortsInv, cfg' = cfg, port' = port, in_use' \subseteq in_use
    PROVE  PortsInv'
BY AskedAgain DEF PortsInv

LEMMA TypesStep == Types /\ PortsInv /\ ScriptInv /\ [Next]_vars => Types' /\ PortsInv'
<1> SUFFICES ASSUME Types, PortsInv, ScriptInv, [Next]_vars PROVE Types' /\ PortsInv'
  OBVIOUS
<1>0. /\ cfg \in Configs /\ port \in [SocketNames -> in_port_t]
      /\ opts \in [SocketNames -> SUBSET Options] /\ watchers \subseteq SocketNames
      /\ fwd_addr \in [SocketNames -> Addresses]
      /\ in_use \subseteq OtherPorts
  BY DEF Types, TypeOK
<1>1. ASSUME NEW s \in SocketNames, socket(s) PROVE Types' /\ PortsInv'
  <2>1. Making("socket", s) /\ Made /\ opts' = [opts EXCEPT ![s] = {"open"}]
        /\ UNCHANGED <<port, watchers, fwd_addr>>
    BY <1>1 DEF socket
  <2>2. opts' \in [SocketNames -> SUBSET Options]
    BY <1>0, <2>1 DEF Options
  <2> QED
    BY <1>0, <2>1, <2>2, MadeTypes, MadeCalls, SamePorts
<1>2. ASSUME NEW s \in SocketNames, bind(s) PROVE Types' /\ PortsInv'
  <2>1. Making("bind", s) /\ Made /\ UNCHANGED <<opts, watchers, fwd_addr>>
    BY <1>2 DEF bind
  <2>2. PICK p \in Asked(s) : Free(p) /\ port' = [port EXCEPT ![s] = p]
    BY <1>2 DEF bind
  <2>3. p \in in_port_t \ {0}
    BY <1>0, AskedPorts
  <2>4. Types'
    BY <1>0, <2>1, <2>2, <2>3, MadeTypes
  <2>5. cfg' = cfg /\ in_use' = in_use
    BY <2>1, MadeCalls
  <2>6. /\ port'[s] = p /\ \A t \in SocketNames : t # s => port'[t] = port[t]
        /\ p \notin in_use /\ \A t \in SocketNames : port[t] # p
    BY <1>0, <2>2 DEF Free
  <2>7. Call("bind", s) \in Script
    <3>1. Call("bind", s) \in Elements(calls) /\ pc = "init"
      BY <2>1, MadeCalls, HeadAndTail DEF Making
    <3> QED
      BY <3>1 DEF ScriptInv
  <2>8. PortsInv'
    BY <2>5, <2>6, <2>7, AskedAgain DEF PortsInv
  <2> QED
    BY <2>4, <2>8
<1>3. ASSUME NEW s \in SocketNames, NEW o \in OptionCalls, setsockopt(o, s) PROVE Types' /\ PortsInv'
  <2>1. Making(o, s) /\ Made /\ opts' = [opts EXCEPT ![s] = @ \union {o}]
        /\ UNCHANGED <<port, watchers, fwd_addr>>
    BY <1>3 DEF setsockopt
  <2>2. opts' \in [SocketNames -> SUBSET Options]
    BY <1>0, <2>1 DEF OptionCalls
  <2> QED
    BY <1>0, <2>1, <2>2, MadeTypes, MadeCalls, SamePorts
<1>4. ASSUME NEW s \in SocketNames, init_if_sockaddr_in(s) PROVE Types' /\ PortsInv'
  BY <1>0, <1>4, MadeTypes, MadeCalls, SamePorts DEF init_if_sockaddr_in
<1>5. ASSUME NEW s \in SocketNames, ev_io_start(s) PROVE Types' /\ PortsInv'
  BY <1>0, <1>5, MadeTypes, MadeCalls, SamePorts DEF ev_io_start
<1>6. ASSUME NEW s \in SocketNames, forwarding_addr(s) PROVE Types' /\ PortsInv'
  <2>1. /\ Making("forwarding_addr", s) /\ Made /\ UNCHANGED <<port, opts, watchers>>
        /\ fwd_addr' = [fwd_addr EXCEPT ![s] = ForwardTo(s)]
    BY <1>6 DEF forwarding_addr, ForwardTo
  <2>2. fwd_addr' \in [SocketNames -> Addresses]
    BY <1>0, <2>1, ForwardAddresses
  <2> QED
    BY <1>0, <2>1, <2>2, MadeTypes, MadeCalls, SamePorts
<1>7. CASE handle_sys_error
  BY <1>0, <1>7, PortNumbers DEF handle_sys_error, Types, TypeOK, PortsInv
<1>8. CASE ev_loop
  <2>1. PortsInv'
    BY <1>8, SamePorts DEF ev_loop
  <2> QED
    BY <1>8, <2>1 DEF ev_loop, Types, TypeOK
<1>9. CASE OtherBinds
  <2>1. PICK p \in OtherPorts : Free(p) /\ in_use' = in_use \union {p}
    BY <1>9 DEF OtherBinds
  <2>2. UNCHANGED daemonVars
    BY <1>9 DEF OtherBinds
  <2>3. PortsInv'
    BY <2>1, <2>2, AskedAgain DEF PortsInv, Free, daemonVars
  <2> QED
    BY <1>0, <2>1, <2>2, <2>3 DEF daemonVars, Types, TypeOK
<1>10. CASE OtherReleases
  <2>1. in_use' \subseteq in_use /\ UNCHANGED daemonVars
    BY <1>10 DEF OtherReleases
  <2>2. PortsInv'
    BY <2>1, SamePorts DEF daemonVars
  <2> QED
    BY <1>0, <2>1, <2>2 DEF daemonVars, Types, TypeOK
<1>11. CASE InterfaceChanges \/ UNCHANGED vars
  <2>1. UNCHANGED <<daemonVars, in_use>>
    BY <1>11 DEF InterfaceChanges, vars
  <2>2. PortsInv'
    BY <2>1, SamePorts DEF daemonVars
  <2> QED
    BY <2>1, <2>2 DEF daemonVars, Types, TypeOK
<1> QED
  BY <1>1, <1>2, <1>3, <1>4, <1>5, <1>6, <1>7, <1>8, <1>9, <1>10, <1>11
     DEF Next, Daemon, Environment, set_msghdrs_socket_option, set_broadcast_socket,
         set_bindtodevice_socket, OptionCalls, Options

----------------------------------------------------------------------------
(* The script is carried out *)

\* A call was made: its own effect is there, and no other call lost its effect.
LEMMA MadeStep ==
    ASSUME Types, ScriptInv, NEW f, NEW s, Making(f, s), Made,
           Done(Call(f, s))',
           \A c \in Script \ Elements(calls) : Done(c) => Done(c)',
           \A t \in watchers' : t \in watchers \/ Call("ev_io_start", t) = Call(f, s)
    PROVE  ScriptInv'
<1>1. /\ calls \in Seq(CallSet) /\ calls # << >> /\ Head(calls) = Call(f, s)
      /\ calls' = Tail(calls) /\ cfg' = cfg /\ pc' = pc /\ pc = "init"
  BY MadeCalls DEF Made, Making
<1> DEFINE todo == Elements(calls)
           left == Elements(Tail(calls))
<1>2. /\ Script' = Script /\ Elements(calls)' = left
  BY <1>1, AskedAgain DEF Elements
<1>3. /\ SocketFirst(calls) /\ todo \subseteq Script
      /\ \A c \in Script : c \in todo \/ Done(c)
      /\ \A c, d \in Script :
            c \in todo /\ c.call = "socket" /\ d.sock = c.sock => d \in todo
      /\ \A t \in watchers : Call("ev_io_start", t) \in Script
  BY <1>1 DEF ScriptInv
<1>4. /\ Call(f, s) \in todo /\ left \subseteq todo /\ todo \subseteq left \union {Call(f, s)}
      /\ SocketFirst(Tail(calls))
      /\ \A c \in left : c.call = "socket" => Call(f, s).sock # c.sock
  BY <1>1, <1>3, HeadAndTail
<1> HIDE DEF todo, left
<1>5. \A c \in Script : c \in left \/ Done(c)'
  BY <1>3, <1>4 DEF todo
<1>6. \A c, d \in Script : c \in left /\ c.call = "socket" /\ d.sock = c.sock => d \in left
  BY <1>3, <1>4
<1>7. \A t \in watchers' : Call("ev_io_start", t) \in Script
  BY <1>3, <1>4
<1>8. SocketFirst(calls)'
  BY <1>1, <1>4 DEF SocketFirst
<1>9. left \subseteq Script /\ pc' # "ev_loop"
  BY <1>1, <1>3, <1>4
<1> QED
  BY <1>2, <1>5, <1>6, <1>7, <1>8, <1>9 DEF ScriptInv

LEMMA ScriptCalls == Script \subseteq CallSet
<1>1. main(cfg) \in Seq(CallSet)
  BY MainPart DEF Part
<1> QED
  BY <1>1 DEF Script, Elements

LEMMA ScriptStep == Types /\ PortsInv /\ ScriptInv /\ [Next]_vars => ScriptInv'
<1> SUFFICES ASSUME Types, PortsInv, ScriptInv, [Next]_vars PROVE ScriptInv'
  OBVIOUS
<1>0. /\ cfg \in Configs /\ port \in [SocketNames -> in_port_t]
      /\ opts \in [SocketNames -> SUBSET Options] /\ watchers \subseteq SocketNames
      /\ fwd_addr \in [SocketNames -> Addresses]
  BY DEF Types, TypeOK
<1>1. ASSUME NEW s \in SocketNames, socket(s) PROVE ScriptInv'
  <2>1. /\ Making("socket", s) /\ Made /\ opts' = [opts EXCEPT ![s] = {"open"}]
        /\ UNCHANGED <<port, watchers, fwd_addr>>
    BY <1>1 DEF socket
  <2>2. cfg' = cfg /\ Call("socket", s) \in Elements(calls) /\ pc = "init"
    BY <2>1, MadeCalls, HeadAndTail DEF Making
  <2>3. opts'[s] = {"open"} /\ \A t \in SocketNames : t # s => opts'[t] = opts[t]
    BY <1>0, <2>1
  <2>4. Done(Call("socket", s))'
    BY <2>3 DEF Done, Call, OptionCalls, Options
  <2>5. ASSUME NEW c \in Script \ Elements(calls), Done(c) PROVE Done(c)'
    <3>1. Call("socket", s) \in Script
      BY <2>2 DEF ScriptInv
    <3>2. c.sock # s
      BY <2>2, <2>5, <3>1, CallEquality DEF ScriptInv
    <3>3. c.sock \in SocketNames
      BY ScriptCalls, <2>5 DEF CallSet
    <3>4. opts'[c.sock] = opts[c.sock] /\ ForwardTo(c.sock)' = ForwardTo(c.sock)
      BY <2>2, <2>3, <3>2, <3>3, AskedAgain
    <3> QED
      BY <2>1, <2>2, <2>5, <3>4 DEF Done
  <2> QED
    BY <2>1, <2>4, <2>5, MadeStep
<1>2. ASSUME NEW s \in SocketNames, bind(s) PROVE ScriptInv'
  <2>1. Making("bind", s) /\ Made /\ UNCHANGED <<opts, watchers, fwd_addr>>
    BY <1>2 DEF bind
  <2>2. PICK p \in Asked(s) : port' = [port EXCEPT ![s] = p]
    BY <1>2 DEF bind
  <2>3. p # 0 /\ cfg' = cfg
    BY <1>0, <2>1, AskedPorts, MadeCalls
  <2>4. port'[s] # 0 /\ \A t \in SocketNames : t # s => port'[t] = port[t]
    BY <1>0, <2>2, <2>3
  <2>5. Done(Call("bind", s))'
    BY <2>4 DEF Done, Call, OptionCalls, Options
  <2>6. ASSUME NEW c \in Script, Done(c) PROVE Done(c)'
    <3>1. c.sock \in SocketNames /\ ForwardTo(c.sock)' = ForwardTo(c.sock)
      BY ScriptCalls, <2>3, <2>6, AskedAgain DEF CallSet
    <3> QED
      BY <2>1, <2>3, <2>4, <2>6, <3>1 DEF Done
  <2> QED
    BY <2>1, <2>5, <2>6, MadeStep
<1>3. ASSUME NEW s \in SocketNames, NEW o \in OptionCalls, setsockopt(o, s) PROVE ScriptInv'
  <2>1. /\ Making(o, s) /\ Made /\ opts' = [opts EXCEPT ![s] = @ \union {o}]
        /\ UNCHANGED <<port, watchers, fwd_addr>>
    BY <1>3 DEF setsockopt
  <2>2. cfg' = cfg
    BY <2>1, MadeCalls
  <2>3. o \in opts'[s] /\ \A t \in SocketNames : opts[t] \subseteq opts'[t]
    BY <1>0, <2>1
  <2>4. Done(Call(o, s))'
    BY <2>3 DEF Done, Call, OptionCalls, Options
  <2>5. ASSUME NEW c \in Script, Done(c) PROVE Done(c)'
    <3>1. c.sock \in SocketNames /\ ForwardTo(c.sock)' = ForwardTo(c.sock)
      BY ScriptCalls, <2>2, <2>5, AskedAgain DEF CallSet
    <3>2. opts[c.sock] # {} => opts'[c.sock] # {}
      BY <2>3, <3>1
    <3>3. c.call \in opts[c.sock] => c.call \in opts'[c.sock]
      BY <2>3, <3>1
    <3> QED
      BY <2>1, <2>2, <2>5, <3>1, <3>2, <3>3 DEF Done
  <2> QED
    BY <2>1, <2>4, <2>5, MadeStep
<1>4. ASSUME NEW s \in SocketNames, init_if_sockaddr_in(s) PROVE ScriptInv'
  <2>1. Making("init_if_sockaddr_in", s) /\ Made /\ UNCHANGED <<port, opts, watchers, fwd_addr>>
    BY <1>4 DEF init_if_sockaddr_in
  <2>2. cfg'.if_name \in Interfaces
    BY <1>4, <2>1, MadeCalls DEF init_if_sockaddr_in, StateOf
  <2>3. Done(Call("init_if_sockaddr_in", s))'
    BY <2>2 DEF Done, Call, OptionCalls, Options
  <2>4. ASSUME NEW c \in Script, Done(c) PROVE Done(c)'
    BY <2>1, <2>4, MadeCalls, AskedAgain DEF Done
  <2> QED
    BY <2>1, <2>3, <2>4, MadeStep
<1>5. ASSUME NEW s \in SocketNames, ev_io_start(s) PROVE ScriptInv'
  <2>1. /\ Making("ev_io_start", s) /\ Made /\ watchers' = watchers \union {s}
        /\ UNCHANGED <<port, opts, fwd_addr>>
    BY <1>5 DEF ev_io_start
  <2>2. Done(Call("ev_io_start", s))'
    BY <2>1 DEF Done, Call, OptionCalls, Options
  <2>3. ASSUME NEW c \in Script, Done(c) PROVE Done(c)'
    BY <2>1, <2>3, MadeCalls, AskedAgain DEF Done
  <2> QED
    BY <2>1, <2>2, <2>3, MadeStep
<1>6. ASSUME NEW s \in SocketNames, forwarding_addr(s) PROVE ScriptInv'
  <2>1. /\ Making("forwarding_addr", s) /\ Made /\ UNCHANGED <<port, opts, watchers>>
        /\ fwd_addr' = [fwd_addr EXCEPT ![s] = ForwardTo(s)]
    BY <1>6 DEF forwarding_addr, ForwardTo
  <2>2. cfg' = cfg
    BY <2>1, MadeCalls
  <2>3. fwd_addr'[s] = ForwardTo(s)' /\ \A t \in SocketNames : t # s => fwd_addr'[t] = fwd_addr[t]
    BY <1>0, <2>1, <2>2, AskedAgain
  <2>4. Done(Call("forwarding_addr", s))'
    BY <2>3 DEF Done, Call, OptionCalls, Options
  <2>5. ASSUME NEW c \in Script, Done(c) PROVE Done(c)'
    <3>1. c.sock \in SocketNames /\ ForwardTo(c.sock)' = ForwardTo(c.sock)
      BY ScriptCalls, <2>2, <2>5, AskedAgain DEF CallSet
    <3> QED
      BY <2>1, <2>2, <2>3, <2>5, <3>1 DEF Done
  <2> QED
    BY <2>1, <2>4, <2>5, MadeStep
<1>7. CASE handle_sys_error
  BY <1>7 DEF handle_sys_error, ScriptInv
<1>8. CASE ev_loop
  <2>1. /\ pc = "init" /\ calls = << >> /\ pc' = IF cfg.__tx_test THEN "segv" ELSE "ev_loop"
        /\ UNCHANGED <<cfg, calls, port, opts, watchers, fwd_addr>>
    BY <1>8 DEF ev_loop
  <2>2. Script' = Script /\ \A c : Done(c)' = Done(c)
    BY <2>1, AskedAgain DEF Done
  <2>3. pc' \in {"init", "ev_loop"} => pc' = "ev_loop" /\ ~cfg.__tx_test
    BY <2>1
  <2>4. Elements(calls)' = Elements(calls) /\ SocketFirst(calls)' = SocketFirst(calls)
    BY <2>1 DEF Elements, SocketFirst
  <2> QED
    BY <2>1, <2>2, <2>3, <2>4 DEF ScriptInv
<1>9. CASE Environment \/ UNCHANGED vars
  <2>1. UNCHANGED daemonVars
    BY <1>9 DEF Environment, OtherBinds, OtherReleases, InterfaceChanges, vars
  <2>2. UNCHANGED <<cfg, calls, pc, port, opts, watchers, fwd_addr>>
    BY <2>1 DEF daemonVars
  <2>3. Script' = Script /\ \A c : Done(c)' = Done(c)
    BY <2>2, AskedAgain DEF Done
  <2>4. Elements(calls)' = Elements(calls) /\ SocketFirst(calls)' = SocketFirst(calls)
    BY <2>2 DEF Elements, SocketFirst
  <2> QED
    BY <2>2, <2>3, <2>4 DEF ScriptInv
<1> QED
  BY <1>1, <1>2, <1>3, <1>4, <1>5, <1>6, <1>7, <1>8, <1>9
     DEF Next, Daemon, set_msghdrs_socket_option, set_broadcast_socket,
         set_bindtodevice_socket, OptionCalls, Options

\* In the loop nothing of the script is left: every call has left its effect.
LEMMA AllDone ==
    ASSUME ScriptInv, pc = "ev_loop"
    PROVE  /\ \A c \in NetCalls \union AppCalls : Done(c)
           /\ \A s \in watchers : Call("ev_io_start", s) \in NetCalls \union AppCalls
<1>1. calls = << >> /\ ~cfg.__tx_test
  BY DEF ScriptInv
<1>2. Script = NetCalls \union AppCalls
  BY <1>1, MainPart DEF Script, Part
<1>3. Elements(calls) = {}
  BY <1>1 DEF Elements
<1> QED
  BY <1>2, <1>3 DEF ScriptInv

LEMMA LoopHasInterface ==
    ASSUME ScriptInv, pc = "ev_loop"
    PROVE  cfg.if_name \in Interfaces
<1>1. Done(Call("init_if_sockaddr_in", "net"))
  BY AllDone DEF NetCalls
<1> QED
  BY <1>1 DEF Done, Call

\* A transmission test has no receiver.
LEMMA TestBindsNothing ==
    ASSUME PortsInv, NEW s \in SocketNames, port[s] # 0
    PROVE  ~cfg.__tx_test
<1>1. Call("bind", s) \in Script
  BY DEF PortsInv
<1>2. Script = IF cfg.__tx_test THEN TestCalls ELSE NetCalls \union AppCalls
  BY MainPart DEF Script, Part
<1>3. \A c \in TestCalls : c.call # "bind"
  BY CallEquality DEF TestCalls, BroadcastCalls
<1> QED
  BY <1>1, <1>2, <1>3, CallEquality

LEMMA ScriptIsKept == Spec => [](Types /\ PortsInv /\ ScriptInv)
BY InitHolds, TypesStep, ScriptStep, PTL DEF Spec

\* Ports and addresses are what their types can hold, whatever fails and whoever
\* binds what meanwhile.
THEOREM TypeCorrect == Spec => []TypeOK
<1>1. Types => TypeOK
  BY DEF Types
<1> QED
  BY <1>1, ScriptIsKept, PTL

LEMMA PreparedLoop ==
    ASSUME Types, ScriptInv
    PROVE  ReadyForLoop
<1> SUFFICES ASSUME pc = "ev_loop"
             PROVE  /\ watchers = {"net", "app"}
                    /\ \A s \in watchers : port[s] # 0 /\ "set_msghdrs_socket" \in opts[s]
                    /\ opts["net_fwd"] # {}
                    /\ {"set_broadcast_socket", "set_bindtodevice_socket"} \subseteq opts["app_fwd"]
                    /\ fwd_addr["net"] = sockaddr_in(INADDR_ANY, cfg.app_tx_port)
                    /\ fwd_addr["app"] = sockaddr_in(INADDR_BROADCAST, cfg.tx_port)
  BY DEF ReadyForLoop
<1>1. /\ \A c \in NetCalls \union AppCalls : Done(c)
      /\ \A s \in watchers : Call("ev_io_start", s) \in NetCalls \union AppCalls
  BY AllDone
<1>2. ASSUME NEW s \in {"net", "app"}
      PROVE  s \in watchers /\ port[s] # 0 /\ "set_msghdrs_socket" \in opts[s]
  <2>1. Done(Call("bind", s)) /\ Done(Call("set_msghdrs_socket", s)) /\ Done(Call("ev_io_start", s))
    BY <1>1, <1>2 DEF NetCalls, AppCalls, ReceiverCalls
  <2> QED
    BY <2>1 DEF Done, Call, OptionCalls, Options
<1>3. \A s : Call("ev_io_start", s) \in NetCalls \union AppCalls => s \in {"net", "app"}
  BY CallEquality DEF NetCalls, AppCalls, ReceiverCalls, BroadcastCalls
<1>4. opts["net_fwd"] # {}
  <2>1. Done(Call("socket", "net_fwd"))
    BY <1>1 DEF NetCalls
  <2> QED
    BY <2>1 DEF Done, Call
<1>5. {"set_broadcast_socket", "set_bindtodevice_socket"} \subseteq opts["app_fwd"]
  <2>1. /\ Done(Call("set_broadcast_socket", "app_fwd"))
        /\ Done(Call("set_bindtodevice_socket", "app_fwd"))
    BY <1>1 DEF AppCalls, BroadcastCalls
  <2> QED
    BY <2>1 DEF Done, Call, OptionCalls, Options
<1>6. fwd_addr["net"] = ForwardTo("net") /\ fwd_addr["app"] = ForwardTo("app")
  <2>1. Done(Call("forwarding_addr", "net")) /\ Done(Call("forwarding_addr", "app"))
    BY <1>1 DEF NetCalls, AppCalls
  <2> QED
    BY <2>1 DEF Done, Call
<1> QED
  BY <1>1, <1>2, <1>3, <1>4, <1>5, <1>6
     DEF ForwardTo, init_sockaddr_in, init_broadcast_sockaddr_in

\* When the loop runs, every socket and watcher is as EventLoop and BroadcastNet
\* take them to be: nothing that failed, and nothing that another process did,
\* was passed over on the way.
THEOREM LoopIsPrepared == Spec => []ReadyForLoop
BY PreparedLoop, ScriptIsKept, PTL

\* In the loop the two reception ports differ and are the daemon's alone: two
\* options that htons makes one port never get there.
THEOREM PortsAreOwn == Spec => []OwnPorts
<1>1. ASSUME Types, PortsInv, ScriptInv, ReadyForLoop PROVE OwnPorts
  <2> SUFFICES ASSUME pc = "ev_loop"
               PROVE  /\ port["net"] # port["app"]
                      /\ {port["net"], port["app"]} \cap in_use = {}
                      /\ htons(cfg.rx_port) = htons(cfg.app_rx_port) => htons(cfg.rx_port) = 0
    BY DEF OwnPorts
  <2>1. {"net", "app"} \subseteq SocketNames /\ port["net"] # 0 /\ port["app"] # 0
    BY <1>1 DEF ReadyForLoop, SocketNames
  <2>2. /\ port["net"] \in Asked("net") /\ port["app"] \in Asked("app")
        /\ port["net"] \notin in_use /\ port["app"] \notin in_use
        /\ port["net"] # port["app"]
    BY <1>1, <2>1 DEF PortsInv
  <2>3. ASSUME htons(cfg.rx_port) = htons(cfg.app_rx_port), htons(cfg.rx_port) # 0 PROVE FALSE
    <3>1. Asked("net") = {htons(cfg.rx_port)} /\ Asked("app") = {htons(cfg.app_rx_port)}
      BY <2>3 DEF Asked, init_any_sockaddr_in, sockaddr_in
    <3> QED
      BY <2>2, <2>3, <3>1
  <2> QED
    BY <2>2, <2>3
<1> QED
  BY <1>1, ScriptIsKept, LoopIsPrepared, PTL

----------------------------------------------------------------------------
(* The interface *)

\* A look-up of the interface is still to be made.
LookupLeft(seq) == \E c \in Elements(seq) : c.call = "init_if_sockaddr_in"

\* What holds as long as the interface has no address.
Waiting ==
    /\ pc \in {"init", "EXIT_FAILURE"}
    /\ pc = "init" => LookupLeft(calls)

LEMMA WaitingInit == Init => Waiting
<1> SUFFICES ASSUME Init PROVE Waiting
  OBVIOUS
<1>1. Elements(calls) = IF cfg.__tx_test THEN TestCalls ELSE NetCalls \union AppCalls
  BY MainPart DEF Init, Part
<1>2. /\ Call("init_if_sockaddr_in", "test") \in TestCalls
      /\ Call("init_if_sockaddr_in", "net") \in NetCalls
  BY DEF TestCalls, NetCalls
<1>3. \A s : Call("init_if_sockaddr_in", s).call = "init_if_sockaddr_in"
  BY DEF Call
<1>4. LookupLeft(calls)
  BY <1>1, <1>2, <1>3 DEF LookupLeft
<1> QED
  BY <1>4 DEF Init, Waiting

LEMMA WaitingMade ==
    ASSUME Types, Waiting, NEW f \in CallNames \ {"init_if_sockaddr_in"}, NEW s, Making(f, s), Made
    PROVE  Waiting'
<1>1. /\ calls \in Seq(CallSet) /\ calls # << >> /\ Head(calls) = Call(f, s)
      /\ calls' = Tail(calls) /\ pc' = pc /\ pc = "init"
  BY MadeCalls DEF Made, Making
<1>2. PICK c \in Elements(calls) : c.call = "init_if_sockaddr_in"
  BY <1>1 DEF Waiting, LookupLeft
<1>3. Head(calls) # c
  BY <1>1, <1>2 DEF Call
<1>4. c \in Elements(Tail(calls))
  BY <1>1, <1>2, <1>3, HeadAndTail
<1>5. LookupLeft(calls')
  BY <1>1, <1>2, <1>4 DEF LookupLeft
<1> QED
  BY <1>1, <1>5 DEF Waiting, LookupLeft, Elements

LEMMA WaitingStep ==
    ASSUME Types, Waiting, StateOf(cfg.if_name) # "inet", [Next]_vars
    PROVE  Waiting'
<1>1. ASSUME NEW s \in SocketNames, socket(s) PROVE Waiting'
  BY <1>1, WaitingMade DEF socket, CallNames
<1>2. ASSUME NEW s \in SocketNames, bind(s) PROVE Waiting'
  BY <1>2, WaitingMade DEF bind, CallNames
<1>3. ASSUME NEW s \in SocketNames, NEW o \in OptionCalls, setsockopt(o, s) PROVE Waiting'
  BY <1>3, WaitingMade DEF setsockopt, CallNames, OptionCalls, Options
<1>4. ASSUME NEW s \in SocketNames PROVE ~init_if_sockaddr_in(s)
  BY DEF init_if_sockaddr_in
<1>5. ASSUME NEW s \in SocketNames, ev_io_start(s) \/ forwarding_addr(s) PROVE Waiting'
  BY <1>5, WaitingMade DEF ev_io_start, forwarding_addr, CallNames
<1>6. CASE handle_sys_error
  BY <1>6 DEF handle_sys_error, Waiting
<1>7. ~ev_loop
  BY DEF ev_loop, Waiting, LookupLeft, Elements
<1>8. CASE Environment \/ UNCHANGED vars
  <2>1. calls' = calls /\ pc' = pc
    BY <1>8 DEF Environment, OtherBinds, OtherReleases, InterfaceChanges, daemonVars, vars
  <2> QED
    BY <2>1 DEF Waiting, LookupLeft, Elements
<1> QED
  BY <1>1, <1>2, <1>3, <1>4, <1>5, <1>6, <1>7, <1>8
     DEF Next, Daemon, set_msghdrs_socket_option, set_broadcast_socket, set_bindtodevice_socket,
         OptionCalls, Options

\* A daemon gets to its loop, or to the crash of a transmission test, only past a
\* moment at which its interface had an address.
THEOREM InterfaceIsNeeded == Spec => NeedsInterface
<1>1. Waiting => pc \in {"init", "EXIT_FAILURE"}
  BY DEF Waiting
<1>2. /\ Types /\ Waiting /\ StateOf(cfg.if_name) # "inet" /\ [Next]_vars => Waiting'
  BY WaitingStep
<1> QED
  BY <1>1, <1>2, WaitingInit, ScriptIsKept, PTL DEF Spec, NeedsInterface
=============================================================================

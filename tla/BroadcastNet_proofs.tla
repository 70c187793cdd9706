------------------------ MODULE BroadcastNet_proofs ------------------------
(***************************************************************************)
(* Proofs about BroadcastNet, for any number of nodes, any configurations  *)
(* that the daemon accepts, any messages, buffers and number of relays.    *)
(***************************************************************************)
EXTENDS BroadcastNet, TLAPS

Queues == [Nodes -> [Sockets -> Seq(Packet)]]

Elements(seq) == {seq[i] : i \in 1 .. Len(seq)}

----------------------------------------------------------------------------
(* Sequences of packets *)

LEMMA CopiesFollow ==
    ASSUME NEW S, NEW seq \in Seq(S), NEW x \in S, NEW k \in Nat
    PROVE  LET longer == Appended(seq, x, k)
           IN  /\ longer \in Seq(S)
               /\ Len(longer) = Len(seq) + k
               /\ \A i \in 1 .. Len(longer) : \/ i \in 1 .. Len(seq) /\ longer[i] = seq[i]
                                              \/ i > Len(seq) /\ longer[i] = x
               /\ Elements(longer) \subseteq Elements(seq) \union {x}
<1> DEFINE copies == [i \in 1 .. k |-> x]
<1>1. copies \in Seq(S) /\ Len(copies) = k /\ \A i \in 1 .. k : copies[i] = x
  OBVIOUS
<1> HIDE DEF copies
<1>2. /\ seq \o copies \in Seq(S)
      /\ Len(seq \o copies) = Len(seq) + k
      /\ Len(seq) \in Nat
  BY <1>1
<1>3. ASSUME NEW i \in 1 .. Len(seq) + k
      PROVE  \/ i \in 1 .. Len(seq) /\ (seq \o copies)[i] = seq[i]
             \/ i > Len(seq) /\ (seq \o copies)[i] = x
  <2>1. CASE i <= Len(seq)
    BY <1>1, <1>2, <2>1
  <2>2. CASE i > Len(seq)
    <3>1. (seq \o copies)[i] = copies[i - Len(seq)] /\ i - Len(seq) \in 1 .. k
      BY <1>1, <1>2, <2>2
    <3> QED
      BY <1>1, <2>2, <3>1
  <2> QED
    BY <1>2, <2>1, <2>2
<1>4. Elements(seq \o copies) \subseteq Elements(seq) \union {x}
  BY <1>2, <1>3 DEF Elements
<1>5. Appended(seq, x, k) = seq \o copies
  BY DEF Appended, copies
<1> QED
  BY <1>2, <1>3, <1>4, <1>5

LEMMA TailElements ==
    ASSUME NEW S, NEW seq \in Seq(S), seq # << >>
    PROVE  /\ Tail(seq) \in Seq(S)
           /\ Len(Tail(seq)) = Len(seq) - 1
           /\ Elements(Tail(seq)) \subseteq Elements(seq)
           /\ Head(seq) \in S /\ Head(seq) \in Elements(seq)
<1>1. Len(seq) \in Nat \ {0}
  OBVIOUS
<1>2. /\ Tail(seq) \in Seq(S) /\ Len(Tail(seq)) = Len(seq) - 1
      /\ \A i \in 1 .. Len(seq) - 1 : Tail(seq)[i] = seq[i + 1]
  OBVIOUS
<1>3. Elements(Tail(seq)) \subseteq Elements(seq)
  BY <1>1, <1>2 DEF Elements
<1>4. Head(seq) = seq[1]
  OBVIOUS
<1> QED
  BY <1>1, <1>2, <1>3, <1>4 DEF Elements

\* A relayed packet is a packet, one relay longer.
LEMMA RelayedPacket ==
    ASSUME NEW p \in Packet, NEW n \in Nodes,
           NEW callback \in {"cb_broadcast_recvfrom", "cb_forward_recvfrom"}
    PROVE  /\ Relayed(p, n, callback) \in Packet
           /\ Relayed(p, n, callback).msg = p.msg
           /\ Len(Relayed(p, n, callback).path) = Len(p.path) + 1
<1> DEFINE hop == [node |-> n, by |-> callback]
<1>1. hop \in Relays
  BY DEF Relays
<1>2. p.path \in Seq(Relays) /\ p.msg \in Msgs
  BY DEF Packet
<1>3. Append(p.path, hop) \in Seq(Relays) /\ Len(Append(p.path, hop)) = Len(p.path) + 1
  BY <1>1, <1>2
<1>4. Relayed(p, n, callback) = [msg |-> p.msg, path |-> Append(p.path, hop)]
  BY DEF Relayed, Packet
<1> HIDE DEF hop
<1> QED
  BY <1>2, <1>3, <1>4 DEF Packet

----------------------------------------------------------------------------
(* What sending to a port does *)

\* A send adds p to the sockets where its port leads, and nothing else.
Added(q, hosts, dest, p) ==
    /\ \A n \in Nodes, s \in Sockets :
          \A x \in Elements(queue'[n][s]) :
              \/ x \in Elements(q[n][s])
              \/ x = p /\ n \in hosts /\ Listener(n, dest.sin_port) = s
    /\ \A r \in Nodes, m \in Msgs :
          \/ delivered'[r][m] = delivered[r][m]
          \/ m = p.msg /\ r \in hosts /\ Listener(r, dest.sin_port) = "application"

LEMMA TransmitEffect ==
    ASSUME delivered \in [Nodes -> [Msgs -> Nat]], lost \subseteq Nodes,
           duplicated \in [Nodes -> SUBSET Msgs],
           NEW q, NEW hosts, NEW dest, NEW p,
           q \in Queues, hosts \in SUBSET Nodes, p \in Packet,
           \A n \in Nodes, s \in Sockets : Len(q[n][s]) <= RcvBuf,
           Transmit(q, hosts, dest, p)
    PROVE  /\ queue' \in Queues
           /\ \A n \in Nodes, s \in Sockets : Len(queue'[n][s]) <= RcvBuf
           /\ delivered' \in [Nodes -> [Msgs -> Nat]]
           /\ lost' \subseteq Nodes
           /\ duplicated' \in [Nodes -> SUBSET Msgs]
           /\ Added(q, hosts, dest, p)
<1> DEFINE heard(r) == Listener(r, dest.sin_port)
<1>1. PICK got \in [Nodes -> Copies(dest)] :
         /\ \A r \in Nodes : got[r] > 0 =>
               r \in hosts /\ heard(r) # "none" /\ Fits(q, r, heard(r), got[r])
         /\ queue' = [r \in Nodes |-> [s \in Sockets |->
                        IF heard(r) = s THEN Appended(q[r][s], p, got[r]) ELSE q[r][s]]]
         /\ delivered' = [r \in Nodes |-> [m \in Msgs |->
                        IF heard(r) = "application" /\ m = p.msg
                        THEN delivered[r][m] + got[r] ELSE delivered[r][m]]]
         /\ lost' = lost \union {r \in {h \in hosts : heard(h) # "none"} : got[r] = 0}
         /\ duplicated' = [r \in Nodes |->
                        IF got[r] > 1 THEN duplicated[r] \union {p.msg} ELSE duplicated[r]]
  BY DEF Transmit
<1> HIDE DEF heard
<1>2. \A r \in Nodes : got[r] \in Nat
  BY <1>1, BoundsAssumption DEF Copies
<1>3. ASSUME NEW n \in Nodes, NEW s \in Sockets
      PROVE  /\ queue'[n][s] \in Seq(Packet)
             /\ Len(queue'[n][s]) <= RcvBuf
             /\ \A x \in Elements(queue'[n][s]) :
                   x \in Elements(q[n][s]) \/ (x = p /\ n \in hosts /\ heard(n) = s)
  <2>1. q[n][s] \in Seq(Packet) /\ Len(q[n][s]) <= RcvBuf /\ Len(q[n][s]) \in Nat
    BY DEF Queues
  <2>2. CASE heard(n) = s
    <3>1. queue'[n][s] = Appended(q[n][s], p, got[n])
      BY <1>1, <2>2
    <3>2. /\ queue'[n][s] \in Seq(Packet)
          /\ Len(queue'[n][s]) = Len(q[n][s]) + got[n]
          /\ Elements(queue'[n][s]) \subseteq Elements(q[n][s]) \union {p}
      BY <1>2, <2>1, <3>1, CopiesFollow
    <3>3. CASE got[n] > 0
      <4>1. n \in hosts /\ Len(q[n][s]) + got[n] <= RcvBuf
        BY <1>1, <2>2, <3>3 DEF Fits
      <4> QED
        BY <2>2, <3>2, <4>1
    <3>4. CASE got[n] = 0
      <4>1. Elements(queue'[n][s]) \subseteq Elements(q[n][s])
        <5> DEFINE longer == Appended(q[n][s], p, got[n])
        <5> HIDE DEF longer
        <5>0. /\ Len(longer) = Len(q[n][s]) + got[n]
              /\ \A i \in 1 .. Len(longer) : \/ i \in 1 .. Len(q[n][s]) /\ longer[i] = q[n][s][i]
                                             \/ i > Len(q[n][s]) /\ longer[i] = p
          <6>1. got[n] \in Nat /\ p \in Packet
            BY <1>2
          <6> QED
            BY <2>1, <6>1, CopiesFollow DEF longer
        <5>1. Len(longer) = Len(q[n][s]) /\ \A i \in 1 .. Len(q[n][s]) : longer[i] = q[n][s][i]
          BY <2>1, <3>4, <5>0
        <5>2. Elements(longer) \subseteq Elements(q[n][s])
          BY <2>1, <5>1 DEF Elements
        <5> QED
          BY <3>1, <5>2 DEF longer
      <4> QED
        BY <2>1, <3>2, <3>4, <4>1
    <3> QED
      BY <1>2, <3>3, <3>4
  <2>3. CASE heard(n) # s
    <3>1. queue'[n][s] = q[n][s]
      BY <1>1, <2>3
    <3> QED
      BY <2>1, <3>1
  <2> QED
    BY <2>2, <2>3
<1>4. queue' \in Queues
  BY <1>1, <1>3 DEF Queues
<1>5. ASSUME NEW r \in Nodes, NEW m \in Msgs
      PROVE  /\ delivered'[r][m] \in Nat
             /\ \/ delivered'[r][m] = delivered[r][m]
                \/ m = p.msg /\ r \in hosts /\ heard(r) = "application"
  <2>1. delivered'[r][m] = IF heard(r) = "application" /\ m = p.msg
                           THEN delivered[r][m] + got[r] ELSE delivered[r][m]
    BY <1>1
  <2>2. delivered[r][m] \in Nat /\ got[r] \in Nat
    BY <1>2
  <2>3. got[r] > 0 => r \in hosts
    BY <1>1
  <2> QED
    BY <2>1, <2>2, <2>3
<1>6. delivered' \in [Nodes -> [Msgs -> Nat]]
  BY <1>1, <1>5
<1>7. lost' \subseteq Nodes
  BY <1>1
<1>8. duplicated' \in [Nodes -> SUBSET Msgs]
  BY <1>1 DEF Packet
<1> QED
  BY <1>3, <1>4, <1>5, <1>6, <1>7, <1>8 DEF heard, Added

LEMMA DequeuedEffect ==
    ASSUME TypeOK, NEW n \in Nodes, NEW s \in Sockets, queue[n][s] # << >>
    PROVE  /\ Dequeued(n, s) \in Queues
           /\ \A r \in Nodes, t \in Sockets :
                 /\ Len(Dequeued(n, s)[r][t]) <= RcvBuf
                 /\ Elements(Dequeued(n, s)[r][t]) \subseteq Queued(r, t)
           /\ Head(queue[n][s]) \in Packet
           /\ Head(queue[n][s]) \in Queued(n, s)
<1>1. queue \in [Nodes -> [Sockets -> Seq(Packet)]]
  BY DEF TypeOK
<1>2. ASSUME NEW r \in Nodes, NEW t \in Sockets
      PROVE  /\ Dequeued(n, s)[r][t] \in Seq(Packet)
             /\ Len(Dequeued(n, s)[r][t]) <= RcvBuf
             /\ Elements(Dequeued(n, s)[r][t]) \subseteq Queued(r, t)
  <2>1. queue[r][t] \in Seq(Packet) /\ Len(queue[r][t]) <= RcvBuf
    BY DEF TypeOK
  <2>2. CASE r = n /\ t = s
    <3>1. Dequeued(n, s)[r][t] = Tail(queue[n][s])
      BY <1>1, <2>2 DEF Dequeued
    <3> QED
      BY <2>1, <2>2, <3>1, TailElements, BoundsAssumption DEF Queued, Elements
  <2>3. CASE ~(r = n /\ t = s)
    <3>1. Dequeued(n, s)[r][t] = queue[r][t]
      BY <1>1, <2>3 DEF Dequeued
    <3> QED
      BY <2>1, <3>1 DEF Queued, Elements
  <2> QED
    BY <2>2, <2>3
<1>3. Dequeued(n, s) \in Queues
  BY <1>1, <1>2 DEF Dequeued, Queues
<1>4. queue[n][s] \in Seq(Packet)
  BY <1>1
<1>5. Head(queue[n][s]) \in Packet /\ Head(queue[n][s]) \in Elements(queue[n][s])
  BY <1>4, TailElements
<1> QED
  BY <1>2, <1>3, <1>5 DEF Queued, Elements

----------------------------------------------------------------------------
(* Types and buffers *)

LEMMA ListenerOfSocket ==
    ASSUME TypeOK, NEW r \in Nodes, NEW port
    PROVE  /\ Listener(r, port) = "net" => port = htons(cfg[r].rx_port)
           /\ Listener(r, port) = "app" => port = htons(cfg[r].app_rx_port)
           /\ Listener(r, port) = "application" => port = htons(cfg[r].app_tx_port)
           /\ port = htons(cfg[r].app_rx_port) => Listener(r, port) = "app"
<1>1. htons(cfg[r].rx_port) # htons(cfg[r].app_rx_port)
  BY ConfigsAssumption DEF TypeOK
<1>2. CASE port = htons(cfg[r].rx_port)
  BY <1>1, <1>2 DEF Listener
<1>3. CASE port = htons(cfg[r].app_rx_port)
  BY <1>1, <1>3 DEF Listener
<1>4. CASE port \notin {htons(cfg[r].rx_port), htons(cfg[r].app_rx_port)}
  BY <1>4 DEF Listener
<1> QED
  BY <1>2, <1>3, <1>4

\* The send that each action makes, with the queues it leaves behind.
SendStep(q, hosts, dest, p) ==
    /\ q \in Queues
    /\ \A r \in Nodes, t \in Sockets : /\ Len(q[r][t]) <= RcvBuf
                                      /\ Elements(q[r][t]) \subseteq Queued(r, t)
    /\ hosts \in SUBSET Nodes
    /\ p \in Packet
    /\ Transmit(q, hosts, dest, p)

LEMMA AppSendStep ==
    ASSUME TypeOK, NEW n \in Nodes, NEW m \in Msgs, AppSend(n, m)
    PROVE  /\ SendStep(queue, {n}, sockaddr_in(INADDR_LOOPBACK, cfg[n].app_rx_port),
                       [msg |-> m, path |-> << >>])
           /\ cfg' = cfg /\ sent' \subseteq Msgs /\ origin[m] = n
<1>1. [msg |-> m, path |-> << >>] \in Packet
  BY DEF Packet
<1> QED
  BY <1>1 DEF AppSend, SendStep, TypeOK, Queues, Queued, Elements

LEMMA OutsideSendStep ==
    ASSUME TypeOK, NEW m \in Msgs, OutsideSend(m)
    PROVE  /\ \E hosts, dest : SendStep(queue, hosts, dest, [msg |-> m, path |-> << >>])
           /\ cfg' = cfg /\ sent' \subseteq Msgs /\ origin[m] \in Outside
<1>1. [msg |-> m, path |-> << >>] \in Packet
  BY DEF Packet
<1>2. PICK net \in attached[origin[m]] : \E dest :
         Transmit(queue, OnNetwork(net), dest, [msg |-> m, path |-> << >>])
  BY DEF OutsideSend
<1>3. PICK dest : Transmit(queue, OnNetwork(net), dest, [msg |-> m, path |-> << >>])
  BY <1>2
<1>4. OnNetwork(net) \in SUBSET Nodes
  BY DEF OnNetwork
<1>5. SendStep(queue, OnNetwork(net), dest, [msg |-> m, path |-> << >>])
  BY <1>1, <1>3, <1>4 DEF SendStep, TypeOK, Queues, Queued, Elements
<1> QED
  BY <1>5 DEF OutsideSend, TypeOK

LEMMA BroadcastStep ==
    ASSUME TypeOK, NEW n \in Nodes, cb_broadcast_recvfrom(n)
    PROVE  LET p == Head(queue[n]["app"])
           IN  /\ p \in Packet /\ p \in Queued(n, "app")
               /\ SendStep(Dequeued(n, "app"), OnNetwork(iface[n]), broadcast_addr(n),
                           Relayed(p, n, "cb_broadcast_recvfrom"))
               /\ UNCHANGED <<cfg, sent>>
<1> DEFINE p == Head(queue[n]["app"])
<1>1. /\ queue[n]["app"] # << >>
      /\ sendto(Dequeued(n, "app"), n, broadcast_addr(n),
                      Relayed(p, n, "cb_broadcast_recvfrom"))
      /\ UNCHANGED <<cfg, sent>>
  BY DEF cb_broadcast_recvfrom
<1>2. /\ p \in Packet /\ p \in Queued(n, "app")
      /\ Dequeued(n, "app") \in Queues
      /\ \A r \in Nodes, t \in Sockets :
            /\ Len(Dequeued(n, "app")[r][t]) <= RcvBuf
            /\ Elements(Dequeued(n, "app")[r][t]) \subseteq Queued(r, t)
  BY <1>1, DequeuedEffect DEF Sockets
<1>3. Relayed(p, n, "cb_broadcast_recvfrom") \in Packet
  BY <1>2, RelayedPacket
<1>4. /\ Reached(n, broadcast_addr(n).sin_addr) = OnNetwork(iface[n])
      /\ OnNetwork(iface[n]) \in SUBSET Nodes
  BY DEF Reached, OnNetwork, broadcast_addr, init_broadcast_sockaddr_in, sockaddr_in
<1> QED
  BY <1>1, <1>2, <1>3, <1>4 DEF SendStep, sendto

LEMMA ForwardStep ==
    ASSUME TypeOK, NEW n \in Nodes, cb_forward_recvfrom(n)
    PROVE  LET p == Head(queue[n]["net"])
           IN  /\ p \in Packet /\ p \in Queued(n, "net")
               /\ UNCHANGED <<cfg, sent>>
               /\ \/ /\ queue' = Dequeued(n, "net")
                     /\ Dequeued(n, "net") \in Queues
                     /\ \A r \in Nodes, t \in Sockets :
                           /\ Len(Dequeued(n, "net")[r][t]) <= RcvBuf
                           /\ Elements(Dequeued(n, "net")[r][t]) \subseteq Queued(r, t)
                     /\ UNCHANGED <<delivered, lost, duplicated>>
                  \/ SendStep(Dequeued(n, "net"), {n}, forwarding_addr(n),
                              Relayed(p, n, "cb_forward_recvfrom"))
<1> DEFINE p == Head(queue[n]["net"])
<1>1. /\ queue[n]["net"] # << >>
      /\ UNCHANGED <<cfg, sent>>
      /\ \/ /\ queue' = Dequeued(n, "net")
            /\ UNCHANGED <<delivered, lost, duplicated>>
         \/ sendto(Dequeued(n, "net"), n, forwarding_addr(n),
                         Relayed(p, n, "cb_forward_recvfrom"))
  BY DEF cb_forward_recvfrom
<1>2. /\ p \in Packet /\ p \in Queued(n, "net")
      /\ Dequeued(n, "net") \in Queues
      /\ \A r \in Nodes, t \in Sockets :
            /\ Len(Dequeued(n, "net")[r][t]) <= RcvBuf
            /\ Elements(Dequeued(n, "net")[r][t]) \subseteq Queued(r, t)
  BY <1>1, DequeuedEffect DEF Sockets
<1>3. Relayed(p, n, "cb_forward_recvfrom") \in Packet
  BY <1>2, RelayedPacket
<1>4. Reached(n, forwarding_addr(n).sin_addr) = {n}
  BY DEF Reached, forwarding_addr, init_sockaddr_in, sockaddr_in, INADDR_ANY, INADDR_BROADCAST
<1> QED
  BY <1>1, <1>2, <1>3, <1>4 DEF SendStep, sendto

\* What a send adds: p, where its port leads, and nothing else.
LEMMA SendEffect ==
    ASSUME TypeOK, NEW q, NEW hosts, NEW dest, NEW p, SendStep(q, hosts, dest, p)
    PROVE  /\ \A n \in Nodes, s \in Sockets : \A x \in Queued(n, s)' :
                 \/ x \in Queued(n, s)
                 \/ x = p /\ n \in hosts /\ Listener(n, dest.sin_port) = s
           /\ \A r \in Nodes, m \in Msgs :
                 \/ delivered'[r][m] = delivered[r][m]
                 \/ m = p.msg /\ r \in hosts /\ Listener(r, dest.sin_port) = "application"
<1>1. /\ delivered \in [Nodes -> [Msgs -> Nat]] /\ lost \subseteq Nodes
      /\ duplicated \in [Nodes -> SUBSET Msgs]
  BY DEF TypeOK
<1>2. Added(q, hosts, dest, p)
  BY <1>1, TransmitEffect DEF SendStep
<1>3. \A n \in Nodes, s \in Sockets : Elements(q[n][s]) \subseteq Queued(n, s)
  BY DEF SendStep
<1> QED
  BY <1>2, <1>3 DEF Added, Queued, Elements

LEMMA SendKeepsTypes ==
    ASSUME TypeOK, NEW q, NEW hosts, NEW dest, NEW p, SendStep(q, hosts, dest, p),
           cfg' = cfg, sent' \subseteq Msgs
    PROVE  TypeOK'
<1>1. /\ delivered \in [Nodes -> [Msgs -> Nat]] /\ lost \subseteq Nodes
      /\ duplicated \in [Nodes -> SUBSET Msgs]
  BY DEF TypeOK
<1> QED
  BY <1>1, TransmitEffect DEF SendStep, TypeOK, Queues

LEMMA TypeInit == Init => TypeOK
<1> SUFFICES ASSUME Init PROVE TypeOK
  OBVIOUS
<1>1. << >> \in Seq(Packet) /\ Len(<< >>) = 0
  OBVIOUS
<1>2. queue \in [Nodes -> [Sockets -> Seq(Packet)]]
  BY <1>1 DEF Init
<1>3. \A n \in Nodes, s \in Sockets : Len(queue[n][s]) <= RcvBuf
  BY <1>1, BoundsAssumption DEF Init
<1>4. delivered \in [Nodes -> [Msgs -> Nat]]
  BY DEF Init
<1> QED
  BY <1>2, <1>3, <1>4 DEF Init, TypeOK

LEMMA TypeStep == TypeOK /\ [Next]_vars => TypeOK'
<1> SUFFICES ASSUME TypeOK, [Next]_vars PROVE TypeOK'
  OBVIOUS
<1>0. sent \subseteq Msgs
  BY DEF TypeOK
<1>1. ASSUME NEW n \in Nodes, NEW m \in Msgs, AppSend(n, m) PROVE TypeOK'
  BY <1>1, AppSendStep, SendKeepsTypes
<1>2. ASSUME NEW m \in Msgs, OutsideSend(m) PROVE TypeOK'
  BY <1>2, OutsideSendStep, SendKeepsTypes
<1>3. ASSUME NEW n \in Nodes, cb_broadcast_recvfrom(n) PROVE TypeOK'
  BY <1>0, <1>3, BroadcastStep, SendKeepsTypes
<1>4. ASSUME NEW n \in Nodes, cb_forward_recvfrom(n) PROVE TypeOK'
  <2>1. CASE /\ queue' = Dequeued(n, "net")
             /\ UNCHANGED <<delivered, lost, duplicated>>
    BY <1>4, <2>1, ForwardStep, DequeuedEffect DEF TypeOK, Queues, cb_forward_recvfrom, Sockets
  <2>2. CASE SendStep(Dequeued(n, "net"), {n}, forwarding_addr(n),
                      Relayed(Head(queue[n]["net"]), n, "cb_forward_recvfrom"))
    BY <1>0, <1>4, <2>2, ForwardStep, SendKeepsTypes
  <2> QED
    BY <1>4, <2>1, <2>2, ForwardStep
<1>5. CASE UNCHANGED vars
  BY <1>5 DEF vars, TypeOK
<1> QED
  BY <1>1, <1>2, <1>3, <1>4, <1>5 DEF Next, Daemon

\* Every variable keeps its type and no socket ever holds more than RcvBuf.
THEOREM TypeCorrect == Spec => []TypeOK
BY TypeInit, TypeStep, PTL DEF Spec

----------------------------------------------------------------------------
(* The way of a message, with hygienic ports *)

\* What an application's socket holds was never relayed and comes from its own
\* application; what a network socket holds was broadcast once, by a node that
\* this one hears; what was delivered took such a way.
WayInv ==
    PortHygiene =>
        /\ \A n \in Nodes : \A p \in Queued(n, "app") :
              p.path = << >> /\ (origin[p.msg] \in Nodes => origin[p.msg] = n)
        /\ \A n \in Nodes : \A p \in Queued(n, "net") :
              Len(p.path) <= 1 /\ (origin[p.msg] \in Nodes => Hears(n, origin[p.msg]))
        /\ Wiring

LEMMA WayInit == Init => WayInv
BY DEF Init, WayInv, Queued, Wiring, Sockets

\* A send keeps WayInv if the packet may lie wherever its port leads.
LEMMA SendKeepsWay ==
    ASSUME TypeOK, WayInv, PortHygiene,
           NEW q, NEW hosts, NEW dest, NEW p, SendStep(q, hosts, dest, p),
           cfg' = cfg,
           \A r \in hosts :
              /\ Listener(r, dest.sin_port) = "app" =>
                    p.path = << >> /\ (origin[p.msg] \in Nodes => origin[p.msg] = r)
              /\ Listener(r, dest.sin_port) = "net" =>
                    Len(p.path) <= 1 /\ (origin[p.msg] \in Nodes => Hears(r, origin[p.msg]))
              /\ Listener(r, dest.sin_port) = "application" =>
                    (origin[p.msg] \in Nodes => Hears(r, origin[p.msg]))
    PROVE  WayInv'
<1>1. /\ \A n \in Nodes, s \in Sockets : \A x \in Queued(n, s)' :
            \/ x \in Queued(n, s)
            \/ x = p /\ n \in hosts /\ Listener(n, dest.sin_port) = s
      /\ \A r \in Nodes, m \in Msgs :
            \/ delivered'[r][m] = delivered[r][m]
            \/ m = p.msg /\ r \in hosts /\ Listener(r, dest.sin_port) = "application"
  BY SendEffect
<1>2. \A r \in Nodes, o \in Nodes : Hears(r, o)' <=> Hears(r, o)
  BY DEF Hears
<1>3. \A n \in Nodes : \A x \in Queued(n, "app")' :
         x.path = << >> /\ (origin[x.msg] \in Nodes => origin[x.msg] = n)
  BY <1>1 DEF WayInv, Sockets
<1>4. \A n \in Nodes : \A x \in Queued(n, "net")' :
         Len(x.path) <= 1 /\ (origin[x.msg] \in Nodes => Hears(n, origin[x.msg])')
  BY <1>1, <1>2 DEF WayInv, Sockets
<1>5. ASSUME NEW m \in Msgs, NEW r \in Nodes, origin[m] \in Nodes, delivered'[r][m] > 0
      PROVE  Hears(r, origin[m])'
  <2>1. CASE delivered'[r][m] = delivered[r][m]
    BY <1>2, <1>5, <2>1 DEF WayInv, Wiring
  <2>2. CASE m = p.msg /\ r \in hosts /\ Listener(r, dest.sin_port) = "application"
    BY <1>2, <1>5, <2>2
  <2> QED
    BY <1>1, <2>1, <2>2
<1> QED
  BY <1>3, <1>4, <1>5 DEF WayInv, Wiring

LEMMA WayStep == TypeOK /\ WayInv /\ [Next]_vars => WayInv'
<1> SUFFICES ASSUME TypeOK, WayInv, PortHygiene, [Next]_vars PROVE WayInv'
  <2>1. [Next]_vars => cfg' = cfg
    BY DEF Next, Daemon, AppSend, OutsideSend, cb_broadcast_recvfrom, cb_forward_recvfrom, vars
  <2>2. cfg' = cfg => (PortHygiene' <=> PortHygiene)
    BY DEF PortHygiene
  <2> QED
    BY <2>1, <2>2 DEF WayInv
<1>1. ASSUME NEW n \in Nodes, NEW m \in Msgs, AppSend(n, m) PROVE WayInv'
  <2> DEFINE dest == sockaddr_in(INADDR_LOOPBACK, cfg[n].app_rx_port)
             p    == [msg |-> m, path |-> << >>]
  <2>1. SendStep(queue, {n}, dest, p) /\ cfg' = cfg /\ origin[m] = n
    BY <1>1, AppSendStep
  <2>2. Listener(n, dest.sin_port) = "app"
    BY ListenerOfSocket DEF sockaddr_in
  <2>3. p.path = << >> /\ p.msg = m
    OBVIOUS
  <2> HIDE DEF dest, p
  <2> QED
    BY <2>1, <2>2, <2>3, SendKeepsWay
<1>2. ASSUME NEW m \in Msgs, OutsideSend(m) PROVE WayInv'
  <2> DEFINE p == [msg |-> m, path |-> << >>]
  <2>1. PICK hosts, dest : SendStep(queue, hosts, dest, p)
    BY <1>2, OutsideSendStep
  <2>2. cfg' = cfg /\ origin[m] \notin Nodes
    BY <1>2, OutsideSendStep, OriginAssumption
  <2>3. p.path = << >> /\ Len(p.path) <= 1 /\ p.msg = m
    OBVIOUS
  <2> HIDE DEF p
  <2> QED
    BY <2>1, <2>2, <2>3, SendKeepsWay
<1>3. ASSUME NEW n \in Nodes, cb_broadcast_recvfrom(n) PROVE WayInv'
  <2> DEFINE head == Head(queue[n]["app"])
             p    == Relayed(head, n, "cb_broadcast_recvfrom")
             port == broadcast_addr(n).sin_port
  <2>1. /\ head \in Packet /\ head \in Queued(n, "app")
        /\ SendStep(Dequeued(n, "app"), OnNetwork(iface[n]), broadcast_addr(n), p)
        /\ cfg' = cfg
    BY <1>3, BroadcastStep
  <2>2. /\ head.path = << >>
        /\ origin[head.msg] \in Nodes => origin[head.msg] = n
    BY <2>1 DEF WayInv
  <2>3. p.msg = head.msg /\ Len(p.path) = 1
    <3>1. p.msg = head.msg /\ Len(p.path) = Len(head.path) + 1
      BY <2>1, RelayedPacket
    <3> HIDE DEF head, p
    <3> QED
      BY <2>2, <3>1
  <2>4. port = htons(cfg[n].tx_port)
    BY DEF broadcast_addr, init_broadcast_sockaddr_in, sockaddr_in
  <2>5. ASSUME NEW r \in OnNetwork(iface[n])
        PROVE  /\ Listener(r, port) # "app"
               /\ Listener(r, port) \in {"net", "application"} => Hears(r, n)
    <3>1. r \in Nodes /\ iface[n] \in attached[r]
      BY DEF OnNetwork
    <3> QED
      BY <2>4, <3>1, ListenerOfSocket DEF PortHygiene, Hears
  <2>6. \A r \in OnNetwork(iface[n]) : origin[p.msg] \in Nodes /\ Hears(r, n) => Hears(r, origin[p.msg])
    BY <2>2, <2>3
  <2> HIDE DEF head, p
  <2>7. Len(p.path) <= 1
    BY <2>3
  <2>8. \A r \in OnNetwork(iface[n]) :
           /\ Listener(r, port) = "app" =>
                 p.path = << >> /\ (origin[p.msg] \in Nodes => origin[p.msg] = r)
           /\ Listener(r, port) = "net" =>
                 Len(p.path) <= 1 /\ (origin[p.msg] \in Nodes => Hears(r, origin[p.msg]))
           /\ Listener(r, port) = "application" =>
                 (origin[p.msg] \in Nodes => Hears(r, origin[p.msg]))
    BY <2>5, <2>6, <2>7
  <2>9. SendStep(Dequeued(n, "app"), OnNetwork(iface[n]), broadcast_addr(n), p)
    BY <2>1
  <2>10. cfg' = cfg
    BY <2>1
  <2> QED
    BY <2>8, <2>9, <2>10, SendKeepsWay
<1>4. ASSUME NEW n \in Nodes, cb_forward_recvfrom(n) PROVE WayInv'
  <2> DEFINE head == Head(queue[n]["net"])
             p    == Relayed(head, n, "cb_forward_recvfrom")
             port == forwarding_addr(n).sin_port
  <2>1. head \in Packet /\ head \in Queued(n, "net") /\ cfg' = cfg
    BY <1>4, ForwardStep
  <2>2. CASE SendStep(Dequeued(n, "net"), {n}, forwarding_addr(n), p)
    <3>1. origin[head.msg] \in Nodes => Hears(n, origin[head.msg])
      BY <2>1 DEF WayInv
    <3>2. p.msg = head.msg
      BY <2>1, RelayedPacket
    <3>3. port = htons(cfg[n].app_tx_port)
      BY DEF forwarding_addr, init_sockaddr_in, sockaddr_in
    <3>4. Listener(n, port) \notin {"net", "app"}
      BY <3>3, ListenerOfSocket DEF PortHygiene
    <3> HIDE DEF head, p, port
    <3> QED
      BY <2>1, <2>2, <3>1, <3>2, <3>4, SendKeepsWay DEF port
  <2>3. CASE /\ queue' = Dequeued(n, "net")
             /\ \A r \in Nodes, t \in Sockets :
                   Elements(Dequeued(n, "net")[r][t]) \subseteq Queued(r, t)
             /\ UNCHANGED <<delivered, lost, duplicated>>
    <3>1. \A r \in Nodes, t \in Sockets : Queued(r, t)' \subseteq Queued(r, t)
      BY <2>3 DEF Queued, Elements
    <3> QED
      BY <2>1, <2>3, <3>1 DEF WayInv, Wiring, Hears, Sockets
  <2> QED
    BY <1>4, <2>2, <2>3, ForwardStep
<1>5. CASE UNCHANGED vars
  BY <1>5 DEF vars, WayInv, Wiring, Hears, Queued
<1> QED
  BY <1>1, <1>2, <1>3, <1>4, <1>5 DEF Next, Daemon

LEMMA WayInvariance == Spec => [](TypeOK /\ WayInv)
BY TypeInit, TypeStep, WayInit, WayStep, PTL DEF Spec

\* With hygienic ports no message goes round: broadcast once, forwarded once.
THEOREM NoMessageGoesRound == Spec => []HopBound
<1>1. WayInv => HopBound
  BY DEF WayInv, HopBound
<1> QED
  BY <1>1, WayInvariance, PTL

\* With hygienic ports a message is delivered only where a pair of ports
\* connects its sender with the receiver.
THEOREM DeliveredOnlyWhereWired == Spec => []Wiring
<1>1. WayInv => Wiring
  BY DEF WayInv, Wiring
<1> QED
  BY <1>1, WayInvariance, PTL

----------------------------------------------------------------------------
(* The copies of a message, with hygienic ports *)

Without(seq, m) == \A i \in 1 .. Len(seq) : seq[i].msg # m
AtMostOneOf(seq, m) == \A i, j \in 1 .. Len(seq) : seq[i].msg = m /\ seq[j].msg = m => i = j

\* What k more copies of p make of the copies of m.
LEMMA AddedCopies ==
    ASSUME NEW seq \in Seq(Packet), NEW p \in Packet, NEW k \in Nat, NEW m,
           NEW longer, longer = Appended(seq, p, k)
    PROVE  /\ k <= 1 /\ Without(seq, m) => AtMostOneOf(longer, m)
           /\ p.msg # m \/ k = 0 => /\ Without(seq, m) => Without(longer, m)
                                    /\ AtMostOneOf(seq, m) => AtMostOneOf(longer, m)
<1>1. /\ Len(seq) \in Nat /\ Len(longer) = Len(seq) + k
      /\ \A i \in 1 .. Len(longer) : \/ i \in 1 .. Len(seq) /\ longer[i] = seq[i]
                                     \/ i > Len(seq) /\ longer[i] = p
  <2>1. Len(seq) \in Nat
    OBVIOUS
  <2> QED
    BY <2>1, CopiesFollow
<1>2. k <= 1 /\ Without(seq, m) => AtMostOneOf(longer, m)
  BY <1>1 DEF Without, AtMostOneOf
<1>3. (p.msg # m \/ k = 0) /\ Without(seq, m) => Without(longer, m)
  BY <1>1 DEF Without
<1>4. (p.msg # m \/ k = 0) /\ AtMostOneOf(seq, m) => AtMostOneOf(longer, m)
  BY <1>1 DEF AtMostOneOf
<1> QED
  BY <1>2, <1>3, <1>4

LEMMA TailCopies ==
    ASSUME NEW seq \in Seq(Packet), seq # << >>, NEW m
    PROVE  /\ Without(seq, m) => Without(Tail(seq), m)
           /\ AtMostOneOf(seq, m) => AtMostOneOf(Tail(seq), m)
           /\ AtMostOneOf(seq, m) /\ Head(seq).msg = m => Without(Tail(seq), m)
           /\ Head(seq).msg = m => ~Without(seq, m)
<1>1. /\ Len(seq) \in Nat \ {0} /\ Head(seq) = seq[1]
      /\ Len(Tail(seq)) = Len(seq) - 1
      /\ \A i \in 1 .. Len(seq) - 1 : Tail(seq)[i] = seq[i + 1]
  OBVIOUS
<1> DEFINE shorter == Tail(seq)
           first   == Head(seq)
<1> HIDE DEF shorter, first
<1>2. \A i \in 1 .. Len(shorter) : i + 1 \in 1 .. Len(seq) /\ i + 1 # 1 /\ shorter[i] = seq[i + 1]
  BY <1>1 DEF shorter
<1>3. 1 \in 1 .. Len(seq) /\ first = seq[1]
  BY <1>1 DEF first
<1>4. Without(seq, m) => Without(shorter, m)
  BY <1>2 DEF Without
<1>5. AtMostOneOf(seq, m) => AtMostOneOf(shorter, m)
  <2> SUFFICES ASSUME AtMostOneOf(seq, m), NEW i \in 1 .. Len(shorter), NEW j \in 1 .. Len(shorter),
                      shorter[i].msg = m, shorter[j].msg = m
               PROVE  i = j
    BY DEF AtMostOneOf
  <2>1. i + 1 = j + 1
    BY <1>2 DEF AtMostOneOf
  <2> QED
    BY <2>1
<1>6. AtMostOneOf(seq, m) /\ first.msg = m => Without(shorter, m)
  BY <1>2, <1>3 DEF AtMostOneOf, Without
<1>7. first.msg = m => ~Without(seq, m)
  BY <1>3 DEF Without
<1> QED
  BY <1>4, <1>5, <1>6, <1>7 DEF shorter, first

\* No daemon has broadcast m: it lies in no network socket, nobody has got it.
NotBroadcast(q, m) ==
    \A n \in Nodes : Without(q[n]["net"], m) /\ delivered[n][m] = 0

\* A message is with its application, then with its own daemon, then with every
\* receiver, in one copy and for one delivery each; one of the three at a time.
\* Only a host to which the network brings it twice has more of it.
OneCopy(q, m) ==
    /\ m \notin sent => NotBroadcast(q, m) /\ \A n \in Nodes : Without(q[n]["app"], m)
    /\ \A n \in Nodes :
          /\ AtMostOneOf(q[n]["app"], m)
          /\ Without(q[n]["app"], m) \/ NotBroadcast(q, m)
          /\ m \notin duplicated[n] =>
                /\ AtMostOneOf(q[n]["net"], m)
                /\ delivered[n][m] \in {0, 1}
                /\ Without(q[n]["net"], m) \/ delivered[n][m] = 0

OneCopyInv ==
    PortHygiene => \A m \in Msgs : origin[m] \in Nodes => OneCopy(queue, m)

\* What becomes of each socket and each application when got[r] copies of p come
\* to host r.
Brings(got, q, hosts, dest, p) ==
    \A r \in Nodes :
        /\ got[r] \in Copies(dest) /\ got[r] \in Nat
        /\ got[r] > 0 => r \in hosts
        /\ got[r] <= 1 \/ p.msg \in duplicated'[r]
        /\ \A m \in Msgs : m \in duplicated[r] => m \in duplicated'[r]
        /\ \A s \in Sockets :
              queue'[r][s] = IF Listener(r, dest.sin_port) = s
                             THEN Appended(q[r][s], p, got[r]) ELSE q[r][s]
        /\ \A m \in Msgs :
              delivered'[r][m] = IF Listener(r, dest.sin_port) = "application" /\ m = p.msg
                                 THEN delivered[r][m] + got[r] ELSE delivered[r][m]

LEMMA SendExactly ==
    ASSUME TypeOK, NEW q, NEW hosts, NEW dest, NEW p, SendStep(q, hosts, dest, p)
    PROVE  \E got : Brings(got, q, hosts, dest, p)
<1> DEFINE heard(r) == Listener(r, dest.sin_port)
<1>1. PICK got \in [Nodes -> Copies(dest)] :
         /\ \A r \in Nodes : got[r] > 0 =>
               r \in hosts /\ heard(r) # "none" /\ Fits(q, r, heard(r), got[r])
         /\ queue' = [r \in Nodes |-> [s \in Sockets |->
                        IF heard(r) = s THEN Appended(q[r][s], p, got[r]) ELSE q[r][s]]]
         /\ delivered' = [r \in Nodes |-> [m \in Msgs |->
                        IF heard(r) = "application" /\ m = p.msg
                        THEN delivered[r][m] + got[r] ELSE delivered[r][m]]]
         /\ duplicated' = [r \in Nodes |->
                        IF got[r] > 1 THEN duplicated[r] \union {p.msg} ELSE duplicated[r]]
  BY DEF SendStep, Transmit
<1> HIDE DEF heard
<1>2. \A r \in Nodes : got[r] \in Nat
  BY <1>1, BoundsAssumption DEF Copies
<1>3. ASSUME NEW r \in Nodes
      PROVE  /\ got[r] \in Copies(dest) /\ got[r] \in Nat
             /\ got[r] > 0 => r \in hosts
             /\ got[r] <= 1 \/ p.msg \in duplicated'[r]
             /\ \A m \in Msgs : m \in duplicated[r] => m \in duplicated'[r]
  BY <1>1, <1>2
<1>4. ASSUME NEW r \in Nodes
      PROVE  /\ \A s \in Sockets :
                   queue'[r][s] = IF heard(r) = s THEN Appended(q[r][s], p, got[r]) ELSE q[r][s]
             /\ \A m \in Msgs :
                   delivered'[r][m] = IF heard(r) = "application" /\ m = p.msg
                                      THEN delivered[r][m] + got[r] ELSE delivered[r][m]
  BY <1>1
<1> QED
  BY <1>3, <1>4 DEF heard, Brings

\* A send changes the copies of no other message.
LEMMA SendKeepsOtherCopies ==
    ASSUME TypeOK, NEW q, NEW hosts, NEW dest, NEW p, SendStep(q, hosts, dest, p),
           NEW m \in Msgs, m # p.msg, m \in sent' <=> m \in sent, OneCopy(q, m)
    PROVE  OneCopy(queue, m)'
<1>1. p \in Packet /\ \A r \in Nodes, s \in Sockets : q[r][s] \in Seq(Packet)
  BY DEF SendStep, Queues
<1>2. PICK got : Brings(got, q, hosts, dest, p)
  BY SendExactly
<1>4. \A r \in Nodes : /\ m \in duplicated[r] => m \in duplicated'[r]
                       /\ delivered'[r][m] = delivered[r][m]
  BY <1>2 DEF Brings
<1>3. ASSUME NEW r \in Nodes, NEW s \in Sockets
      PROVE  /\ Without(q[r][s], m) => Without(queue'[r][s], m)
             /\ AtMostOneOf(q[r][s], m) => AtMostOneOf(queue'[r][s], m)
  <2>1. q[r][s] \in Seq(Packet) /\ p \in Packet /\ p.msg # m /\ got[r] \in Nat
    BY <1>1, <1>2 DEF Brings
  <2>2. queue'[r][s] = Appended(q[r][s], p, got[r]) \/ queue'[r][s] = q[r][s]
    BY <1>2 DEF Brings
  <2> QED
    BY <2>1, <2>2, AddedCopies
<1> QED
  BY <1>3, <1>4 DEF OneCopy, NotBroadcast, Sockets

\* A daemon sends on the one copy that it has taken from its socket.
LEMMA SendKeepsOneCopy ==
    ASSUME TypeOK, NEW q, NEW hosts, NEW dest, NEW p, SendStep(q, hosts, dest, p),
           NEW m \in Msgs, m = p.msg, m \in sent', OneCopy(q, m),
           \A r \in Nodes : Without(q[r]["app"], m),
           \A r \in hosts :
              /\ Listener(r, dest.sin_port) # "app"
              /\ m \notin duplicated[r] => Without(q[r]["net"], m) /\ delivered[r][m] = 0
    PROVE  OneCopy(queue, m)'
<1>1. /\ p \in Packet /\ hosts \subseteq Nodes
      /\ \A r \in Nodes, s \in Sockets : q[r][s] \in Seq(Packet)
  BY DEF SendStep, Queues
<1>0. PICK got : Brings(got, q, hosts, dest, p)
  BY SendExactly
<1>2. ASSUME NEW r \in Nodes
      PROVE  /\ got[r] \in Nat
             /\ got[r] > 0 => r \in hosts
             /\ got[r] <= 1 \/ m \in duplicated'[r]
             /\ m \in duplicated[r] => m \in duplicated'[r]
             /\ \A s \in Sockets :
                   queue'[r][s] = IF Listener(r, dest.sin_port) = s
                                  THEN Appended(q[r][s], p, got[r]) ELSE q[r][s]
             /\ delivered'[r][m] = IF Listener(r, dest.sin_port) = "application"
                                   THEN delivered[r][m] + got[r] ELSE delivered[r][m]
  BY <1>0 DEF Brings
<1>3. ASSUME NEW r \in Nodes
      PROVE  Without(queue'[r]["app"], m) /\ AtMostOneOf(queue'[r]["app"], m)
  <2>1. q[r]["app"] \in Seq(Packet) /\ got[r] \in Nat /\ Without(q[r]["app"], m)
    BY <1>1, <1>2 DEF Sockets
  <2>2. \/ queue'[r]["app"] = q[r]["app"]
        \/ queue'[r]["app"] = Appended(q[r]["app"], p, 0)
    <3>1. Listener(r, dest.sin_port) # "app" \/ got[r] = 0
      BY <1>2, <2>1
    <3>2. CASE Listener(r, dest.sin_port) = "app"
      <4>1. got[r] = 0
        BY <3>1, <3>2
      <4>2. queue'[r]["app"] = Appended(q[r]["app"], p, got[r])
        BY <1>2, <3>2 DEF Sockets
      <4> QED
        BY <4>1, <4>2
    <3>3. CASE Listener(r, dest.sin_port) # "app"
      BY <1>2, <3>3 DEF Sockets
    <3> QED
      BY <3>2, <3>3
  <2>3. Without(queue'[r]["app"], m)
    BY <1>1, <2>1, <2>2, AddedCopies
  <2> QED
    BY <2>3 DEF Without, AtMostOneOf
<1>4. ASSUME NEW r \in Nodes, m \notin duplicated'[r]
      PROVE  /\ AtMostOneOf(queue'[r]["net"], m)
             /\ delivered'[r][m] \in {0, 1}
             /\ Without(queue'[r]["net"], m) \/ delivered'[r][m] = 0
  <2>1. /\ m \notin duplicated[r] /\ got[r] \in {0, 1}
        /\ q[r]["net"] \in Seq(Packet) /\ delivered[r][m] \in Nat
    <3>1. got[r] \in Nat /\ got[r] <= 1 /\ m \notin duplicated[r]
      BY <1>2, <1>4
    <3>2. q[r]["net"] \in Seq(Packet)
      BY <1>1 DEF Sockets
    <3>3. delivered[r][m] \in Nat
      BY DEF TypeOK
    <3> QED
      BY <3>1, <3>2, <3>3
  <2>2. /\ AtMostOneOf(q[r]["net"], m)
        /\ delivered[r][m] \in {0, 1}
        /\ Without(q[r]["net"], m) \/ delivered[r][m] = 0
    BY <2>1 DEF OneCopy
  <2>3. CASE got[r] = 0
    <3>1. delivered'[r][m] = delivered[r][m]
      BY <1>2, <2>1, <2>3
    <3>2. \/ queue'[r]["net"] = q[r]["net"]
          \/ queue'[r]["net"] = Appended(q[r]["net"], p, 0)
      BY <1>2, <2>3 DEF Sockets
    <3>3. /\ AtMostOneOf(queue'[r]["net"], m)
          /\ Without(q[r]["net"], m) => Without(queue'[r]["net"], m)
      BY <1>1, <2>1, <2>2, <3>2, AddedCopies
    <3> QED
      BY <2>2, <3>1, <3>3
  <2>4. CASE got[r] = 1
    <3>1. Without(q[r]["net"], m) /\ delivered[r][m] = 0
      BY <1>2, <2>1, <2>4
    <3>2. CASE Listener(r, dest.sin_port) = "net"
      <4>1. queue'[r]["net"] = Appended(q[r]["net"], p, 1) /\ delivered'[r][m] = 0
        BY <1>2, <2>4, <3>1, <3>2 DEF Sockets
      <4>2. AtMostOneOf(queue'[r]["net"], m)
        BY <1>1, <2>1, <3>1, <4>1, AddedCopies
      <4> QED
        BY <4>1, <4>2
    <3>3. CASE Listener(r, dest.sin_port) # "net"
      <4>1. queue'[r]["net"] = q[r]["net"] /\ delivered'[r][m] \in {0, 1}
        BY <1>2, <2>4, <3>1, <3>3 DEF Sockets
      <4> QED
        BY <2>2, <3>1, <4>1
    <3> QED
      BY <3>2, <3>3
  <2> QED
    BY <2>1, <2>3, <2>4
<1> QED
  BY <1>3, <1>4 DEF OneCopy

LEMMA DequeuedCopies ==
    ASSUME TypeOK, NEW n \in Nodes, NEW s \in Sockets, queue[n][s] # << >>,
           NEW m \in Msgs, OneCopy(queue, m)
    PROVE  LET q == Dequeued(n, s)
               p == Head(queue[n][s])
           IN  /\ OneCopy(q, m)
               /\ \A r \in Nodes, t \in Sockets : Without(queue[r][t], m) => Without(q[r][t], m)
               /\ p.msg = m => ~Without(queue[n][s], m)
               /\ p.msg = m /\ (s = "app" \/ m \notin duplicated[n]) => Without(q[n][s], m)
<1> DEFINE q == Dequeued(n, s)
           p == Head(queue[n][s])
<1>1. queue \in [Nodes -> [Sockets -> Seq(Packet)]]
  BY DEF TypeOK
<1>2. q[n][s] = Tail(queue[n][s])
  BY <1>1 DEF Dequeued
<1>3. \A r \in Nodes, t \in Sockets : r # n \/ t # s => q[r][t] = queue[r][t]
  BY <1>1 DEF Dequeued
<1>4. queue[n][s] \in Seq(Packet)
  BY <1>1
<1> HIDE DEF q, p
<1>5. s = "app" \/ m \notin duplicated[n] => AtMostOneOf(queue[n][s], m)
  BY DEF OneCopy, Sockets
<1>6. /\ p.msg = m => ~Without(queue[n][s], m)
      /\ p.msg = m /\ (s = "app" \/ m \notin duplicated[n]) => Without(q[n][s], m)
  BY <1>2, <1>4, <1>5, TailCopies DEF p
<1>7. \A r \in Nodes, t \in Sockets :
         /\ Without(queue[r][t], m) => Without(q[r][t], m)
         /\ AtMostOneOf(queue[r][t], m) => AtMostOneOf(q[r][t], m)
  <2> SUFFICES ASSUME NEW r \in Nodes, NEW t \in Sockets
               PROVE  /\ Without(queue[r][t], m) => Without(q[r][t], m)
                      /\ AtMostOneOf(queue[r][t], m) => AtMostOneOf(q[r][t], m)
    OBVIOUS
  <2>1. CASE r = n /\ t = s
    BY <2>1, <1>2, <1>4, TailCopies
  <2>2. CASE r # n \/ t # s
    BY <2>2, <1>3
  <2> QED
    BY <2>1, <2>2
<1>8. OneCopy(q, m)
  BY <1>7 DEF OneCopy, NotBroadcast, Sockets
<1> QED
  BY <1>6, <1>7, <1>8 DEF q, p

LEMMA OneCopyInit == Init => OneCopyInv
BY DEF Init, OneCopyInv, OneCopy, NotBroadcast, Without, AtMostOneOf, Sockets

LEMMA OneCopyStep == TypeOK /\ WayInv /\ OneCopyInv /\ [Next]_vars => OneCopyInv'
<1> SUFFICES ASSUME TypeOK, WayInv, OneCopyInv, PortHygiene, [Next]_vars,
                    NEW m \in Msgs, origin[m] \in Nodes
             PROVE  OneCopy(queue, m)'
  <2>1. [Next]_vars => cfg' = cfg
    BY DEF Next, Daemon, AppSend, OutsideSend, cb_broadcast_recvfrom, cb_forward_recvfrom, vars
  <2>2. cfg' = cfg => (PortHygiene' <=> PortHygiene)
    BY DEF PortHygiene
  <2> QED
    BY <2>1, <2>2 DEF OneCopyInv
<1>0. OneCopy(queue, m)
  BY DEF OneCopyInv
<1>1. ASSUME NEW n \in Nodes, NEW k \in Msgs, AppSend(n, k) PROVE OneCopy(queue, m)'
  <2> DEFINE dest == sockaddr_in(INADDR_LOOPBACK, cfg[n].app_rx_port)
             p    == [msg |-> k, path |-> << >>]
  <2>1. SendStep(queue, {n}, dest, p)
    BY <1>1, AppSendStep
  <2>2. Listener(n, dest.sin_port) = "app"
    BY ListenerOfSocket DEF sockaddr_in
  <2>3. p.msg = k /\ k \notin sent /\ sent' = sent \union {k}
    BY <1>1 DEF AppSend
  <2>6. Copies(dest) = 0 .. 1
    BY DEF Copies, sockaddr_in, INADDR_LOOPBACK, INADDR_BROADCAST
  <2> HIDE DEF dest, p
  <2>4. CASE m # k
    BY <1>0, <2>1, <2>3, <2>4, SendKeepsOtherCopies
  <2>5. CASE m = k
    <3>1. /\ \A r \in Nodes : Without(queue[r]["app"], m) /\ Without(queue[r]["net"], m)
          /\ \A r \in Nodes : delivered[r][m] = 0
      BY <1>0, <2>3, <2>5 DEF OneCopy, NotBroadcast
    <3>2. p \in Packet /\ \A r \in Nodes : queue[r]["app"] \in Seq(Packet)
      BY <2>1 DEF SendStep, Queues, Sockets
    <3>0. PICK got : Brings(got, queue, {n}, dest, p)
      BY <2>1, SendExactly
    <3>3. ASSUME NEW r \in Nodes
          PROVE  /\ got[r] \in 0 .. 1
                 /\ got[r] > 0 => r = n
                 /\ \A s \in Sockets :
                       queue'[r][s] = IF Listener(r, dest.sin_port) = s
                                      THEN Appended(queue[r][s], p, got[r]) ELSE queue[r][s]
                 /\ delivered'[r][m] = IF Listener(r, dest.sin_port) = "application" /\ m = p.msg
                                       THEN delivered[r][m] + got[r] ELSE delivered[r][m]
      BY <2>6, <3>0 DEF Brings
    <3>5. ASSUME NEW r \in Nodes
          PROVE  /\ AtMostOneOf(queue'[r]["app"], m)
                 /\ Without(queue'[r]["net"], m) /\ delivered'[r][m] = 0
      <4>1. /\ queue[r]["app"] \in Seq(Packet) /\ queue[r]["net"] \in Seq(Packet)
            /\ got[r] \in {0, 1} /\ delivered[r][m] = 0
            /\ Without(queue[r]["app"], m) /\ Without(queue[r]["net"], m)
        BY <3>1, <3>3 DEF TypeOK, Sockets
      <4>2. AtMostOneOf(queue'[r]["app"], m)
        <5>1. \/ queue'[r]["app"] = queue[r]["app"]
              \/ queue'[r]["app"] = Appended(queue[r]["app"], p, got[r])
          BY <3>3 DEF Sockets
        <5>2. AtMostOneOf(queue[r]["app"], m)
          BY <4>1 DEF Without, AtMostOneOf
        <5> QED
          BY <3>2, <4>1, <5>1, <5>2, AddedCopies
      <4>3. got[r] = 0 \/ Listener(r, dest.sin_port) = "app"
        BY <2>2, <3>3, <4>1
      <4>4. delivered'[r][m] = 0
        BY <3>3, <4>1, <4>3
      <4>5. \/ queue'[r]["net"] = queue[r]["net"]
            \/ queue'[r]["net"] = Appended(queue[r]["net"], p, 0)
        BY <3>3, <4>3 DEF Sockets
      <4>6. Without(queue'[r]["net"], m)
        BY <3>2, <4>1, <4>5, AddedCopies
      <4> QED
        BY <4>2, <4>4, <4>6
    <3>6. \A r \in Nodes : AtMostOneOf(queue'[r]["net"], m)
      BY <3>5 DEF Without, AtMostOneOf
    <3> QED
      BY <2>3, <2>5, <3>5, <3>6 DEF OneCopy, NotBroadcast
  <2> QED
    BY <2>4, <2>5
<1>2. ASSUME NEW k \in Msgs, OutsideSend(k) PROVE OneCopy(queue, m)'
  <2> DEFINE p == [msg |-> k, path |-> << >>]
  <2>1. PICK hosts, dest : SendStep(queue, hosts, dest, p)
    BY <1>2, OutsideSendStep
  <2>2. k # m
    BY <1>2, OutsideSendStep, OriginAssumption
  <2>3. p.msg = k /\ sent' = sent \union {k}
    BY <1>2 DEF OutsideSend
  <2> HIDE DEF p
  <2> QED
    BY <1>0, <2>1, <2>2, <2>3, SendKeepsOtherCopies
<1>3. ASSUME NEW n \in Nodes, cb_broadcast_recvfrom(n) PROVE OneCopy(queue, m)'
  <2> DEFINE head == Head(queue[n]["app"])
             q    == Dequeued(n, "app")
             p    == Relayed(head, n, "cb_broadcast_recvfrom")
             port == broadcast_addr(n).sin_port
  <2>1. /\ head \in Packet /\ head \in Queued(n, "app")
        /\ SendStep(q, OnNetwork(iface[n]), broadcast_addr(n), p)
        /\ sent' = sent
    BY <1>3, BroadcastStep
  <2>2. p.msg = head.msg
    BY <2>1, RelayedPacket
  <2>3. queue[n]["app"] # << >>
    BY <1>3 DEF cb_broadcast_recvfrom
  <2>4. /\ OneCopy(q, m)
        /\ \A r \in Nodes, t \in Sockets : Without(queue[r][t], m) => Without(q[r][t], m)
        /\ head.msg = m => Without(q[n]["app"], m) /\ ~Without(queue[n]["app"], m)
    BY <1>0, <2>3, DequeuedCopies DEF Sockets
  <2>5. port = htons(cfg[n].tx_port)
    BY DEF broadcast_addr, init_broadcast_sockaddr_in, sockaddr_in
  <2>6. \A r \in OnNetwork(iface[n]) : r \in Nodes /\ Listener(r, port) # "app"
    BY <2>5, ListenerOfSocket DEF PortHygiene, OnNetwork
  <2>7. head.msg = m => origin[m] = n
    BY <2>1 DEF WayInv
  <2>8. \A r \in Nodes : r # n /\ origin[m] = n => Without(queue[r]["app"], m)
    BY DEF WayInv, Without, Queued
  <2> HIDE DEF head, q, p
  <2>9. CASE head.msg # m
    BY <2>1, <2>2, <2>4, <2>9, SendKeepsOtherCopies
  <2>10. CASE head.msg = m
    <3>1. \A r \in Nodes : Without(q[r]["app"], m)
      BY <2>4, <2>7, <2>8, <2>10 DEF Sockets
    <3>2. NotBroadcast(queue, m) /\ m \in sent
      BY <1>0, <2>4, <2>10 DEF OneCopy
    <3>3. \A r \in Nodes : Without(q[r]["net"], m) /\ delivered[r][m] = 0
      BY <2>4, <3>2 DEF NotBroadcast, Sockets
    <3> QED
      BY <2>1, <2>2, <2>4, <2>6, <2>10, <3>1, <3>2, <3>3, SendKeepsOneCopy
  <2> QED
    BY <2>9, <2>10
<1>4. ASSUME NEW n \in Nodes, cb_forward_recvfrom(n) PROVE OneCopy(queue, m)'
  <2> DEFINE head == Head(queue[n]["net"])
             q    == Dequeued(n, "net")
             p    == Relayed(head, n, "cb_forward_recvfrom")
             port == forwarding_addr(n).sin_port
  <2>1. head \in Packet /\ sent' = sent
    BY <1>4, ForwardStep
  <2>2. queue[n]["net"] # << >>
    BY <1>4 DEF cb_forward_recvfrom
  <2>3. /\ OneCopy(q, m)
        /\ \A r \in Nodes, t \in Sockets : Without(queue[r][t], m) => Without(q[r][t], m)
        /\ head.msg = m => ~Without(queue[n]["net"], m)
        /\ head.msg = m /\ m \notin duplicated[n] => Without(q[n]["net"], m)
    BY <1>0, <2>2, DequeuedCopies DEF Sockets
  <2>4. CASE SendStep(q, {n}, forwarding_addr(n), p)
    <3>1. p.msg = head.msg
      BY <2>1, RelayedPacket
    <3>2. port = htons(cfg[n].app_tx_port)
      BY DEF forwarding_addr, init_sockaddr_in, sockaddr_in
    <3>3. Listener(n, port) # "app"
      BY <3>2, ListenerOfSocket DEF PortHygiene
    <3> HIDE DEF head, q, p
    <3>4. CASE head.msg # m
      BY <2>1, <2>3, <2>4, <3>1, <3>4, SendKeepsOtherCopies
    <3>5. CASE head.msg = m
      <4>1. ~Without(queue[n]["net"], m)
        BY <2>3, <3>5
      <4>2. /\ m \notin duplicated[n] => delivered[n][m] = 0
            /\ ~NotBroadcast(queue, m)
        BY <1>0, <4>1 DEF OneCopy, NotBroadcast
      <4>3. m \in sent /\ \A r \in Nodes : Without(queue[r]["app"], m)
        BY <1>0, <4>2 DEF OneCopy
      <4>4. \A r \in Nodes : Without(q[r]["app"], m)
        BY <2>3, <4>3 DEF Sockets
      <4> QED
        BY <2>1, <2>3, <2>4, <3>1, <3>3, <3>5, <4>2, <4>3, <4>4, SendKeepsOneCopy
    <3> QED
      BY <3>4, <3>5
  <2>5. CASE queue' = q /\ UNCHANGED <<delivered, lost, duplicated>>
    BY <2>1, <2>3, <2>5 DEF OneCopy, NotBroadcast
  <2> QED
    BY <1>4, <2>4, <2>5, ForwardStep
<1>5. CASE UNCHANGED vars
  BY <1>0, <1>5 DEF vars, OneCopy, NotBroadcast
<1> QED
  BY <1>1, <1>2, <1>3, <1>4, <1>5 DEF Next, Daemon

\* With hygienic ports no application gets a message of another one twice, with
\* any number of daemons, whatever is looped back to its sender, unless the
\* network itself duplicated it.
THEOREM DeliveredAtMostOnce == Spec => []AtMostOnce
<1>1. OneCopyInv => AtMostOnce
  BY DEF OneCopyInv, OneCopy, AtMostOnce
<1> QED
  BY <1>1, TypeInit, TypeStep, WayInit, WayStep, OneCopyInit, OneCopyStep, PTL DEF Spec
=============================================================================

-------------------------- MODULE DaemonNet_proofs --------------------------
(***************************************************************************)
(* Proofs about DaemonNet: the steps of the callbacks, overtaken by        *)
(* whatever else happens, are steps of BroadcastNet.                       *)
(***************************************************************************)
EXTENDS DaemonNet, BroadcastNet_proofs, SequenceTheorems

----------------------------------------------------------------------------
(* What a callback holds *)

Calls == {"epoll_wait", "printf", "recvmsg", "sendto", "getchar"}

OneOrNone == {<< >>} \union {<<p>> : p \in Packet}

LoopTypeOK ==
    /\ TypeOK
    /\ pc \in [Nodes -> Calls]
    /\ cur \in [Nodes -> Sockets]
    /\ hand \in [Nodes -> OneOrNone]

\* Between a successful recvmsg and the end of sendto a callback holds one message
\* that it may send, and at no other time one.
HandInv ==
    \A n \in Nodes :
        /\ At(n, "sendto") => hand[n] # << >>
        /\ hand[n] # << >> =>
              /\ pc[n] \in {"printf", "sendto"}
              /\ Len(Head(hand[n]).path) < MaxRelays
              /\ ~(cur[n] = "net" /\ Blocked(n, Head(hand[n])))

LEMMA NetVarsKeepTypes == TypeOK /\ UNCHANGED netVars => TypeOK'
BY DEF TypeOK, netVars

LEMMA HandOfOne ==
    ASSUME NEW p \in Packet
    PROVE  /\ <<p>> # << >> /\ Head(<<p>>) = p /\ Tail(<<p>>) = << >>
           /\ <<p>> \in Seq(Packet) /\ << >> \in Seq(Packet)
           /\ Len(<<p>>) = 1 /\ Len(<< >>) = 0
OBVIOUS

LEMMA DestinationOfLoop ==
    ASSUME LoopTypeOK, NEW n \in Nodes
    PROVE  Reached(n, Destination(n).sin_addr) \in SUBSET Nodes
BY DEF Reached, OnNetwork

LEMMA OutgoingPacket ==
    ASSUME LoopTypeOK, NEW n \in Nodes, hand[n] # << >>
    PROVE  Outgoing(n) \in Packet
<1>1. PICK p \in Packet : hand[n] = <<p>>
  BY DEF LoopTypeOK, OneOrNone
<1>2. Head(hand[n]) = p
  BY <1>1, HandOfOne
<1> QED
  BY <1>2, RelayedPacket DEF Outgoing

LEMMA LoopInitTypes == LoopInit => LoopTypeOK /\ HandInv
BY TypeInit DEF LoopInit, LoopTypeOK, HandInv, At, Calls, Sockets, OneOrNone

LEMMA LoopTypeStep == LoopTypeOK /\ HandInv /\ [LoopNext]_allVars => LoopTypeOK'
<1> SUFFICES ASSUME LoopTypeOK, HandInv, [LoopNext]_allVars PROVE LoopTypeOK'
  OBVIOUS
<1>0. TypeOK
  BY DEF LoopTypeOK
<1>1. CASE Applications
  <2>1. Next
    BY <1>1 DEF Applications, Next
  <2>2. TypeOK'
    BY <1>0, <2>1, TypeStep
  <2> QED
    BY <1>1, <2>2 DEF Applications, loopVars, LoopTypeOK
<1>2. ASSUME NEW n \in Nodes, NEW s \in Sockets, cb_common(n, s) PROVE LoopTypeOK'
  BY <1>0, <1>2, NetVarsKeepTypes DEF cb_common, Goto, LoopTypeOK, Calls
<1>3. ASSUME NEW n \in Nodes, printf(n) PROVE LoopTypeOK'
  BY <1>0, <1>3, NetVarsKeepTypes DEF printf, Goto, LoopTypeOK, Calls
<1>4. ASSUME NEW n \in Nodes, recv_msg_error(n) PROVE LoopTypeOK'
  BY <1>0, <1>4, NetVarsKeepTypes DEF recv_msg_error, Goto, LoopTypeOK, Calls
<1>5. ASSUME NEW n \in Nodes, recv_msg(n) PROVE LoopTypeOK'
  <2> DEFINE p == Head(queue[n][cur[n]])
  <2>1. cur[n] \in Sockets /\ queue[n][cur[n]] # << >> /\ queue' = Dequeued(n, cur[n])
    BY <1>5 DEF recv_msg, LoopTypeOK
  <2>2. /\ Dequeued(n, cur[n]) \in Queues /\ p \in Packet
        /\ \A r \in Nodes, t \in Sockets : Len(Dequeued(n, cur[n])[r][t]) <= RcvBuf
    BY <1>0, <2>1, DequeuedEffect
  <2>3. TypeOK'
    BY <1>0, <1>5, <2>1, <2>2 DEF recv_msg, TypeOK, Queues
  <2>4. /\ pc' \in [Nodes -> Calls] /\ cur' = cur
        /\ hand' = hand \/ hand' = [hand EXCEPT ![n] = <<p>>]
    BY <1>5 DEF recv_msg, Goto, LoopTypeOK, Calls
  <2> HIDE DEF p
  <2> QED
    BY <2>2, <2>3, <2>4 DEF LoopTypeOK, OneOrNone
<1>6. ASSUME NEW n \in Nodes, send_message(n) PROVE LoopTypeOK'
  <2>1. /\ Transmit(queue, Reached(n, Destination(n).sin_addr), Destination(n), Outgoing(n))
        /\ hand[n] # << >>
    BY <1>6 DEF send_message, sendto, HandInv
  <2>2. SendStep(queue, Reached(n, Destination(n).sin_addr), Destination(n), Outgoing(n))
    BY <1>0, <2>1, DestinationOfLoop, OutgoingPacket DEF SendStep, TypeOK, Queues, Queued, Elements
  <2>3. TypeOK'
    BY <1>0, <1>6, <2>2, SendKeepsTypes DEF send_message, TypeOK
  <2> QED
    BY <1>6, <2>3 DEF send_message, Goto, LoopTypeOK, Calls, OneOrNone
<1>7. ASSUME NEW n \in Nodes, send_message_error(n) PROVE LoopTypeOK'
  <2>1. lost' \subseteq Nodes
    BY <1>0, <1>7, DestinationOfLoop DEF send_message_error, TypeOK
  <2>2. TypeOK'
    BY <1>0, <1>7, <2>1 DEF send_message_error, TypeOK
  <2> QED
    BY <1>7, <2>2 DEF send_message_error, Goto, LoopTypeOK, Calls, OneOrNone
<1>8. ASSUME NEW n \in Nodes, getchar(n) PROVE LoopTypeOK'
  BY <1>0, <1>8, NetVarsKeepTypes DEF getchar, Goto, LoopTypeOK, Calls
<1>9. CASE UNCHANGED allVars
  BY <1>0, <1>9, NetVarsKeepTypes DEF allVars, loopVars, LoopTypeOK
<1> QED
  BY <1>1, <1>2, <1>3, <1>4, <1>5, <1>6, <1>7, <1>8, <1>9 DEF LoopNext, Thread

\* Which packets a node blocks depends on the configurations alone.
LEMMA HandStep == LoopTypeOK /\ HandInv /\ [LoopNext]_allVars => HandInv'
<1> SUFFICES ASSUME LoopTypeOK, HandInv, [LoopNext]_allVars PROVE HandInv'
  OBVIOUS
<1>0. \A n \in Nodes : \A p : Blocked(n, p)' <=> Blocked(n, p)
  BY DEF Blocked, src_addr, init_sockaddr_in, sockaddr_in
<1> DEFINE Holds(n) ==
             /\ At(n, "sendto") => hand[n] # << >>
             /\ hand[n] # << >> =>
                   /\ pc[n] \in {"printf", "sendto"}
                   /\ Len(Head(hand[n]).path) < MaxRelays
                   /\ ~(cur[n] = "net" /\ Blocked(n, Head(hand[n])))
<1>a. \A n \in Nodes : Holds(n)
  BY DEF HandInv
<1>b. /\ pc \in [Nodes -> Calls] /\ cur \in [Nodes -> Sockets]
      /\ hand \in [Nodes -> OneOrNone]
  BY DEF LoopTypeOK
<1>c. ASSUME NEW n \in Nodes, pc'[n] = pc[n], cur'[n] = cur[n], hand'[n] = hand[n]
      PROVE  Holds(n)'
  BY <1>0, <1>a, <1>c DEF At
<1> SUFFICES ASSUME NEW n \in Nodes PROVE Holds(n)'
  BY DEF HandInv
<1> HIDE DEF Holds
<1>1. CASE Applications \/ UNCHANGED allVars
  BY <1>1, <1>c DEF Applications, allVars, loopVars
<1>2. ASSUME NEW k \in Nodes, k # n, Thread(k) PROVE Holds(n)'
  BY <1>2, <1>b, <1>c DEF Thread, cb_common, printf, recv_msg_error, recv_msg, send_message,
                    send_message_error, getchar, Goto
<1>3. ASSUME NEW s \in Sockets, cb_common(n, s) PROVE Holds(n)'
  BY <1>3, <1>a, <1>b DEF cb_common, Goto, At, Holds
<1>4. CASE printf(n)
  BY <1>4, <1>0, <1>a, <1>b DEF printf, Goto, At, Holds
<1>5. CASE recv_msg_error(n) \/ getchar(n)
  BY <1>5, <1>a, <1>b DEF recv_msg_error, getchar, Goto, At, Holds
<1>6. CASE recv_msg(n)
  <2> DEFINE p == Head(queue[n][cur[n]])
  <2>1. CASE hand' = hand
    <3>1. pc'[n] = "epoll_wait" /\ hand[n] = << >>
      <4>1. pc[n] = "recvmsg" /\ hand[n] = << >>
        BY <1>6, <1>a DEF recv_msg, At, Holds
      <4>2. p \in Packet
        BY <1>6, <1>b, DequeuedEffect DEF recv_msg, LoopTypeOK
      <4> QED
        BY <1>6, <1>b, <2>1, <4>1, <4>2, HandOfOne DEF recv_msg, Goto
    <3> QED
      BY <2>1, <3>1 DEF At, Holds
  <2>2. CASE hand' # hand
    <3>1. /\ ~(cur[n] = "net" /\ Blocked(n, p)) /\ Len(p.path) < MaxRelays
          /\ hand' = [hand EXCEPT ![n] = <<p>>] /\ pc' = [pc EXCEPT ![n] = "printf"]
          /\ cur' = cur
      BY <1>6, <2>2 DEF recv_msg, Goto
    <3>2. p \in Packet
      BY <1>6, <1>b, DequeuedEffect DEF recv_msg, LoopTypeOK
    <3>3. hand'[n] = <<p>> /\ Head(hand'[n]) = p /\ pc'[n] = "printf" /\ cur'[n] = cur[n]
      BY <1>b, <3>1, <3>2, HandOfOne
    <3> QED
      BY <1>0, <3>1, <3>3 DEF At, Holds
  <2> QED
    BY <2>1, <2>2
<1>7. CASE send_message(n) \/ send_message_error(n)
  BY <1>7, <1>b DEF send_message, send_message_error, Goto, At, Holds
<1> QED
  BY <1>1, <1>2, <1>3, <1>4, <1>5, <1>6, <1>7 DEF LoopNext, Thread

\* Every variable keeps its type, and a callback holds at most the one message
\* that it has read and is about to send.
THEOREM HandsAreRight == LoopSpec => [](LoopTypeOK /\ HandInv)
BY LoopInitTypes, LoopTypeStep, HandStep, PTL DEF LoopSpec

----------------------------------------------------------------------------
(* The callbacks as one step each *)

\* What of BroadcastNet does not look at the queues is the same for both.
LEMMA SameOperators ==
    /\ \A r, p : Atomic!Listener(r, p) = Listener(r, p)
    /\ \A n, a : Atomic!Reached(n, a) = Reached(n, a)
    /\ \A net : Atomic!OnNetwork(net) = OnNetwork(net)
    /\ \A n, p, c : Atomic!Relayed(p, n, c) = Relayed(p, n, c)
    /\ \A n, p : Atomic!Blocked(n, p) = Blocked(n, p)
    /\ \A n : Atomic!broadcast_addr(n) = broadcast_addr(n)
    /\ \A n : Atomic!forwarding_addr(n) = forwarding_addr(n)
    /\ \A a, p : Atomic!sockaddr_in(a, p) = sockaddr_in(a, p)
    /\ \A d : Atomic!Copies(d) = Copies(d)
    /\ \A q, p, k : Atomic!Appended(q, p, k) = Appended(q, p, k)
    /\ Atomic!BoundPorts = BoundPorts
    /\ Atomic!Sockets = Sockets
    /\ Atomic!INADDR_LOOPBACK = INADDR_LOOPBACK /\ Atomic!INADDR_BROADCAST = INADDR_BROADCAST
<1>1. \A r, p : Atomic!Listener(r, p) = Listener(r, p)
  BY DEF Atomic!Listener, Listener, Atomic!htons, htons,
         Atomic!UINT16_MAX, UINT16_MAX
<1>2. \A net : Atomic!OnNetwork(net) = OnNetwork(net)
  BY DEF Atomic!OnNetwork, OnNetwork
<1>3. \A n, a : Atomic!Reached(n, a) = Reached(n, a)
  BY <1>2 DEF Atomic!Reached, Reached, Atomic!INADDR_BROADCAST, INADDR_BROADCAST
<1>4. \A n, p, c : Atomic!Relayed(p, n, c) = Relayed(p, n, c)
  BY DEF Atomic!Relayed, Relayed
<1>5. \A a, p : Atomic!sockaddr_in(a, p) = sockaddr_in(a, p)
  BY DEF Atomic!sockaddr_in, sockaddr_in, Atomic!htons, htons,
         Atomic!UINT16_MAX, UINT16_MAX
<1>6. \A a, p : Atomic!init_sockaddr_in(a, p) = init_sockaddr_in(a, p)
  BY <1>5 DEF Atomic!init_sockaddr_in, init_sockaddr_in, Atomic!INADDR_ANY, INADDR_ANY
<1>7. \A p : Atomic!src_addr(p) = src_addr(p)
  BY DEF Atomic!src_addr, src_addr, Atomic!INADDR_ANY, INADDR_ANY,
         Atomic!INADDR_LOOPBACK, INADDR_LOOPBACK
<1>8. \A n, p : Atomic!Blocked(n, p) = Blocked(n, p)
  BY <1>6, <1>7 DEF Atomic!Blocked, Blocked
<1>9. \A n : /\ Atomic!broadcast_addr(n) = broadcast_addr(n)
             /\ Atomic!forwarding_addr(n) = forwarding_addr(n)
  BY <1>5, <1>6 DEF Atomic!broadcast_addr, broadcast_addr, Atomic!forwarding_addr, forwarding_addr,
                    Atomic!init_broadcast_sockaddr_in, init_broadcast_sockaddr_in,
                    Atomic!INADDR_BROADCAST, INADDR_BROADCAST
<1>10. /\ Atomic!BoundPorts = BoundPorts /\ Atomic!Sockets = Sockets
       /\ Atomic!INADDR_LOOPBACK = INADDR_LOOPBACK /\ Atomic!INADDR_BROADCAST = INADDR_BROADCAST
  BY DEF Atomic!BoundPorts, BoundPorts, Atomic!Sockets, Sockets, Atomic!INADDR_LOOPBACK,
         INADDR_LOOPBACK, Atomic!INADDR_BROADCAST, INADDR_BROADCAST
<1>11. \A d : Atomic!Copies(d) = Copies(d)
  BY DEF Atomic!Copies, Copies, Atomic!INADDR_BROADCAST, INADDR_BROADCAST
<1>12. \A q, p, k : Atomic!Appended(q, p, k) = Appended(q, p, k)
  BY DEF Atomic!Appended, Appended
<1> QED
  BY <1>1, <1>2, <1>3, <1>4, <1>5, <1>8, <1>9, <1>10, <1>11, <1>12

\* Transmit with the copies that come to each node named: q are the receive
\* buffers before it, after those that it leaves, and room is what they take.
Comes(got, q, after, room, hosts, dest, p) ==
    LET heard(r) == Listener(r, dest.sin_port)
        hearers  == {r \in hosts : heard(r) # "none"}
    IN  /\ got \in [Nodes -> Copies(dest)]
        /\ \A r \in Nodes : got[r] > 0 =>
              /\ r \in hearers
              /\ heard(r) \in Sockets => Len(q[r][heard(r)]) + got[r] <= room
        /\ after = [r \in Nodes |-> [s \in Sockets |->
                       IF heard(r) = s THEN Appended(q[r][s], p, got[r]) ELSE q[r][s]]]
        /\ delivered' = [r \in Nodes |-> [m \in Msgs |->
                       IF heard(r) = "application" /\ m = p.msg
                       THEN delivered[r][m] + got[r] ELSE delivered[r][m]]]
        /\ lost' = lost \union {r \in hearers : got[r] = 0}
        /\ duplicated' = [r \in Nodes |->
                       IF got[r] > 1 THEN duplicated[r] \union {p.msg} ELSE duplicated[r]]

LEMMA TransmitComes ==
    ASSUME NEW q, NEW hosts, NEW dest, NEW p
    PROVE  Transmit(q, hosts, dest, p) <=>
               \E got : Comes(got, q, queue', RcvBuf, hosts, dest, p)
BY DEF Transmit, Comes, Fits

LEMMA AtomicTransmitComes ==
    ASSUME NEW got, NEW q, NEW hosts, NEW dest, NEW p,
           Comes(got, q, Unsent', RcvBuf + 1, hosts, dest, p)
    PROVE  Atomic!Transmit(q, hosts, dest, p)
<1> DEFINE heard(r) == Atomic!Listener(r, dest.sin_port)
           hearers  == {r \in hosts : heard(r) # "none"}
<1>1. /\ \A r : heard(r) = Listener(r, dest.sin_port)
      /\ Atomic!Copies(dest) = Copies(dest)
      /\ \A t, x, k : Atomic!Appended(t, x, k) = Appended(t, x, k)
      /\ Atomic!Sockets = Sockets
  BY SameOperators
<1> HIDE DEF heard
<1>2. got \in [Nodes -> Atomic!Copies(dest)]
  BY <1>1 DEF Comes
<1>3. \A r \in Nodes : got[r] > 0 => r \in hearers /\ Atomic!Fits(q, r, heard(r), got[r])
  BY <1>1 DEF Comes, Atomic!Fits
<1>4. Unsent' = [r \in Nodes |-> [s \in Atomic!Sockets |->
                   IF heard(r) = s THEN Atomic!Appended(q[r][s], p, got[r]) ELSE q[r][s]]]
  BY <1>1 DEF Comes
<1>5. delivered' = [r \in Nodes |-> [m \in Msgs |->
                   IF heard(r) = "application" /\ m = p.msg
                   THEN delivered[r][m] + got[r] ELSE delivered[r][m]]]
  BY <1>1 DEF Comes
<1>6. lost' = lost \union {r \in hearers : got[r] = 0}
  BY <1>1 DEF Comes
<1>7. duplicated' = [r \in Nodes |->
                   IF got[r] > 1 THEN duplicated[r] \union {p.msg} ELSE duplicated[r]]
  BY DEF Comes
<1> QED
  BY <1>2, <1>3, <1>4, <1>5, <1>6, <1>7, Zenon DEF Atomic!Transmit, heard

\* The queues with the messages in h put back to their heads.
WithHands(h) ==
    [n \in Nodes |-> [s \in Sockets |->
        IF s = cur[n] THEN h[n] \o queue[n][s] ELSE queue[n][s]]]

LEMMA UnsentIsWithHands == Unsent = WithHands(hand)
BY DEF Unsent, WithHands

LEMMA HandThenQueue ==
    ASSUME NEW seq \in Seq(Packet), NEW p \in Packet
    PROVE  /\ << >> \o seq = seq
           /\ <<p>> \o seq # << >> /\ Head(<<p>> \o seq) = p /\ Tail(<<p>> \o seq) = seq
           /\ Len(<<p>> \o seq) = Len(seq) + 1
           /\ seq # << >> => <<Head(seq)>> \o Tail(seq) = seq
OBVIOUS

Behind(h, seq) == h \o seq

LEMMA AppendBehindHand ==
    ASSUME NEW seq \in Seq(Packet), NEW p \in Packet, NEW h \in OneOrNone, NEW k \in Nat
    PROVE  /\ Behind(h, Appended(seq, p, k)) = Appended(Behind(h, seq), p, k)
           /\ Len(Behind(h, seq)) \in Nat /\ Len(Behind(h, seq)) <= Len(seq) + 1
<1> DEFINE copies == [i \in 1 .. k |-> p]
<1>1. copies \in Seq(Packet)
  OBVIOUS
<1> HIDE DEF copies
<1>2. ASSUME NEW g \in Seq(Packet)
      PROVE  g \o (seq \o copies) = (g \o seq) \o copies
  <2>1. (g \o seq) \o copies = g \o (seq \o copies)
    BY <1>1, ConcatAssociative
  <2> QED
    BY <2>1, Zenon
<1>3. h \in Seq(Packet) /\ Len(h) <= 1
  <2>1. CASE h = << >>
    BY <2>1
  <2>2. ASSUME NEW x \in Packet, h = <<x>> PROVE h \in Seq(Packet) /\ Len(h) <= 1
    BY <2>2, HandOfOne
  <2> QED
    BY <2>1, <2>2 DEF OneOrNone
<1>4. h \o Appended(seq, p, k) = Appended(h \o seq, p, k)
  BY <1>2, <1>3 DEF Appended, copies
<1>5. Len(h \o seq) \in Nat /\ Len(h \o seq) <= Len(seq) + 1
  BY <1>3
<1> QED
  BY <1>4, <1>5 DEF Behind

LEMMA NothingAppended ==
    ASSUME NEW seq \in Seq(Packet), NEW p \in Packet
    PROVE  Appended(seq, p, 0) = seq
<1> DEFINE longer == Appended(seq, p, 0)
<1>1. /\ longer \in Seq(Packet) /\ Len(longer) = Len(seq)
      /\ \A i \in 1 .. Len(longer) : \/ i \in 1 .. Len(seq) /\ longer[i] = seq[i]
                                     \/ i > Len(seq) /\ longer[i] = p
  BY CopiesFollow
<1> HIDE DEF longer
<1>2. \A i \in 1 .. Len(seq) : longer[i] = seq[i]
  BY <1>1
<1>3. longer = seq
  BY <1>1, <1>2
<1> QED
  BY <1>3 DEF longer

LEMMA QueueBehindHand ==
    ASSUME NEW seq \in Seq(Packet), NEW h \in OneOrNone
    PROVE  \A i \in 1 .. Len(seq) : \E j \in 1 .. Len(h \o seq) : (h \o seq)[j] = seq[i]
<1>1. CASE h = << >>
  <2>1. h \o seq = seq
    BY <1>1
  <2> QED
    BY <2>1
<1>2. ASSUME NEW x \in Packet, h = <<x>>, NEW i \in 1 .. Len(seq)
      PROVE  \E j \in 1 .. Len(h \o seq) : (h \o seq)[j] = seq[i]
  <2>1. Len(seq) \in Nat /\ Len(<<x>> \o seq) = Len(seq) + 1
    OBVIOUS
  <2>2. i + 1 \in 1 .. Len(seq) + 1 /\ (<<x>> \o seq)[i + 1] = seq[i]
    BY <2>1
  <2> QED
    BY <1>2, <2>1, <2>2
<1> QED
  BY <1>1, <1>2 DEF OneOrNone

\* A send is also one behind the hands as they are after it: a buffer that is full
\* there, where it is one longer for the message in hand, is full here.
LEMMA TransmitBehindHands ==
    ASSUME LoopTypeOK, hand' \in [Nodes -> OneOrNone], cur' = cur,
           NEW hosts \in SUBSET Nodes, NEW dest, NEW p \in Packet,
           Transmit(queue, hosts, dest, p)
    PROVE  Atomic!Transmit(WithHands(hand'), hosts, dest, p)
<1> DEFINE heard(r) == Listener(r, dest.sin_port)
           q == WithHands(hand')
<1>1. PICK got : Comes(got, queue, queue', RcvBuf, hosts, dest, p)
  BY TransmitComes
<1>2. /\ got \in [Nodes -> Copies(dest)]
      /\ \A r \in Nodes : got[r] > 0 =>
            /\ r \in hosts /\ heard(r) # "none"
            /\ heard(r) \in Sockets => Len(queue[r][heard(r)]) + got[r] <= RcvBuf
      /\ queue' = [r \in Nodes |-> [s \in Sockets |->
                     IF heard(r) = s THEN Appended(queue[r][s], p, got[r]) ELSE queue[r][s]]]
  BY <1>1 DEF Comes
<1> HIDE DEF heard
<1>3. ASSUME NEW r \in Nodes, NEW s \in Sockets
      PROVE  /\ queue[r][s] \in Seq(Packet) /\ hand'[r] \in OneOrNone /\ got[r] \in Nat
             /\ q[r][s] = IF s = cur'[r] THEN hand'[r] \o queue[r][s] ELSE queue[r][s]
  BY <1>2, BoundsAssumption DEF LoopTypeOK, TypeOK, Copies, WithHands
<1> HIDE DEF q
<1>4. ASSUME NEW r \in Nodes, got[r] > 0, heard(r) \in Sockets
      PROVE  Len(q[r][heard(r)]) + got[r] <= RcvBuf + 1
  <2> DEFINE seq == queue[r][heard(r)]
             both == Behind(hand'[r], seq)
  <2>1. Len(both) <= Len(seq) + 1
    BY <1>3, <1>4, AppendBehindHand
  <2>2. Len(seq) \in Nat
    BY <1>3, <1>4
  <2>3. Len(seq) + got[r] <= RcvBuf
    BY <1>2, <1>4
  <2>4. q[r][heard(r)] = seq \/ q[r][heard(r)] = both
    BY <1>3, <1>4 DEF Behind
  <2>5. Len(both) \in Nat
    BY <1>3, <1>4, AppendBehindHand
  <2>6. got[r] \in Nat
    BY <1>3, <1>4
  <2> HIDE DEF seq, both
  <2> QED
    BY <2>1, <2>2, <2>3, <2>4, <2>5, <2>6, BoundsAssumption
<1>5. ASSUME NEW r \in Nodes, NEW s \in Sockets
      PROVE  (IF s = cur'[r] THEN hand'[r] \o queue'[r][s] ELSE queue'[r][s]) =
             (IF heard(r) = s THEN Appended(q[r][s], p, got[r]) ELSE q[r][s])
  <2> DEFINE both   == Behind(hand'[r], queue[r][s])
             longer == Behind(hand'[r], Appended(queue[r][s], p, got[r]))
  <2>1. longer = Appended(both, p, got[r])
    BY <1>3, AppendBehindHand
  <2>2. queue'[r][s] = IF heard(r) = s THEN Appended(queue[r][s], p, got[r]) ELSE queue[r][s]
    BY <1>2
  <2>3. hand'[r] \o queue'[r][s] = IF heard(r) = s THEN longer ELSE both
    BY <2>2 DEF Behind
  <2>4. q[r][s] = IF s = cur'[r] THEN both ELSE queue[r][s]
    BY <1>3 DEF Behind
  <2> HIDE DEF both, longer
  <2> QED
    BY <2>1, <2>2, <2>3, <2>4
<1>6. Unsent' = [r \in Nodes |-> [s \in Sockets |->
                   IF heard(r) = s THEN Appended(q[r][s], p, got[r]) ELSE q[r][s]]]
  BY <1>5 DEF Unsent
<1>7. Comes(got, q, Unsent', RcvBuf + 1, hosts, dest, p)
  BY <1>1, <1>4, <1>6 DEF Comes, heard
<1> QED
  BY <1>7, AtomicTransmitComes DEF q

LEMMA NothingMoves ==
    UNCHANGED <<netVars, cur, hand>> => UNCHANGED Atomic!vars
BY DEF netVars, Atomic!vars, Unsent

LEMMA InitIsAtomic == LoopInit => Atomic!Init
<1> SUFFICES ASSUME LoopInit PROVE Atomic!Init
  OBVIOUS
<1>1. /\ cfg \in [Nodes -> Configs] /\ sent = {} /\ lost = {}
      /\ delivered = [n \in Nodes |-> [m \in Msgs |-> 0]]
      /\ duplicated = [n \in Nodes |-> {}]
  BY DEF LoopInit, Init
<1>2. Unsent = [n \in Nodes |-> [s \in Sockets |-> << >>]]
  BY DEF LoopInit, Init, Unsent
<1> QED
  BY <1>1, <1>2, SameOperators DEF Atomic!Init

LEMMA AppSendIsAtomic ==
    ASSUME LoopTypeOK, NEW n \in Nodes, NEW m \in Msgs, AppSend(n, m), UNCHANGED loopVars
    PROVE  Atomic!AppSend(n, m)
<1> DEFINE p == [msg |-> m, path |-> << >>]
           dest == sockaddr_in(INADDR_LOOPBACK, cfg[n].app_rx_port)
<1>1. /\ origin[m] = n /\ m \notin sent /\ sent' = sent \union {m} /\ UNCHANGED cfg
      /\ Transmit(queue, {n}, dest, p)
  BY DEF AppSend
<1>2. p \in Packet
  BY DEF Packet
<1>3. hand' \in [Nodes -> OneOrNone] /\ hand' = hand /\ cur' = cur
  BY DEF loopVars, LoopTypeOK
<1> HIDE DEF p, dest
<1>4. Atomic!Transmit(Unsent, {n}, dest, p)
  BY <1>1, <1>2, <1>3, TransmitBehindHands, UnsentIsWithHands
<1> QED
  BY <1>1, <1>4, SameOperators DEF Atomic!AppSend, p, dest

LEMMA OutsideSendIsAtomic ==
    ASSUME LoopTypeOK, NEW m \in Msgs, OutsideSend(m), UNCHANGED loopVars
    PROVE  Atomic!OutsideSend(m)
<1> DEFINE p == [msg |-> m, path |-> << >>]
<1>1. /\ origin[m] \in Outside /\ m \notin sent /\ sent' = sent \union {m} /\ UNCHANGED cfg
  BY DEF OutsideSend
<1>2. PICK net \in attached[origin[m]], port \in BoundPorts :
         Transmit(queue, OnNetwork(net), sockaddr_in(INADDR_BROADCAST, port), p)
  BY DEF OutsideSend
<1> DEFINE dest == sockaddr_in(INADDR_BROADCAST, port)
<1>3. p \in Packet /\ OnNetwork(net) \in SUBSET Nodes
  BY DEF Packet, OnNetwork
<1>4. hand' \in [Nodes -> OneOrNone] /\ hand' = hand /\ cur' = cur
  BY DEF loopVars, LoopTypeOK
<1> HIDE DEF p, dest
<1>5. Transmit(queue, OnNetwork(net), dest, p)
  BY <1>2 DEF dest
<1>6. Atomic!Transmit(Unsent, OnNetwork(net), dest, p)
  BY <1>3, <1>4, <1>5, TransmitBehindHands, UnsentIsWithHands
<1> QED
  BY <1>1, <1>6, SameOperators DEF Atomic!OutsideSend, p, dest

LEMMA DequeuedUnsent ==
    ASSUME NEW n \in Nodes, NEW s \in Sockets
    PROVE  Atomic!Dequeued(n, s) =
               [r \in Nodes |-> [t \in Sockets |->
                   IF r = n /\ t = s THEN Tail(Unsent[r][t]) ELSE Unsent[r][t]]]
BY DEF Atomic!Dequeued, Unsent

\* recvmsg moves a message from the queue to the hand, or drops its own broadcast.
LEMMA ReceiveIsAtomic ==
    ASSUME LoopTypeOK, HandInv, NEW n \in Nodes, recv_msg(n)
    PROVE  Atomic!cb_forward_recvfrom(n) \/ UNCHANGED Atomic!vars
<1> DEFINE p == Head(queue[n][cur[n]])
<1>1. /\ At(n, "recvmsg") /\ queue[n][cur[n]] # << >> /\ queue' = Dequeued(n, cur[n])
      /\ UNCHANGED <<cfg, sent, delivered, lost, duplicated, cur>>
      /\ \/ cur[n] = "net" /\ Blocked(n, p) /\ UNCHANGED hand
         \/ hand' = [hand EXCEPT ![n] = <<p>>]
  BY DEF recv_msg
<1>2. /\ queue \in [Nodes -> [Sockets -> Seq(Packet)]] /\ cur \in [Nodes -> Sockets]
      /\ hand \in [Nodes -> OneOrNone]
  BY DEF LoopTypeOK, TypeOK
<1>3. hand[n] = << >>
  BY <1>1 DEF HandInv, At
<1>4. /\ cur[n] \in Sockets /\ queue[n][cur[n]] \in Seq(Packet)
  BY <1>2
<1>5. p \in Packet
  BY <1>1, <1>4, TailElements
<1>6. /\ queue'[n][cur[n]] = Tail(queue[n][cur[n]])
      /\ \A r \in Nodes, s \in Sockets : r # n \/ s # cur[n] => queue'[r][s] = queue[r][s]
  BY <1>1, <1>2 DEF Dequeued
<1>7. Unsent[n][cur[n]] = queue[n][cur[n]]
  <2>1. << >> \o queue[n][cur[n]] = queue[n][cur[n]]
    BY <1>4, <1>5, HandThenQueue
  <2> QED
    BY <1>3, <1>4, <2>1 DEF Unsent
<1>8. CASE cur[n] = "net" /\ Blocked(n, p) /\ UNCHANGED hand
  <2>1. /\ Unsent[n]["net"] # << >> /\ Atomic!Blocked(n, Head(Unsent[n]["net"]))
    BY <1>1, <1>7, <1>8, SameOperators
  <2>2. ASSUME NEW r \in Nodes, NEW s \in Sockets
        PROVE  (IF s = cur'[r] THEN hand'[r] \o queue'[r][s] ELSE queue'[r][s]) =
               (IF r = n /\ s = "net" THEN Tail(Unsent[r][s]) ELSE Unsent[r][s])
    <3>1. Tail(queue[n]["net"]) \in Seq(Packet)
      BY <1>1, <1>4, <1>8, TailElements
    <3>2. << >> \o Tail(queue[n]["net"]) = Tail(queue[n]["net"])
      BY <1>5, <3>1, HandThenQueue
    <3>3. CASE r = n /\ s = "net"
      BY <1>1, <1>3, <1>6, <1>7, <1>8, <3>2, <3>3
    <3>4. CASE ~(r = n /\ s = "net")
      BY <1>1, <1>6, <1>8, <3>4 DEF Unsent
    <3> QED
      BY <3>3, <3>4
  <2>3. Unsent' = Atomic!Dequeued(n, "net")
    <3>1. Unsent' = [r \in Nodes |-> [s \in Sockets |->
                       IF r = n /\ s = "net" THEN Tail(Unsent[r][s]) ELSE Unsent[r][s]]]
      BY <2>2 DEF Unsent
    <3> QED
      BY <3>1, DequeuedUnsent DEF Sockets
  <2> QED
    BY <1>1, <2>1, <2>3 DEF Atomic!cb_forward_recvfrom
<1>9. CASE hand' = [hand EXCEPT ![n] = <<p>>]
  <2>1. hand'[n] = <<p>> /\ \A r \in Nodes : r # n => hand'[r] = hand[r]
    BY <1>2, <1>9
  <2>2. ASSUME NEW r \in Nodes, NEW s \in Sockets
        PROVE  (IF s = cur'[r] THEN hand'[r] \o queue'[r][s] ELSE queue'[r][s]) = Unsent[r][s]
    <3>1. CASE r = n /\ s = cur[n]
      <4>1. hand'[r] \o queue'[r][s] = <<p>> \o Tail(queue[n][cur[n]])
        BY <1>6, <2>1, <3>1
      <4>2. <<p>> \o Tail(queue[n][cur[n]]) = queue[n][cur[n]]
        BY <1>1, <1>4, <1>5, HandThenQueue
      <4> QED
        BY <1>1, <1>7, <3>1, <4>1, <4>2
    <3>2. CASE r # n \/ s # cur[n]
      BY <1>1, <1>6, <2>1, <3>2 DEF Unsent
    <3> QED
      BY <3>1, <3>2
  <2>3. Unsent' = Unsent
    BY <2>2 DEF Unsent
  <2> QED
    BY <1>1, <2>3 DEF Atomic!vars
<1> QED
  BY <1>1, <1>8, <1>9

\* What a callback of n does in its last steps is what it holds less one message.
LEMMA HandTaken ==
    ASSUME LoopTypeOK, NEW n \in Nodes, hand[n] # << >>,
           hand' = [hand EXCEPT ![n] = << >>]
    PROVE  /\ Unsent[n][cur[n]] # << >> /\ Head(Unsent[n][cur[n]]) = Head(hand[n])
           /\ Atomic!Dequeued(n, cur[n]) = WithHands(hand')
<1>1. /\ queue \in [Nodes -> [Sockets -> Seq(Packet)]] /\ cur[n] \in Sockets
      /\ hand \in [Nodes -> OneOrNone]
  BY DEF LoopTypeOK, TypeOK
<1>2. PICK p \in Packet : hand[n] = <<p>>
  BY <1>1 DEF OneOrNone
<1>3. Unsent[n][cur[n]] = <<p>> \o queue[n][cur[n]]
  BY <1>1, <1>2 DEF Unsent
<1>4. /\ Unsent[n][cur[n]] # << >> /\ Head(Unsent[n][cur[n]]) = p
      /\ Tail(Unsent[n][cur[n]]) = << >> \o queue[n][cur[n]]
  <2> DEFINE seq == queue[n][cur[n]]
  <2>1. seq \in Seq(Packet)
    BY <1>1
  <2>2. Unsent[n][cur[n]] = <<p>> \o seq
    BY <1>3
  <2> HIDE DEF seq
  <2>3. /\ <<p>> \o seq # << >> /\ Head(<<p>> \o seq) = p /\ Tail(<<p>> \o seq) = seq
        /\ << >> \o seq = seq
    BY <2>1, HandThenQueue
  <2> QED
    BY <2>2, <2>3 DEF seq
<1>5. hand'[n] = << >> /\ \A r \in Nodes : r # n => hand'[r] = hand[r]
  BY <1>1
<1>6. ASSUME NEW r \in Nodes, NEW t \in Sockets
      PROVE  (IF r = n /\ t = cur[n] THEN Tail(Unsent[r][t]) ELSE Unsent[r][t]) =
             (IF t = cur[r] THEN hand'[r] \o queue[r][t] ELSE queue[r][t])
  <2>1. CASE r = n /\ t = cur[n]
    BY <1>4, <1>5, <2>1
  <2>2. CASE ~(r = n /\ t = cur[n])
    BY <1>5, <2>2 DEF Unsent
  <2> QED
    BY <2>1, <2>2
<1>7. Atomic!Dequeued(n, cur[n]) = WithHands(hand')
  <2>1. [r \in Nodes |-> [t \in Sockets |->
           IF r = n /\ t = cur[n] THEN Tail(Unsent[r][t]) ELSE Unsent[r][t]]] = WithHands(hand')
    BY <1>6 DEF WithHands
  <2>2. cur[n] \in Sockets
    BY <1>1
  <2> QED
    BY <2>1, <2>2, DequeuedUnsent
<1> QED
  BY <1>2, <1>4, <1>7, HandOfOne

\* The callback of cur[n], done with its message, did what BroadcastNet says.
LEMMA SentIsAtomic ==
    ASSUME LoopTypeOK, HandInv, NEW n \in Nodes, At(n, "sendto"),
           hand' = [hand EXCEPT ![n] = << >>], UNCHANGED <<cfg, sent, cur>>,
           Atomic!Transmit(WithHands(hand'), Reached(n, Destination(n).sin_addr),
                           Destination(n), Outgoing(n))
    PROVE  Atomic!Daemon(n)
<1>1. /\ hand[n] # << >> /\ Len(Head(hand[n]).path) < MaxRelays
      /\ ~(cur[n] = "net" /\ Blocked(n, Head(hand[n])))
  BY DEF HandInv
<1>2. /\ Unsent[n][cur[n]] # << >> /\ Head(Unsent[n][cur[n]]) = Head(hand[n])
      /\ Atomic!Dequeued(n, cur[n]) = WithHands(hand')
  BY <1>1, HandTaken
<1>3. cur[n] = "net" \/ cur[n] = "app"
  BY DEF LoopTypeOK, Sockets
<1>4. CASE cur[n] = "app"
  <2>1. /\ Destination(n) = Atomic!broadcast_addr(n)
        /\ Outgoing(n) = Atomic!Relayed(Head(Unsent[n]["app"]), n, "cb_broadcast_recvfrom")
    BY <1>2, <1>4, SameOperators DEF Destination, Outgoing
  <2>2. Reached(n, Destination(n).sin_addr) = Atomic!Reached(n, Destination(n).sin_addr)
    BY SameOperators
  <2>3. Atomic!sendto(Atomic!Dequeued(n, "app"), n, Atomic!broadcast_addr(n),
                      Atomic!Relayed(Head(Unsent[n]["app"]), n, "cb_broadcast_recvfrom"))
    BY <1>2, <1>4, <2>1, <2>2 DEF Atomic!sendto
  <2>4. Atomic!cb_broadcast_recvfrom(n)
    BY <1>1, <1>2, <1>4, <2>3 DEF Atomic!cb_broadcast_recvfrom
  <2> QED
    BY <2>4 DEF Atomic!Daemon
<1>5. CASE cur[n] = "net"
  <2>1. /\ Destination(n) = Atomic!forwarding_addr(n)
        /\ Outgoing(n) = Atomic!Relayed(Head(Unsent[n]["net"]), n, "cb_forward_recvfrom")
    BY <1>2, <1>5, SameOperators DEF Destination, Outgoing
  <2>2. Reached(n, Destination(n).sin_addr) = Atomic!Reached(n, Destination(n).sin_addr)
    BY SameOperators
  <2>3. Atomic!sendto(Atomic!Dequeued(n, "net"), n, Atomic!forwarding_addr(n),
                      Atomic!Relayed(Head(Unsent[n]["net"]), n, "cb_forward_recvfrom"))
    BY <1>2, <1>5, <2>1, <2>2 DEF Atomic!sendto
  <2>4. ~Atomic!Blocked(n, Head(Unsent[n]["net"]))
    BY <1>1, <1>2, <1>5, SameOperators
  <2>5. Atomic!cb_forward_recvfrom(n)
    BY <1>1, <1>2, <1>5, <2>3, <2>4 DEF Atomic!cb_forward_recvfrom
  <2> QED
    BY <2>5 DEF Atomic!Daemon
<1> QED
  BY <1>3, <1>4, <1>5

LEMMA SendIsAtomic ==
    ASSUME LoopTypeOK, HandInv, NEW n \in Nodes, send_message(n)
    PROVE  Atomic!Daemon(n)
<1>1. /\ At(n, "sendto") /\ hand' = [hand EXCEPT ![n] = << >>] /\ UNCHANGED <<cfg, sent, cur>>
      /\ Transmit(queue, Reached(n, Destination(n).sin_addr), Destination(n), Outgoing(n))
  BY DEF send_message, sendto
<1>2. hand[n] # << >>
  BY <1>1 DEF HandInv
<1>3. hand' \in [Nodes -> OneOrNone]
  BY <1>1 DEF LoopTypeOK, OneOrNone
<1>4. Outgoing(n) \in Packet /\ Reached(n, Destination(n).sin_addr) \in SUBSET Nodes
  BY <1>2, OutgoingPacket, DestinationOfLoop
<1>5. Atomic!Transmit(WithHands(hand'), Reached(n, Destination(n).sin_addr),
                      Destination(n), Outgoing(n))
  BY <1>1, <1>3, <1>4, TransmitBehindHands
<1> QED
  BY <1>1, <1>5, SentIsAtomic

\* A sendto that fails is one of whose datagram no copy comes anywhere.
LEMMA SendErrorIsAtomic ==
    ASSUME LoopTypeOK, HandInv, NEW n \in Nodes, send_message_error(n)
    PROVE  Atomic!Daemon(n)
<1> DEFINE hosts == Reached(n, Destination(n).sin_addr)
           dest == Destination(n)
           p == Outgoing(n)
           heard(r) == Listener(r, dest.sin_port)
           q == WithHands(hand')
           got == [r \in Nodes |-> 0]
<1>1. /\ At(n, "sendto") /\ hand' = [hand EXCEPT ![n] = << >>] /\ UNCHANGED <<cfg, sent, cur>>
      /\ lost' = lost \union {r \in hosts : heard(r) # "none"}
      /\ UNCHANGED <<queue, delivered, duplicated>>
  BY DEF send_message_error
<1>2. hosts \in SUBSET Nodes
  BY DestinationOfLoop
<1>3. p \in Packet /\ hand' \in [Nodes -> OneOrNone]
  BY <1>1, OutgoingPacket DEF HandInv, LoopTypeOK, OneOrNone
<1>4. /\ queue \in [Nodes -> [Sockets -> Seq(Packet)]]
      /\ delivered \in [Nodes -> [Msgs -> Nat]] /\ duplicated \in [Nodes -> SUBSET Msgs]
  BY DEF LoopTypeOK, TypeOK
<1> HIDE DEF hosts, dest, p, heard
<1>5. got \in [Nodes -> Copies(dest)] /\ \A r \in Nodes : got[r] = 0
  BY BoundsAssumption DEF Copies
<1>6. \A r \in Nodes, s \in Sockets : Appended(queue[r][s], p, 0) = queue[r][s]
  BY <1>3, <1>4, NothingAppended
<1> HIDE DEF got
<1>7. queue' = [r \in Nodes |-> [s \in Sockets |->
                  IF heard(r) = s THEN Appended(queue[r][s], p, got[r]) ELSE queue[r][s]]]
  BY <1>1, <1>4, <1>5, <1>6
<1>8. delivered' = [r \in Nodes |-> [m \in Msgs |->
                  IF heard(r) = "application" /\ m = p.msg
                  THEN delivered[r][m] + got[r] ELSE delivered[r][m]]]
  BY <1>1, <1>4, <1>5
<1>9. duplicated' = [r \in Nodes |->
                  IF got[r] > 1 THEN duplicated[r] \union {p.msg} ELSE duplicated[r]]
  BY <1>1, <1>4, <1>5
<1>10. lost' = lost \union {r \in {h \in hosts : heard(h) # "none"} : got[r] = 0}
  BY <1>1, <1>2, <1>5
<1>11. Comes(got, queue, queue', RcvBuf, hosts, dest, p)
  BY <1>5, <1>7, <1>8, <1>9, <1>10 DEF Comes, heard
<1>12. Transmit(queue, hosts, dest, p)
  BY <1>11, TransmitComes
<1>13. Atomic!Transmit(q, hosts, dest, p)
  BY <1>1, <1>2, <1>3, <1>12, TransmitBehindHands
<1> QED
  BY <1>1, <1>13, SentIsAtomic DEF q, hosts, dest, p

LEMMA StepIsAtomic ==
    LoopTypeOK /\ HandInv /\ [LoopNext]_allVars => [Atomic!Next]_(Atomic!vars)
<1> SUFFICES ASSUME LoopTypeOK, HandInv, [LoopNext]_allVars
             PROVE  Atomic!Next \/ UNCHANGED Atomic!vars
  OBVIOUS
<1>1. CASE Applications
  BY <1>1, AppSendIsAtomic, OutsideSendIsAtomic DEF Applications, Atomic!Next
<1>2. ASSUME NEW n \in Nodes, NEW s \in Sockets, cb_common(n, s)
      PROVE  UNCHANGED Atomic!vars
  <2>1. hand[n] = << >> /\ queue \in [Nodes -> [Sockets -> Seq(Packet)]]
    BY <1>2 DEF cb_common, HandInv, At, LoopTypeOK, TypeOK
  <2>2. /\ cur' = [cur EXCEPT ![n] = s] /\ cur \in [Nodes -> Sockets]
        /\ hand' = hand /\ queue' = queue /\ UNCHANGED netVars
    BY <1>2 DEF cb_common, netVars, LoopTypeOK
  <2>3. \A t \in Sockets : << >> \o queue[n][t] = queue[n][t]
    BY <2>1
  <2>4. ASSUME NEW r \in Nodes, NEW t \in Sockets
        PROVE  (IF t = cur'[r] THEN hand'[r] \o queue'[r][t] ELSE queue'[r][t]) =
               (IF t = cur[r] THEN hand[r] \o queue[r][t] ELSE queue[r][t])
    <3>1. CASE r = n
      BY <2>1, <2>2, <2>3, <3>1
    <3>2. CASE r # n
      BY <2>2, <3>2
    <3> QED
      BY <3>1, <3>2
  <2>5. Unsent' = Unsent
    BY <2>4 DEF Unsent
  <2> QED
    BY <2>2, <2>5 DEF Atomic!vars, netVars
<1>3. ASSUME NEW n \in Nodes, printf(n) \/ recv_msg_error(n) \/ getchar(n)
      PROVE  UNCHANGED Atomic!vars
  BY <1>3, NothingMoves DEF printf, recv_msg_error, getchar
<1>4. ASSUME NEW n \in Nodes, recv_msg(n) PROVE Atomic!Daemon(n) \/ UNCHANGED Atomic!vars
  BY <1>4, ReceiveIsAtomic DEF Atomic!Daemon
<1>5. ASSUME NEW n \in Nodes, send_message(n) \/ send_message_error(n) PROVE Atomic!Daemon(n)
  BY <1>5, SendIsAtomic, SendErrorIsAtomic
<1>6. CASE UNCHANGED allVars
  BY <1>6, NothingMoves DEF allVars, loopVars
<1> QED
  BY <1>1, <1>2, <1>3, <1>4, <1>5, <1>6 DEF LoopNext, Thread, Atomic!Next

\* Wherever a callback is when others move, however long it sits in a print or in
\* getchar: the daemons do what daemons do whose callbacks are single steps.
THEOREM LoopsAreAtomic == LoopSpec => CallbacksAreAtomic
BY LoopInitTypes, LoopTypeStep, HandStep, InitIsAtomic, StepIsAtomic, PTL
   DEF LoopSpec, CallbacksAreAtomic, Atomic!Spec

----------------------------------------------------------------------------
(* What the daemons of BroadcastNet promise, their threads keep *)

Proved == INSTANCE BroadcastNet_proofs WITH queue <- Unsent, RcvBuf <- RcvBuf + 1

LEMMA AssumptionsHold ==
    /\ Proved!ConfigsAssumption /\ Proved!OriginAssumption /\ Proved!NetworksAssumption
    /\ Proved!NodesAssumption /\ Proved!BoundsAssumption
<1>1. Proved!ConfigsAssumption
  BY ConfigsAssumption DEF Proved!ConfigsAssumption, Proved!Ports, Ports, Proved!htons, htons,
         Proved!UINT16_MAX, UINT16_MAX
<1>2. Proved!OriginAssumption /\ Proved!NetworksAssumption
  BY OriginAssumption, NetworksAssumption DEF Proved!OriginAssumption, Proved!NetworksAssumption
<1>3. Proved!NodesAssumption
  BY NodesAssumption
     DEF Proved!NodesAssumption, Proved!INADDR_ANY, INADDR_ANY, Proved!INADDR_LOOPBACK,
         INADDR_LOOPBACK, Proved!INADDR_BROADCAST, INADDR_BROADCAST
<1>4. Proved!BoundsAssumption
  BY BoundsAssumption DEF Proved!BoundsAssumption
<1> QED
  BY <1>1, <1>2, <1>3, <1>4

LEMMA PropertiesCarryOver ==
    /\ Proved!AtMostOnce => AtMostOnce
    /\ Proved!Wiring => Wiring
    /\ LoopTypeOK /\ Proved!HopBound => HopBound
<1>1. Proved!PortHygiene <=> PortHygiene
  BY DEF Proved!PortHygiene, PortHygiene, Proved!OnNetwork, OnNetwork, Proved!htons, htons,
         Proved!UINT16_MAX, UINT16_MAX
<1>2. Proved!AtMostOnce => AtMostOnce
  BY <1>1 DEF Proved!AtMostOnce, AtMostOnce
<1>3. Proved!Wiring => Wiring
  BY <1>1 DEF Proved!Wiring, Wiring, Proved!Hears, Hears, Proved!htons, htons,
         Proved!UINT16_MAX, UINT16_MAX
<1>4. ASSUME LoopTypeOK, NEW n \in Nodes, NEW s \in Sockets
      PROVE  Queued(n, s) \subseteq Proved!Queued(n, s)
  <2> DEFINE seq == queue[n][s]
             h   == hand[n]
  <2>1. /\ seq \in Seq(Packet) /\ h \in OneOrNone
        /\ Unsent[n][s] = h \o seq \/ Unsent[n][s] = seq
    BY <1>4 DEF LoopTypeOK, TypeOK, Unsent
  <2> HIDE DEF seq, h
  <2>2. \A i \in 1 .. Len(seq) : \E j \in 1 .. Len(h \o seq) : (h \o seq)[j] = seq[i]
    BY <2>1, QueueBehindHand
  <2>3. \A i \in 1 .. Len(seq) : \E j \in 1 .. Len(Unsent[n][s]) : Unsent[n][s][j] = seq[i]
    BY <2>1, <2>2
  <2>4. SUFFICES ASSUME NEW x \in Queued(n, s) PROVE x \in Proved!Queued(n, s)
    OBVIOUS
  <2>5. PICK i \in 1 .. Len(seq) : x = seq[i]
    BY DEF Queued, seq
  <2>6. PICK j \in 1 .. Len(Unsent[n][s]) : Unsent[n][s][j] = seq[i]
    BY <2>3
  <2> QED
    BY <2>5, <2>6, Zenon DEF Proved!Queued
<1>5. LoopTypeOK /\ Proved!HopBound => HopBound
  BY <1>1, <1>4 DEF Proved!HopBound, HopBound, Sockets
<1> QED
  BY <1>2, <1>3, <1>5

LEMMA SameSpecification == CallbacksAreAtomic => Proved!Spec
<1>1. /\ Atomic!Sockets = Proved!Sockets
      /\ \A net : Atomic!OnNetwork(net) = Proved!OnNetwork(net)
      /\ \A n, s : Atomic!Dequeued(n, s) = Proved!Dequeued(n, s)
      /\ \A p, n, c : Atomic!Relayed(p, n, c) = Proved!Relayed(p, n, c)
  BY DEF Atomic!Sockets, Proved!Sockets, Atomic!OnNetwork, Proved!OnNetwork,
         Atomic!Dequeued, Proved!Dequeued, Atomic!Relayed, Proved!Relayed
<1>2. \A r, p : Atomic!Listener(r, p) = Proved!Listener(r, p)
  BY DEF Atomic!Listener, Proved!Listener, Atomic!htons, Proved!htons,
         Atomic!UINT16_MAX, Proved!UINT16_MAX
<1>3. \A a, p : /\ Atomic!sockaddr_in(a, p) = Proved!sockaddr_in(a, p)
                /\ Atomic!init_sockaddr_in(a, p) = Proved!init_sockaddr_in(a, p)
  BY DEF Atomic!sockaddr_in, Proved!sockaddr_in, Atomic!htons, Proved!htons,
         Atomic!UINT16_MAX, Proved!UINT16_MAX,
         Atomic!init_sockaddr_in, Proved!init_sockaddr_in, Atomic!INADDR_ANY, Proved!INADDR_ANY
<1>4. \A n : /\ Atomic!broadcast_addr(n) = Proved!broadcast_addr(n)
             /\ Atomic!forwarding_addr(n) = Proved!forwarding_addr(n)
  BY <1>3 DEF Atomic!broadcast_addr, Proved!broadcast_addr,
              Atomic!forwarding_addr, Proved!forwarding_addr,
              Atomic!init_broadcast_sockaddr_in, Proved!init_broadcast_sockaddr_in,
              Atomic!INADDR_BROADCAST, Proved!INADDR_BROADCAST
<1>5. \A n, a : Atomic!Reached(n, a) = Proved!Reached(n, a)
  BY <1>1 DEF Atomic!Reached, Proved!Reached, Atomic!INADDR_BROADCAST, Proved!INADDR_BROADCAST
<1>6. \A n, p : Atomic!Blocked(n, p) = Proved!Blocked(n, p)
  <2>1. \A p : Atomic!src_addr(p) = Proved!src_addr(p)
    BY DEF Atomic!src_addr, Proved!src_addr, Atomic!INADDR_ANY, Proved!INADDR_ANY,
           Atomic!INADDR_LOOPBACK, Proved!INADDR_LOOPBACK
  <2> QED
    BY <1>3, <2>1 DEF Atomic!Blocked, Proved!Blocked
<1>7. ASSUME NEW q, NEW hosts, NEW dest, NEW p, Atomic!Transmit(q, hosts, dest, p)
      PROVE  Proved!Transmit(q, hosts, dest, p)
  <2> DEFINE heard(r) == Proved!Listener(r, dest.sin_port)
             hearers  == {r \in hosts : heard(r) # "none"}
  <2>1. /\ \A r : Atomic!Listener(r, dest.sin_port) = heard(r)
        /\ \A t, k : Atomic!Appended(t, p, k) = Proved!Appended(t, p, k)
        /\ Atomic!Copies(dest) = Proved!Copies(dest)
    BY <1>2 DEF Atomic!Appended, Proved!Appended, Atomic!Copies, Proved!Copies,
                Atomic!INADDR_BROADCAST, Proved!INADDR_BROADCAST
  <2> HIDE DEF heard
  <2>2. PICK got \in [Nodes -> Atomic!Copies(dest)] :
           /\ \A r \in Nodes : got[r] > 0 =>
                 /\ r \in hosts /\ heard(r) # "none"
                 /\ Atomic!Fits(q, r, heard(r), got[r])
           /\ Unsent' = [r \in Nodes |-> [s \in Atomic!Sockets |->
                          IF heard(r) = s THEN Atomic!Appended(q[r][s], p, got[r]) ELSE q[r][s]]]
           /\ delivered' = [r \in Nodes |-> [m \in Msgs |->
                          IF heard(r) = "application" /\ m = p.msg
                          THEN delivered[r][m] + got[r] ELSE delivered[r][m]]]
           /\ lost' = lost \union {r \in hearers : got[r] = 0}
           /\ duplicated' = [r \in Nodes |->
                          IF got[r] > 1 THEN duplicated[r] \union {p.msg} ELSE duplicated[r]]
    BY <1>7, <2>1 DEF Atomic!Transmit
  <2>3. got \in [Nodes -> Proved!Copies(dest)]
    BY <2>1
  <2>4. \A r \in Nodes : got[r] > 0 => r \in hearers /\ Proved!Fits(q, r, heard(r), got[r])
    BY <1>1, <2>2 DEF Atomic!Fits, Proved!Fits
  <2>5. Unsent' = [r \in Nodes |-> [s \in Proved!Sockets |->
                    IF heard(r) = s THEN Proved!Appended(q[r][s], p, got[r]) ELSE q[r][s]]]
    BY <1>1, <2>1, <2>2
  <2> QED
    BY <2>2, <2>3, <2>4, <2>5, Zenon DEF Proved!Transmit, heard
<1>8. ASSUME NEW n, NEW m, Atomic!AppSend(n, m) PROVE Proved!AppSend(n, m)
  BY <1>3, <1>7, <1>8 DEF Atomic!AppSend, Proved!AppSend, Atomic!INADDR_LOOPBACK, Proved!INADDR_LOOPBACK
<1>9. ASSUME NEW m, Atomic!OutsideSend(m) PROVE Proved!OutsideSend(m)
  BY <1>1, <1>3, <1>7, <1>9
     DEF Atomic!OutsideSend, Proved!OutsideSend, Atomic!BoundPorts, Proved!BoundPorts,
         Atomic!INADDR_BROADCAST, Proved!INADDR_BROADCAST
<1>10. ASSUME NEW n, Atomic!cb_broadcast_recvfrom(n) PROVE Proved!cb_broadcast_recvfrom(n)
  BY <1>1, <1>4, <1>5, <1>7, <1>10
     DEF Atomic!cb_broadcast_recvfrom, Proved!cb_broadcast_recvfrom, Atomic!sendto, Proved!sendto
<1>11. ASSUME NEW n, Atomic!cb_forward_recvfrom(n) PROVE Proved!cb_forward_recvfrom(n)
  BY <1>1, <1>4, <1>5, <1>6, <1>7, <1>11
     DEF Atomic!cb_forward_recvfrom, Proved!cb_forward_recvfrom, Atomic!sendto, Proved!sendto
<1>12. Atomic!Init => Proved!Init
  BY <1>1 DEF Atomic!Init, Proved!Init
<1>13. [Atomic!Next]_(Atomic!vars) => [Proved!Next]_(Proved!vars)
  BY <1>8, <1>9, <1>10, <1>11
     DEF Atomic!Next, Proved!Next, Atomic!Daemon, Proved!Daemon, Atomic!vars, Proved!vars
<1> QED
  BY <1>12, <1>13, PTL DEF CallbacksAreAtomic, Atomic!Spec, Proved!Spec

\* Wherever the threads of the daemons are or hang, an application gets a message
\* only if a pair of ports connects it with the sender, and then once unless the
\* network itself duplicated it; and with hygienic ports no message goes round.
THEOREM LoopsKeepPromises == LoopSpec => [](HopBound /\ Wiring /\ AtMostOnce)
<1>1. Proved!Spec => []Proved!HopBound
  BY AssumptionsHold, Proved!NoMessageGoesRound
<1>2. Proved!Spec => []Proved!Wiring
  BY AssumptionsHold, Proved!DeliveredOnlyWhereWired
<1>3. Proved!Spec => []Proved!AtMostOnce
  BY AssumptionsHold, Proved!DeliveredAtMostOnce
<1> QED
  BY <1>1, <1>2, <1>3, LoopsAreAtomic, HandsAreRight, SameSpecification, PropertiesCarryOver, PTL
=============================================================================

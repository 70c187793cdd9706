-------------------------- MODULE EventLoop_proofs --------------------------
(***************************************************************************)
(* Proofs about EventLoop, for every set of datagrams and every bound.     *)
(***************************************************************************)
EXTENDS EventLoop, TLAPS

\* The lengths that an action of the loop writes stay in the types of TypeOK.
LEMMA SocketTypes ==
    /\ \A p \in BOOLEAN, c \in 0 .. CONTROL_BUFFER_LEN :
          recvmsg_controllen(p, c) \in 0 .. CONTROL_BUFFER_LEN
    /\ \A n \in Nat : recvmsg_bytes(n) \in Nat
    /\ new_msg_header \in 0 .. CONTROL_BUFFER_LEN
BY DEF recvmsg_controllen, recvmsg_bytes, new_msg_header, LesserOf,
       CONTROL_BUFFER_LEN, UDP_BUFFER_LEN, PKTINFO_SPACE, CMSGHDR_LEN

LEMMA ArrivedTypes ==
    ASSUME TypeOK, NEW w \in Watchers, NEW i \in 1 .. Len(arrived[w])
    PROVE  /\ arrived[w][i] \in Datagrams
           /\ arrived[w][i].len \in Nat
<1>1. arrived[w] \in Seq(Datagrams)
  BY DEF TypeOK
<1>2. arrived[w][i] \in Datagrams
  BY <1>1
<1> QED
  BY <1>2, DatagramsAssumption

----------------------------------------------------------------------------

\* TypeOK is not inductive: recv_msg_error leaves -1 in public_arg.len, and
\* only the control flow keeps a later sendto from being handed it.
TypeInv == TypeOK /\ (pc \in {"print_read", "sendto"} => len[cur] \in Nat)

LEMMA TypeInvInit == Init => TypeInv
BY SocketTypes DEF Init, TypeInv, TypeOK, Watchers, PCs, set_msghdrs_socket

LEMMA TypeInvStep == TypeInv /\ [Next]_vars => TypeInv'
<1> SUFFICES ASSUME TypeInv, [Next]_vars
             PROVE  TypeInv'
  OBVIOUS
<1> USE DEF TypeInv, TypeOK, PCs, kernelVars, libevVars, argVars, outVars, stdinVars
<1>1. ASSUME NEW w \in Watchers, Arrive(w) PROVE TypeInv'
  <2>1. PICK d \in Datagrams : arrived' = [arrived EXCEPT ![w] = Append(@, d)]
    BY <1>1 DEF Arrive
  <2>2. arrived' \in [Watchers -> Seq(Datagrams)]
    BY <2>1
  <2>3. UNCHANGED <<read, pktinfo, libevVars, pc, cur, argVars, outVars, stdinVars>>
    BY <1>1 DEF Arrive
  <2> QED
    BY <2>2, <2>3
<1>2. CASE TypeLine
  BY <1>2, BoundsAssumption DEF TypeLine
<1>3. CASE CloseStdin
  BY <1>3 DEF CloseStdin
<1>4. CASE fd_reify
  BY <1>4 DEF fd_reify
<1>5. CASE epoll_wait
  BY <1>5 DEF epoll_wait
<1>6. CASE ev_loop_next
  BY <1>6 DEF ev_loop_next
<1>7. ASSUME NEW w \in Watchers, cb_common(w) PROVE TypeInv'
  <2>1. CASE revents[w] = "EV_ERROR"
    BY <1>7, <2>1 DEF cb_common
  <2>2. CASE revents[w] = "EV_READ"
    <3>1. /\ revents' = [revents EXCEPT ![w] = "none"]
          /\ pc' = "print_received" /\ cur' = w
          /\ len' = [len EXCEPT ![w] = 0]
          /\ UNCHANGED <<kernelVars, fd, data, controllen, outVars, stdinVars>>
      BY <1>7, <2>2 DEF cb_common
    <3> QED
      BY <3>1
  <2> QED
    BY <1>7, <2>1, <2>2 DEF cb_common
<1>8. ASSUME NEW w \in Watchers, recv_msg_error(w) PROVE TypeInv'
  BY <1>8 DEF recv_msg_error
<1>9. ASSUME NEW w \in Watchers, recv_msg(w) PROVE TypeInv'
  <2> DEFINE d   == arrived[w][read[w] + 1]
             ctl == recvmsg_controllen(pktinfo[w], controllen[w])
             src == get_source_address(ctl, d.src)
  <2>1. read[w] + 1 \in 1 .. Len(arrived[w])
    BY <1>9 DEF recv_msg, Unread
  <2>2. d.len \in Nat
    BY <2>1, ArrivedTypes
  <2>3. /\ ctl \in 0 .. CONTROL_BUFFER_LEN
        /\ recvmsg_bytes(d.len) \in Nat
    BY <2>2, SocketTypes
  <2>4. /\ cur = w
        /\ read'       = [read EXCEPT ![w] = @ + 1]
        /\ data'       = [data EXCEPT ![w] = read[w] + 1]
        /\ controllen' = [controllen EXCEPT ![w] = ctl]
        /\ \/ pc' = "segv" /\ len' = len
           \/ /\ len' = [len EXCEPT ![w] = recvmsg_bytes(d.len)]
              /\ pc' \in {"print_done", "print_read"}
        /\ UNCHANGED <<arrived, pktinfo, libevVars, cur, outVars, stdinVars>>
    BY <1>9 DEF recv_msg
  <2> HIDE DEF d, ctl, src
  <2>5. CASE pc' = "segv" /\ len' = len
    BY <2>3, <2>4, <2>5
  <2>6. CASE /\ len' = [len EXCEPT ![w] = recvmsg_bytes(d.len)]
             /\ pc' \in {"print_done", "print_read"}
    BY <2>3, <2>4, <2>6
  <2> QED
    BY <2>4, <2>5, <2>6
<1>10. ASSUME NEW w \in Watchers, send_message(w) PROVE TypeInv'
  BY <1>10 DEF send_message, Sent
<1>11. ASSUME NEW w \in Watchers, send_message_error(w) PROVE TypeInv'
  BY <1>11 DEF send_message_error
<1>12. CASE getchar
  BY <1>12 DEF getchar
<1>13. CASE printf
  BY <1>13 DEF printf, AfterPrint
<1>14. CASE UNCHANGED vars
  BY <1>14 DEF vars
<1> QED
  BY <1>1, <1>2, <1>3, <1>4, <1>5, <1>6, <1>7, <1>8, <1>9, <1>10, <1>11,
     <1>12, <1>13, <1>14 DEF Next, Daemon, Terminal, Callback

\* Every variable keeps its type, whatever datagrams arrive and however libev,
\* the sockets and the terminal answer; sendto is never given a negative length.
THEOREM TypeCorrect == Spec => [](TypeOK /\ (pc = "sendto" => len[cur] \in Nat))
<1>1. TypeInv => TypeOK /\ (pc = "sendto" => len[cur] \in Nat)
  BY DEF TypeInv
<1> QED
  BY <1>1, TypeInvInit, TypeInvStep, PTL DEF Spec

----------------------------------------------------------------------------
(* The queues: libev's snapshot of readiness does not go stale *)

\* A pending EV_READ stands for a datagram that nobody else takes off the socket,
\* and cb_common spends the event when it enters the callback.
QueueInv ==
    /\ \A w \in Watchers : read[w] <= Len(arrived[w])
    /\ \A w \in Watchers : revents[w] = "EV_READ" => read[w] < Len(arrived[w])
    /\ pc \in {"print_received", "recvmsg"} => /\ read[cur] < Len(arrived[cur])
                                                /\ revents[cur] = "none"

LEMMA QueueInvInit == Init => QueueInv
BY DEF Init, QueueInv

\* A datagram that arrives changes none of those already in the socket.
LEMMA ArriveAppends ==
    ASSUME TypeInv, NEW w \in Watchers, Arrive(w)
    PROVE  /\ arrived' \in [Watchers -> Seq(Datagrams)]
           /\ \A v \in Watchers :
                 /\ Len(arrived'[v]) >= Len(arrived[v])
                 /\ \A i \in 1 .. Len(arrived[v]) : arrived'[v][i] = arrived[v][i]
<1>1. PICK d \in Datagrams : arrived' = [arrived EXCEPT ![w] = Append(@, d)]
  BY DEF Arrive
<1>2. arrived \in [Watchers -> Seq(Datagrams)]
  BY DEF TypeInv, TypeOK
<1>3. Append(arrived[w], d) \in Seq(Datagrams)
  BY <1>2
<1>4. ASSUME NEW v \in Watchers, v # w PROVE arrived'[v] = arrived[v]
  BY <1>1, <1>2, <1>4
<1>5. arrived'[w] = Append(arrived[w], d) /\ arrived[w] \in Seq(Datagrams)
  BY <1>1, <1>2
<1>6. /\ Len(arrived'[w]) >= Len(arrived[w])
      /\ \A i \in 1 .. Len(arrived[w]) : arrived'[w][i] = arrived[w][i]
  BY <1>5
<1>7. ASSUME NEW v \in Watchers, v # w
      PROVE  /\ Len(arrived'[v]) >= Len(arrived[v])
             /\ \A i \in 1 .. Len(arrived[v]) : arrived'[v][i] = arrived[v][i]
  <2>1. Len(arrived[v]) \in Nat
    BY <1>2
  <2> QED
    BY <1>4, <1>7, <2>1
<1>8. arrived' \in [Watchers -> Seq(Datagrams)]
  BY <1>1, <1>2, <1>3
<1> QED
  BY <1>6, <1>7, <1>8

LEMMA QueueInvStep == TypeInv /\ QueueInv /\ [Next]_vars => QueueInv'
<1> SUFFICES ASSUME TypeInv, QueueInv, [Next]_vars
             PROVE  QueueInv'
  OBVIOUS
<1> USE DEF QueueInv, kernelVars, libevVars, argVars, outVars, stdinVars
<1>0. /\ arrived \in [Watchers -> Seq(Datagrams)]
      /\ read \in [Watchers -> Nat]
      /\ revents \in [Watchers -> {"none", "EV_READ", "EV_ERROR"}]
      /\ cur \in Watchers
  BY DEF TypeInv, TypeOK
<1>1. ASSUME NEW w \in Watchers, Arrive(w) PROVE QueueInv'
  <2>1. UNCHANGED <<read, revents, pc, cur>>
    BY <1>1 DEF Arrive
  <2>2. \A v \in Watchers : Len(arrived[v]) \in Nat /\ Len(arrived'[v]) \in Nat
    BY <1>0, <1>1, ArriveAppends
  <2> QED
    BY <1>0, <1>1, <2>1, <2>2, ArriveAppends
<1>2. CASE TypeLine
  BY <1>2 DEF TypeLine
<1>3. CASE CloseStdin
  BY <1>3 DEF CloseStdin
<1>4. CASE fd_reify
  BY <1>4 DEF fd_reify
<1>5. CASE epoll_wait
  BY <1>0, <1>5 DEF epoll_wait, Unread
<1>6. CASE ev_loop_next
  BY <1>6 DEF ev_loop_next
<1>7. ASSUME NEW w \in Watchers, cb_common(w) PROVE QueueInv'
  BY <1>0, <1>7 DEF cb_common
<1>8. ASSUME NEW w \in Watchers, recv_msg_error(w) PROVE QueueInv'
  BY <1>8 DEF recv_msg_error
<1>9. ASSUME NEW w \in Watchers, recv_msg(w) PROVE QueueInv'
  <2>1. /\ pc = "recvmsg" /\ cur = w /\ pc' \notin {"print_received", "recvmsg"}
        /\ read' = [read EXCEPT ![w] = @ + 1]
        /\ UNCHANGED <<arrived, revents, cur>>
    BY <1>9 DEF recv_msg
  <2> QED
    BY <1>0, <2>1
<1>10. ASSUME NEW w \in Watchers, send_message(w) PROVE QueueInv'
  BY <1>10 DEF send_message
<1>11. ASSUME NEW w \in Watchers, send_message_error(w) PROVE QueueInv'
  BY <1>11 DEF send_message_error
<1>12. CASE getchar
  BY <1>12 DEF getchar
<1>13. CASE printf
  BY <1>13 DEF printf, AfterPrint
<1>14. CASE UNCHANGED vars
  BY <1>14 DEF vars
<1> QED
  BY <1>1, <1>2, <1>3, <1>4, <1>5, <1>6, <1>7, <1>8, <1>9, <1>10, <1>11,
     <1>12, <1>13, <1>14 DEF Next, Daemon, Terminal, Callback

\* No callback is ever parked in recvmsg: whatever the other watcher's callback
\* did since epoll_wait returned, the socket that is read holds a datagram.
THEOREM NeverBlocksInRecv == Spec => []NoBlockingRecv
<1>1. TypeInv /\ QueueInv => NoBlockingRecv
  BY DEF TypeInv, TypeOK, QueueInv, NoBlockingRecv, Unread
<1> QED
  BY <1>1, TypeInvInit, TypeInvStep, QueueInvInit, QueueInvStep, PTL DEF Spec

----------------------------------------------------------------------------
(* The reused msghdr: its control buffer only shrinks to what one header uses *)

ControlInv ==
    /\ \A w \in Watchers : pktinfo[w] => controllen[w] >= CMSGHDR_LEN
    /\ SourceKnown

LEMMA ControlInvInit == Init => ControlInv
BY DEF Init, ControlInv, SourceKnown, new_msg_header, CONTROL_BUFFER_LEN, CMSGHDR_LEN

LEMMA ControlInvStep == TypeInv /\ ControlInv /\ [Next]_vars => ControlInv'
<1> SUFFICES ASSUME TypeInv, ControlInv, [Next]_vars
             PROVE  ControlInv'
  OBVIOUS
<1> USE DEF ControlInv, SourceKnown, kernelVars, libevVars, argVars, outVars, stdinVars
<1>1. ASSUME NEW w \in Watchers, recv_msg(w) PROVE ControlInv'
  <2> DEFINE ctl == recvmsg_controllen(pktinfo[w], controllen[w])
             src == get_source_address(ctl, arrived[w][read[w] + 1].src)
  <2>1. /\ controllen \in [Watchers -> 0 .. CONTROL_BUFFER_LEN]
        /\ pktinfo \in [Watchers -> BOOLEAN]
    BY DEF TypeInv, TypeOK
  <2>2. pktinfo[w] => ctl >= CMSGHDR_LEN
    BY <2>1 DEF recvmsg_controllen, LesserOf, CMSGHDR_LEN, PKTINFO_SPACE, CONTROL_BUFFER_LEN
  <2>3. ctl >= CMSGHDR_LEN => ~src.null
    BY DEF get_source_address
  <2>4. /\ cur' = w
        /\ controllen' = [controllen EXCEPT ![w] = ctl]
        /\ pc' = "segv" => src.null
        /\ UNCHANGED pktinfo
    BY <1>1 DEF recv_msg
  <2> HIDE DEF ctl, src
  <2> QED
    BY <2>1, <2>2, <2>3, <2>4
<1>2. ASSUME NEW w \in Watchers,
             Arrive(w) \/ cb_common(w) \/ recv_msg_error(w)
                \/ send_message(w) \/ send_message_error(w)
      PROVE  ControlInv'
  BY <1>2 DEF Arrive, cb_common, recv_msg_error, send_message, send_message_error
<1>3. CASE fd_reify \/ epoll_wait \/ ev_loop_next \/ getchar \/ printf \/ Terminal
  BY <1>3 DEF fd_reify, epoll_wait, ev_loop_next, getchar, printf, AfterPrint,
     Terminal, TypeLine, CloseStdin
<1>4. CASE UNCHANGED vars
  BY <1>4 DEF vars
<1> QED
  BY <1>1, <1>2, <1>3, <1>4 DEF Next, Daemon, Callback

\* get_source_address never dereferences NULL on a socket that has IP_PKTINFO,
\* however many messages the same msghdr has been through.
THEOREM SourceAlwaysKnown == Spec => []SourceKnown
<1>1. ControlInv => SourceKnown
  BY DEF ControlInv
<1> QED
  BY <1>1, TypeInvInit, TypeInvStep, ControlInvInit, ControlInvStep, PTL DEF Spec

----------------------------------------------------------------------------
(* The shared receive buffer: what sendto is given is what recvmsg returned *)

\* Between recv_msg and the end of send_message, public_arg describes the
\* datagram that was read last.
InHandInv ==
    pc \in {"print_read", "sendto"} =>
        /\ read[cur] \in 1 .. Len(arrived[cur])
        /\ data[cur] = read[cur]
        /\ len[cur] = recvmsg_bytes(arrived[cur][read[cur]].len)

\* Positions that sendto has settled; the datagram in hand is not one of them.
Settled(w) ==
    IF pc \in {"print_read", "sendto"} /\ cur = w THEN 1 .. (read[w] - 1) ELSE 1 .. read[w]

OrderInv ==
    \A w \in Watchers :
        /\ failed[w] \subseteq Settled(w)
        /\ \A i \in 1 .. Len(out[w]) : out[w][i].id \in Settled(w) \ failed[w]
        /\ \A i, j \in 1 .. Len(out[w]) : i < j => out[w][i].id < out[w][j].id

RelayInv == InHandInv /\ OrderInv

LEMMA RelayInvInit == Init => RelayInv
BY DEF Init, RelayInv, InHandInv, OrderInv, Settled

\* Steps that touch neither the queues, nor the outputs, nor what is in hand.
LEMMA RelayInvFrame ==
    ASSUME TypeInv, QueueInv, RelayInv,
           UNCHANGED <<arrived, read, data, out, failed>>,
           pc \notin {"print_read", "sendto"}, pc' \notin {"print_read", "sendto"}
    PROVE  RelayInv'
BY DEF RelayInv, InHandInv, OrderInv, Settled

LEMMA RelayInvStep ==
    TypeInv /\ TypeInv' /\ QueueInv /\ RelayInv /\ [Next]_vars => RelayInv'
<1> SUFFICES ASSUME TypeInv, TypeInv', QueueInv, RelayInv, [Next]_vars
             PROVE  RelayInv'
  OBVIOUS
<1> USE DEF kernelVars, libevVars, argVars, outVars, stdinVars
<1>0. /\ arrived \in [Watchers -> Seq(Datagrams)]
      /\ read \in [Watchers -> Nat]
      /\ data \in [Watchers -> Nat]
      /\ len \in [Watchers -> Nat \union {-1}]
      /\ out \in [Watchers -> Seq(Sent)]
      /\ failed \in [Watchers -> SUBSET Nat]
      /\ cur \in Watchers
      /\ pc = "sendto" => len[cur] \in Nat
      /\ \A v \in Watchers : Len(arrived[v]) \in Nat /\ Len(out[v]) \in Nat
  <2>1. \A v \in Watchers : arrived[v] \in Seq(Datagrams) /\ out[v] \in Seq(Sent)
    BY DEF TypeInv, TypeOK
  <2>2. \A v \in Watchers : Len(arrived[v]) \in Nat /\ Len(out[v]) \in Nat
    BY <2>1
  <2>3. pc = "sendto" => len[cur] \in Nat
    BY DEF TypeInv
  <2> QED
    BY <2>2, <2>3 DEF TypeInv, TypeOK
<1>1. ASSUME NEW w \in Watchers, Arrive(w) PROVE RelayInv'
  <2>1. UNCHANGED <<read, pc, cur, data, len, out, failed>>
    BY <1>1 DEF Arrive
  <2>2. OrderInv'
    BY <2>1 DEF RelayInv, OrderInv, Settled
  <2>3. InHandInv'
    <3>1. \A v \in Watchers : Len(arrived'[v]) \in Nat
      BY <1>1, ArriveAppends
    <3> QED
      BY <1>0, <1>1, <2>1, <3>1, ArriveAppends DEF RelayInv, InHandInv
  <2> QED
    BY <2>2, <2>3 DEF RelayInv
<1>2. CASE fd_reify \/ epoll_wait \/ ev_loop_next \/ getchar
  <2>1. /\ UNCHANGED <<arrived, read, data, out, failed>>
        /\ pc \notin {"print_read", "sendto"} /\ pc' \notin {"print_read", "sendto"}
    BY <1>2 DEF fd_reify, epoll_wait, ev_loop_next, getchar
  <2> QED
    BY <2>1, RelayInvFrame
<1>3. CASE printf \/ Terminal \/ UNCHANGED vars
  <2>1. /\ UNCHANGED <<arrived, read, cur, data, len, out, failed>>
        /\ pc \in {"print_read", "sendto"} <=> pc' \in {"print_read", "sendto"}
    BY <1>3 DEF printf, AfterPrint, Terminal, TypeLine, CloseStdin, vars
  <2>2. \A v \in Watchers : Settled(v)' = Settled(v)
    BY <2>1 DEF Settled
  <2> QED
    BY <2>1, <2>2 DEF RelayInv, InHandInv, OrderInv
<1>4. ASSUME NEW w \in Watchers, cb_common(w) \/ recv_msg_error(w) PROVE RelayInv'
  <2>1. /\ UNCHANGED <<arrived, read, data, out, failed>>
        /\ pc \notin {"print_read", "sendto"} /\ pc' \notin {"print_read", "sendto"}
    BY <1>4 DEF cb_common, recv_msg_error
  <2> QED
    BY <2>1, RelayInvFrame
<1>5. ASSUME NEW w \in Watchers, recv_msg(w) PROVE RelayInv'
  <2>1. /\ pc = "recvmsg" /\ cur = w
        /\ read' = [read EXCEPT ![w] = @ + 1]
        /\ data' = [data EXCEPT ![w] = read[w] + 1]
        /\ pc' # "sendto"
        /\ pc' = "print_read" => len' = [len EXCEPT ![w] = recvmsg_bytes(arrived[w][read[w] + 1].len)]
        /\ UNCHANGED <<arrived, cur, out, failed>>
    BY <1>5 DEF recv_msg
  <2>2. read[w] + 1 \in 1 .. Len(arrived[w])
    BY <1>0, <2>1 DEF QueueInv
  <2>3. InHandInv'
    BY <1>0, <2>1, <2>2 DEF InHandInv
  <2>4. ASSUME NEW v \in Watchers PROVE Settled(v) \subseteq Settled(v)'
    BY <1>0, <2>1 DEF Settled
  <2>5. OrderInv'
    BY <2>1, <2>4 DEF RelayInv, OrderInv
  <2> QED
    BY <2>3, <2>5 DEF RelayInv
<1>6. ASSUME NEW w \in Watchers, send_message(w) PROVE RelayInv'
  <2> DEFINE sent == [id |-> data[w], len |-> len[w]]
  <2>1. /\ pc = "sendto" /\ cur = w /\ pc' = "print_done"
        /\ out' = [out EXCEPT ![w] = Append(@, sent)]
        /\ UNCHANGED <<read, cur, failed>>
    BY <1>6 DEF send_message
  <2>2. /\ data[w] = read[w] /\ read[w] \in Nat \ {0}
        /\ Settled(w) = 1 .. (read[w] - 1) /\ Settled(w)' = 1 .. read[w]
    BY <1>0, <2>1 DEF RelayInv, InHandInv, Settled
  <2>3. \A v \in Watchers \ {w} : out'[v] = out[v] /\ Settled(v)' = Settled(v)
    BY <1>0, <2>1 DEF Settled
  <2>4. /\ Len(out'[w]) = Len(out[w]) + 1
        /\ out'[w][Len(out[w]) + 1].id = read[w]
        /\ \A i \in 1 .. Len(out[w]) : out'[w][i] = out[w][i]
    <3>1. out'[w] = Append(out[w], sent)
      BY <1>0, <2>1
    <3>2. sent \in Sent
      BY <1>0, <2>1 DEF Sent
    <3> QED
      BY <1>0, <2>2, <3>1, <3>2
  <2>5. /\ failed[w] \subseteq 1 .. (read[w] - 1)
        /\ \A i \in 1 .. Len(out[w]) : out[w][i].id \in 1 .. (read[w] - 1) \ failed[w]
        /\ \A i, j \in 1 .. Len(out[w]) : i < j => out[w][i].id < out[w][j].id
    BY <2>2 DEF RelayInv, OrderInv
  <2>6. failed[w] \subseteq Settled(w)'
    BY <2>2, <2>5
  <2>7. ASSUME NEW i \in 1 .. Len(out'[w])
        PROVE  out'[w][i].id \in Settled(w)' \ failed[w]
    <3>1. CASE i = Len(out[w]) + 1
      <4>1. out'[w][i].id = read[w]
        BY <2>4, <3>1
      <4> QED
        BY <2>2, <2>5, <4>1
    <3>2. CASE i \in 1 .. Len(out[w])
      <4>1. out'[w][i].id \in 1 .. (read[w] - 1) \ failed[w]
        BY <2>4, <2>5, <3>2
      <4> QED
        BY <2>2, <4>1
    <3> QED
      BY <1>0, <2>4, <3>1, <3>2
  <2>8. ASSUME NEW i \in 1 .. Len(out'[w]), NEW j \in 1 .. Len(out'[w]), i < j
        PROVE  out'[w][i].id < out'[w][j].id
    <3>1. i \in 1 .. Len(out[w])
      BY <1>0, <2>4, <2>8
    <3>2. CASE j = Len(out[w]) + 1
      <4>1. out'[w][i] = out[w][i] /\ out'[w][j].id = read[w]
        BY <2>4, <3>1, <3>2
      <4>2. out[w][i].id \in 1 .. (read[w] - 1)
        BY <2>5, <3>1
      <4> QED
        BY <2>2, <4>1, <4>2
    <3>3. CASE j \in 1 .. Len(out[w])
      <4>1. out'[w][i] = out[w][i] /\ out'[w][j] = out[w][j]
        BY <2>4, <3>1, <3>3
      <4> QED
        BY <2>5, <2>8, <3>1, <3>3, <4>1
    <3> QED
      BY <1>0, <2>4, <3>2, <3>3
  <2>9. OrderInv'
    BY <2>1, <2>3, <2>6, <2>7, <2>8 DEF RelayInv, OrderInv
  <2> QED
    BY <2>1, <2>9 DEF RelayInv, InHandInv
<1>7. ASSUME NEW w \in Watchers, send_message_error(w) PROVE RelayInv'
  <2>1. /\ pc = "sendto" /\ cur = w /\ pc' = "print_failed"
        /\ failed' = [failed EXCEPT ![w] = @ \union {data[w]}]
        /\ UNCHANGED <<read, cur, out>>
    BY <1>7 DEF send_message_error
  <2>2. /\ data[w] = read[w] /\ read[w] \in Nat \ {0}
        /\ Settled(w) = 1 .. (read[w] - 1) /\ Settled(w)' = 1 .. read[w]
    BY <1>0, <2>1 DEF RelayInv, InHandInv, Settled
  <2>3. \A v \in Watchers \ {w} : failed'[v] = failed[v] /\ Settled(v)' = Settled(v)
    BY <1>0, <2>1 DEF Settled
  <2>4. failed'[w] = failed[w] \union {read[w]}
    BY <1>0, <2>1, <2>2
  <2>5. OrderInv'
    BY <2>1, <2>2, <2>3, <2>4 DEF RelayInv, OrderInv
  <2> QED
    BY <2>1, <2>5 DEF RelayInv, InHandInv
<1> QED
  BY <1>1, <1>2, <1>3, <1>4, <1>5, <1>6, <1>7 DEF Next, Daemon, Callback

LEMMA RelayInvariance == Spec => [](TypeInv /\ QueueInv /\ RelayInv)
BY TypeInvInit, TypeInvStep, QueueInvInit, QueueInvStep, RelayInvInit,
   RelayInvStep, PTL DEF Spec

\* Each direction sends a datagram at most once, in the order of arrival, and
\* never one whose sendto failed before.
THEOREM RelaysInOrder == Spec => []InOrderAtMostOnce
<1>1. TypeInv /\ RelayInv => InOrderAtMostOnce
  <2> SUFFICES ASSUME TypeInv, RelayInv PROVE InOrderAtMostOnce
    OBVIOUS
  <2>1. \A w \in Watchers : read[w] \in Nat
    BY DEF TypeInv, TypeOK
  <2>2. \A w \in Watchers : Settled(w) \subseteq 1 .. read[w]
    BY <2>1 DEF Settled
  <2> QED
    BY <2>2 DEF RelayInv, OrderInv, InOrderAtMostOnce
<1> QED
  BY <1>1, RelayInvariance, PTL

----------------------------------------------------------------------------
(* Nothing is lost without a trace *)

LEMMA LossInit == Init => NoSilentLoss
BY DEF Init, NoSilentLoss

\* Once the datagram was relayed, it stays so: out only grows.
LEMMA LossStep ==
    TypeInv /\ QueueInv /\ RelayInv /\ NoSilentLoss /\ [Next]_vars => NoSilentLoss'
<1> SUFFICES ASSUME TypeInv, QueueInv, RelayInv, NoSilentLoss, [Next]_vars
             PROVE  NoSilentLoss'
  OBVIOUS
<1> USE DEF kernelVars, libevVars, argVars, outVars, stdinVars
<1>0. /\ arrived \in [Watchers -> Seq(Datagrams)]
      /\ read \in [Watchers -> Nat]
      /\ out \in [Watchers -> Seq(Sent)]
      /\ failed \in [Watchers -> SUBSET Nat]
      /\ data \in [Watchers -> Nat]
      /\ cur \in Watchers
  BY DEF TypeInv, TypeOK
<1>1. ASSUME NEW w \in Watchers, Arrive(w) PROVE NoSilentLoss'
  <2>1. UNCHANGED <<read, pc, cur, out, failed>>
    BY <1>1 DEF Arrive
  <2>2. ASSUME NEW v \in Watchers, NEW i \in 1 .. read[v]
        PROVE  arrived'[v][i] = arrived[v][i]
    <3>1. Len(arrived[v]) \in Nat
      BY <1>0
    <3>2. i \in 1 .. Len(arrived[v])
      BY <1>0, <3>1 DEF QueueInv
    <3> QED
      BY <1>1, <3>2, ArriveAppends
  <2> QED
    BY <2>1, <2>2 DEF NoSilentLoss, InHand, Relayed
<1>2. CASE fd_reify \/ epoll_wait \/ ev_loop_next \/ getchar
  BY <1>2 DEF fd_reify, epoll_wait, ev_loop_next, getchar, NoSilentLoss, InHand, Relayed
<1>3. CASE printf \/ Terminal \/ UNCHANGED vars
  BY <1>3 DEF printf, AfterPrint, Terminal, TypeLine, CloseStdin, vars,
     NoSilentLoss, InHand, Relayed
<1>4. ASSUME NEW w \in Watchers, cb_common(w) \/ recv_msg_error(w) PROVE NoSilentLoss'
  BY <1>4 DEF cb_common, recv_msg_error, NoSilentLoss, InHand, Relayed
<1>5. ASSUME NEW w \in Watchers, recv_msg(w) PROVE NoSilentLoss'
  <2> DEFINE d   == arrived[w][read[w] + 1]
             ctl == recvmsg_controllen(pktinfo[w], controllen[w])
             src == get_source_address(ctl, d.src)
  <2>1. /\ pc = "recvmsg" /\ cur = w
        /\ read' = [read EXCEPT ![w] = @ + 1]
        /\ \/ pc' = "segv"
           \/ ~src.null /\ pc' = IF Blocked(w, src.s_addr) THEN "print_done" ELSE "print_read"
        /\ UNCHANGED <<arrived, cur, out, failed>>
    BY <1>5 DEF recv_msg
  <2>2. ~src.null => src.s_addr = d.src
    BY DEF get_source_address
  <2>3. \/ pc' \in {"segv", "print_read"}
        \/ w = "net" /\ d.src = INADDR_ANY
    BY <2>1, <2>2 DEF Blocked, local_addr, init_sockaddr_in, sockaddr_in
  <2> HIDE DEF d, ctl, src
  <2>4. ASSUME NEW v \in Watchers, NEW i \in 1 .. read[v]
        PROVE  Relayed(v, i)' \/ i \in failed'[v] \/ (v = "net" /\ arrived'[v][i].src = INADDR_ANY)
    BY <2>1 DEF NoSilentLoss, InHand, Relayed
  <2>5. ASSUME NEW i, i = read[w] + 1
        PROVE  InHand(w, i)' \/ (w = "net" /\ arrived'[w][i].src = INADDR_ANY)
    BY <1>0, <2>1, <2>3, <2>5 DEF InHand, d
  <2>6. \A v \in Watchers : \A i \in 1 .. read'[v] :
           i \in 1 .. read[v] \/ (v = w /\ i = read[w] + 1)
    BY <1>0, <2>1
  <2> QED
    BY <2>4, <2>5, <2>6 DEF NoSilentLoss, InHand, Relayed
<1>6. ASSUME NEW w \in Watchers, send_message(w) PROVE NoSilentLoss'
  <2> DEFINE sent == [id |-> data[w], len |-> len[w]]
  <2>1. /\ pc = "sendto" /\ cur = w
        /\ out' = [out EXCEPT ![w] = Append(@, sent)]
        /\ UNCHANGED <<arrived, read, cur, failed>>
    BY <1>6 DEF send_message
  <2>2. data[w] = read[w]
    BY <2>1 DEF RelayInv, InHandInv
  <2>3. out[w] \in Seq(Sent) /\ sent \in Sent
    BY <1>0, <2>1 DEF TypeInv, Sent
  <2>4. ASSUME NEW v \in Watchers, NEW i \in 1 .. read[v], Relayed(v, i) PROVE Relayed(v, i)'
    BY <1>0, <2>1, <2>3, <2>4 DEF Relayed
  <2>5. Relayed(w, read[w])'
    <3>1. Len(out'[w]) = Len(out[w]) + 1 /\ out'[w][Len(out[w]) + 1] = sent
      BY <1>0, <2>1, <2>3
    <3> QED
      BY <2>1, <2>2, <2>3, <3>1 DEF Relayed
  <2>6. ASSUME NEW v \in Watchers, NEW i \in 1 .. read[v], InHand(v, i) PROVE Relayed(v, i)'
    BY <2>1, <2>5, <2>6 DEF InHand
  <2> QED
    BY <2>1, <2>4, <2>6 DEF NoSilentLoss
<1>7. ASSUME NEW w \in Watchers, send_message_error(w) PROVE NoSilentLoss'
  <2>1. /\ pc = "sendto" /\ cur = w
        /\ failed' = [failed EXCEPT ![w] = @ \union {data[w]}]
        /\ UNCHANGED <<arrived, read, cur, out>>
    BY <1>7 DEF send_message_error
  <2>2. data[w] = read[w]
    BY <2>1 DEF RelayInv, InHandInv
  <2>3. \A v \in Watchers : \A i \in 1 .. read[v] : InHand(v, i) => i \in failed'[v]
    BY <1>0, <2>1, <2>2 DEF InHand
  <2>4. \A v \in Watchers : failed[v] \subseteq failed'[v]
    BY <1>0, <2>1
  <2> QED
    BY <2>1, <2>3, <2>4 DEF NoSilentLoss, Relayed
<1> QED
  BY <1>1, <1>2, <1>3, <1>4, <1>5, <1>6, <1>7 DEF Next, Daemon, Callback

\* Whatever is read from a socket is relayed, or its sendto failed, or it came
\* to the network socket from 0.0.0.0.
THEOREM NothingLostSilently == Spec => []NoSilentLoss
BY LossInit, LossStep, RelayInvariance, PTL DEF Spec

----------------------------------------------------------------------------
(* The loop implements LossyRelay *)

LEMMA RelayStep ==
    ASSUME TypeInv, QueueInv, RelayInv, NEW w \in Watchers, send_message(w)
    PROVE  Abstract!Relay(w)
<1>1. /\ pc = "sendto" /\ cur = w
      /\ out' = [out EXCEPT ![w] = Append(@, [id |-> data[w], len |-> len[w]])]
      /\ UNCHANGED arrived
  BY DEF send_message, kernelVars
<1>2. /\ data[w] = read[w]
      /\ read[w] \in 1 .. Len(arrived[w])
      /\ len[w] = recvmsg_bytes(arrived[w][read[w]].len)
  BY <1>1 DEF RelayInv, InHandInv
<1>3. Len(out[w]) \in Nat /\ Len(arrived[w]) \in Nat /\ read[w] \in Nat
  <2>1. out[w] \in Seq(Sent) /\ arrived[w] \in Seq(Datagrams)
    BY DEF TypeInv, TypeOK
  <2> QED
    BY <1>2, <2>1
<1>4. Abstract!LastRelayed(w) \in 0 .. (read[w] - 1)
  <2>1. out[w] # << >> => Len(out[w]) \in 1 .. Len(out[w])
    <3>1. out[w] \in Seq(Sent)
      BY DEF TypeInv, TypeOK
    <3> QED
      BY <1>3, <3>1
  <2>2. \A i \in 1 .. Len(out[w]) : out[w][i].id \in 1 .. (read[w] - 1)
    BY <1>1 DEF RelayInv, OrderInv, Settled
  <2>3. CASE out[w] = << >>
    BY <1>2, <1>3, <2>3 DEF Abstract!LastRelayed
  <2>4. CASE out[w] # << >>
    BY <1>3, <2>1, <2>2, <2>4 DEF Abstract!LastRelayed
  <2> QED
    BY <2>3, <2>4
<1>5. read[w] \in (Abstract!LastRelayed(w) + 1) .. Len(arrived[w])
  BY <1>2, <1>3, <1>4
<1> QED
  BY <1>1, <1>2, <1>5 DEF Abstract!Relay, recvmsg_bytes, LesserOf

\* Every behaviour of the loop, seen through its queues and its sends, is a
\* behaviour of two lossy, ordered, at-most-once relays.
THEOREM LoopImplementsRelay == Spec => ImplementsRelay
<1>1. Init => Abstract!Init
  BY DEF Init, Abstract!Init
<1>2. TypeInv /\ QueueInv /\ RelayInv /\ [Next]_vars => [Abstract!Next]_<<arrived, out>>
  <2> SUFFICES ASSUME TypeInv, QueueInv, RelayInv, [Next]_vars
               PROVE  [Abstract!Next]_<<arrived, out>>
    OBVIOUS
  <2> USE DEF kernelVars, libevVars, argVars, outVars, stdinVars
  <2>1. ASSUME NEW w \in Watchers, Arrive(w) PROVE Abstract!Arrive(w)
    BY <2>1 DEF Arrive, Abstract!Arrive
  <2>2. ASSUME NEW w \in Watchers, send_message(w) PROVE Abstract!Relay(w)
    BY <2>2, RelayStep
  <2>3. ASSUME NEW w \in Watchers,
               cb_common(w) \/ recv_msg_error(w) \/ recv_msg(w) \/ send_message_error(w)
        PROVE  UNCHANGED Abstract!vars
    BY <2>3 DEF cb_common, recv_msg_error, recv_msg, send_message_error, Abstract!vars
  <2>4. CASE fd_reify \/ epoll_wait \/ ev_loop_next \/ getchar \/ printf \/ Terminal
    BY <2>4 DEF fd_reify, epoll_wait, ev_loop_next, getchar, printf, Terminal,
       TypeLine, CloseStdin, Abstract!vars
  <2>5. CASE UNCHANGED vars
    BY <2>5 DEF vars, Abstract!vars
  <2> QED
    BY <2>1, <2>2, <2>3, <2>4, <2>5 DEF Next, Daemon, Callback,
       Abstract!Next, Abstract!vars
<1> QED
  BY <1>1, <1>2, RelayInvariance, PTL DEF Spec, ImplementsRelay, Abstract!Spec, Abstract!vars
=============================================================================

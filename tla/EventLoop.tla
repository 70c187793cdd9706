----------------------------- MODULE EventLoop -----------------------------
(***************************************************************************)
(* One daemon in its event loop: the two libev watchers of normal mode,    *)
(* the callbacks of src/udpev/cb_udp_events.c they run, and the blocking   *)
(* calls those make.  The daemon has one thread; it interleaves, at its    *)
(* system calls, with the arrival of datagrams and with the terminal.      *)
(*                                                                         *)
(*   "net"  the socket on rx_port,     whose callback is                   *)
(*          cb_forward_recvfrom: network -> local application;             *)
(*   "app"  the socket on app_rx_port, whose callback is                   *)
(*          cb_broadcast_recvfrom: local application -> network.           *)
(*                                                                         *)
(* A callback prints unconditionally, and a print does not return while    *)
(* nobody drains the standard output; prints with no call of another kind  *)
(* between them are one.                                                   *)
(*                                                                         *)
(* The receive buffer of the kernel is the part of "arrived" that has not  *)
(* been read: a datagram is named by its position in "arrived".            *)
(***************************************************************************)
EXTENDS UdpSocket, Sequences

CONSTANTS
    HostAddr,      \* the address of the interface the daemon was started on
    Datagrams,     \* what may arrive: records [src, len]
    LowWords,      \* low words of the heap pointers of set_msghdrs_socket
    RcvBuf,        \* datagrams that the kernel buffers for one socket
    MaxArrivals,   \* bound: datagrams accepted by one socket in a behaviour
    MaxTyped       \* bound: unread characters of the terminal

ASSUME HostAddrAssumption == HostAddr # INADDR_ANY
ASSUME DatagramsAssumption ==
    \A d \in Datagrams : /\ DOMAIN d = {"src", "len"}
                         /\ d.len \in Nat
ASSUME BoundsAssumption ==
    RcvBuf \in Nat /\ MaxArrivals \in Nat /\ MaxTyped \in Nat

Watchers == {"net", "app"}

VARIABLES
    arrived,    \* [Watchers -> Seq(Datagrams)], what each socket accepted
    read,       \* [Watchers -> Nat], how many of those recvmsg returned
    fd,         \* [Watchers -> {"started", "polled", "killed"}], libev's view
    revents,    \* [Watchers -> {"none", "EV_READ", "EV_ERROR"}], libev's pendings
    pc,         \* the call the daemon is in, or is about to make
    cur,        \* the watcher whose callback runs, or ran last
    data,       \* [Watchers -> Nat], the datagram in public_arg.data, 0 if none
    len,        \* [Watchers -> Int], public_arg.len
    controllen, \* [Watchers -> Nat], public_arg.msg_header->msg_controllen
    pktinfo,    \* [Watchers -> BOOLEAN], the IP_PKTINFO option of the socket
    out,        \* [Watchers -> Seq([id, len])], what sendto accepted
    failed,     \* [Watchers -> SUBSET Nat], datagrams whose sendto failed
    typed,      \* characters typed and not yet read from stdin
    eof         \* stdin is at end of file

kernelVars == <<arrived, read, pktinfo>>
libevVars  == <<fd, revents>>
argVars    == <<data, len, controllen>>
outVars    == <<out, failed>>
stdinVars  == <<typed, eof>>
vars == <<kernelVars, libevVars, pc, cur, argVars, outVars, stdinVars>>

Unread(w) == Len(arrived[w]) - read[w]

Running == pc \notin {"segv", "exit"}

\* public_arg.local_addr of both watchers: init_if_sockaddr_in hands the
\* interface's address to init_sockaddr_in.
local_addr == init_sockaddr_in(HostAddr, 0).sin_addr

----------------------------------------------------------------------------
(* The environment: the kernel's socket buffers and the terminal *)

\* A datagram reaches a socket with room for it; with none it is gone, which
\* is no step of this module.
Arrive(w) ==
    /\ Running
    /\ Unread(w) < RcvBuf
    /\ Len(arrived[w]) < MaxArrivals
    /\ \E d \in Datagrams : arrived' = [arrived EXCEPT ![w] = Append(@, d)]
    /\ UNCHANGED <<read, pktinfo, libevVars, pc, cur, argVars, outVars, stdinVars>>

TypeLine ==
    /\ ~eof
    /\ \E n \in 1 .. MaxTyped : typed + n <= MaxTyped /\ typed' = typed + n
    /\ UNCHANGED <<eof, kernelVars, libevVars, pc, cur, argVars, outVars>>

CloseStdin ==
    /\ ~eof
    /\ eof' = TRUE
    /\ UNCHANGED <<typed, kernelVars, libevVars, pc, cur, argVars, outVars>>

----------------------------------------------------------------------------
(* libev, as ev_loop uses it *)

\* The first iteration hands the sockets to epoll; a watcher whose socket epoll
\* refuses is stopped and told so with EV_ERROR.
fd_reify ==
    /\ pc = "fd_reify"
    /\ \E refused \in SUBSET Watchers :
          /\ fd'      = [w \in Watchers |-> IF w \in refused THEN "killed" ELSE "polled"]
          /\ revents' = [w \in Watchers |-> IF w \in refused THEN "EV_ERROR" ELSE "none"]
    /\ pc' = "epoll_wait"
    /\ UNCHANGED <<kernelVars, cur, argVars, outVars, stdinVars>>

\* epoll_wait returns when a socket is readable, at once if an event is pending.
epoll_wait ==
    LET readable == {w \in Watchers : fd[w] = "polled" /\ Unread(w) > 0}
    IN  /\ pc = "epoll_wait"
        /\ readable # {} \/ \E w \in Watchers : revents[w] # "none"
        /\ revents' = [w \in Watchers |-> IF w \in readable THEN "EV_READ" ELSE revents[w]]
        /\ pc' = "ev_invoke_pending"
        /\ UNCHANGED <<kernelVars, fd, cur, argVars, outVars, stdinVars>>

\* Every pending event was invoked: ev_loop goes on while a watcher is active
\* and otherwise returns to main, which exits.
ev_loop_next ==
    /\ pc = "ev_invoke_pending"
    /\ \A w \in Watchers : revents[w] = "none"
    /\ pc' = IF \E w \in Watchers : fd[w] # "killed" THEN "epoll_wait" ELSE "exit"
    /\ UNCHANGED <<kernelVars, libevVars, cur, argVars, outVars, stdinVars>>

----------------------------------------------------------------------------
(* The daemon's callbacks *)

\* What comes after each print of a callback: its first one, the one after
\* recv_msg, the report of a failed sendto, and those before it returns.
AfterPrint == [print_received |-> "recvmsg",
               print_read     |-> "sendto",
               print_failed   |-> "getchar",
               print_done     |-> "ev_invoke_pending"]

printf ==
    /\ pc \in DOMAIN AfterPrint
    /\ pc' = AfterPrint[pc]
    /\ UNCHANGED <<kernelVars, libevVars, cur, argVars, outVars, stdinVars>>

\* Mutant: the pending event outlives its callback.
cb_common_keeps_event(w) ==
    /\ pc = "ev_invoke_pending"
    /\ revents[w] = "EV_READ"
    /\ pc' = "print_received" /\ cur' = w
    /\ len' = [len EXCEPT ![w] = 0]
    /\ UNCHANGED <<kernelVars, libevVars, data, controllen, outVars, stdinVars>>

\* cb_common: an error event is logged and nothing more, any other event runs
\* the watcher's own callback, which clears arg->len and calls recv_msg.
cb_common(w) ==
    /\ pc = "ev_invoke_pending"
    /\ revents[w] # "none"
    /\ revents' = [revents EXCEPT ![w] = "none"]
    /\ \/ revents[w] = "EV_ERROR" /\ pc' = "print_done" /\ UNCHANGED <<cur, len>>
       \/ /\ revents[w] = "EV_READ"
          /\ pc' = "print_received" /\ cur' = w
          /\ len' = [len EXCEPT ![w] = 0]
    /\ UNCHANGED <<kernelVars, fd, data, controllen, outVars, stdinVars>>

\* Mutant: the callback does not look at the error that recv_msg returns.
recv_msg_error_ignored(w) ==
    /\ pc = "recvmsg" /\ cur = w
    /\ len' = [len EXCEPT ![w] = -1]
    /\ pc' = "print_read"
    /\ UNCHANGED <<kernelVars, libevVars, cur, data, controllen, outVars, stdinVars>>

\* recvmsg fails: recv_msg returns EX_ERR and the callback logs it and gives up.
recv_msg_error(w) ==
    /\ pc = "recvmsg" /\ cur = w
    /\ len' = [len EXCEPT ![w] = -1]
    /\ pc' = "print_done"
    /\ UNCHANGED <<kernelVars, libevVars, cur, data, controllen, outVars, stdinVars>>

\* Mutant: the application's callback honours the filter as well.
Blocked_both(w, s_addr) == s_addr = local_addr

\* cb_forward_recvfrom drops a message that recv_msg reports as blocked;
\* cb_broadcast_recvfrom does not look.
Blocked(w, s_addr) == w = "net" /\ s_addr = local_addr

\* recvmsg is a blocking call: with nothing to read it does not return.
recv_msg(w) ==
    /\ pc = "recvmsg" /\ cur = w
    /\ Unread(w) > 0
    /\ LET d   == arrived[w][read[w] + 1]
           ctl == recvmsg_controllen(pktinfo[w], controllen[w])
           src == get_source_address(ctl, d.src)
       IN  /\ read'       = [read EXCEPT ![w] = @ + 1]
           /\ data'       = [data EXCEPT ![w] = read[w] + 1]
           /\ controllen' = [controllen EXCEPT ![w] = ctl]
           /\ \/ src.null /\ pc' = "segv" /\ UNCHANGED len
              \/ /\ ~src.null
                 /\ len' = [len EXCEPT ![w] = recvmsg_bytes(d.len)]
                 /\ pc'  = IF Blocked(w, src.s_addr) THEN "print_done" ELSE "print_read"
    /\ UNCHANGED <<arrived, pktinfo, libevVars, cur, outVars, stdinVars>>

\* Mutant: the datagram is sent again before the callback returns.
send_message_twice(w) ==
    /\ pc = "sendto" /\ cur = w
    /\ LET sent == [id |-> data[w], len |-> len[w]]
       IN  out' = [out EXCEPT ![w] = @ \o <<sent, sent>>]
    /\ pc' = "print_done"
    /\ UNCHANGED <<kernelVars, libevVars, cur, argVars, failed, stdinVars>>

\* Mutant: the callback goes on while its socket has datagrams.
send_message_drains(w) ==
    /\ pc = "sendto" /\ cur = w
    /\ out' = [out EXCEPT ![w] = Append(@, [id |-> data[w], len |-> len[w]])]
    /\ pc' = IF Unread(w) > 0 THEN "print_received" ELSE "print_done"
    /\ UNCHANGED <<kernelVars, libevVars, cur, argVars, failed, stdinVars>>

send_message(w) ==
    /\ pc = "sendto" /\ cur = w
    /\ out' = [out EXCEPT ![w] = Append(@, [id |-> data[w], len |-> len[w]])]
    /\ pc' = "print_done"
    /\ UNCHANGED <<kernelVars, libevVars, cur, argVars, failed, stdinVars>>

\* sendto fails: the error is logged and the daemon waits for a character.
send_message_error(w) ==
    /\ pc = "sendto" /\ cur = w
    /\ failed' = [failed EXCEPT ![w] = @ \union {data[w]}]
    /\ pc' = "print_failed"
    /\ UNCHANGED <<kernelVars, libevVars, cur, argVars, out, stdinVars>>

getchar ==
    /\ pc = "getchar"
    /\ \/ typed > 0 /\ typed' = typed - 1
       \/ typed = 0 /\ eof /\ UNCHANGED typed
    /\ pc' = "print_done"
    /\ UNCHANGED <<eof, kernelVars, libevVars, cur, argVars, outVars>>

----------------------------------------------------------------------------
(* main enters ev_loop with both watchers started *)

Init ==
    /\ arrived    = [w \in Watchers |-> << >>]
    /\ read       = [w \in Watchers |-> 0]
    /\ fd         = [w \in Watchers |-> "started"]
    /\ revents    = [w \in Watchers |-> "none"]
    /\ pc         = "fd_reify"
    /\ cur        = "net"
    /\ data       = [w \in Watchers |-> 0]
    /\ len        = [w \in Watchers |-> 0]
    /\ controllen = [w \in Watchers |-> new_msg_header]
    /\ \E low \in [Watchers -> LowWords] :
          pktinfo = [w \in Watchers |-> set_msghdrs_socket(low[w])]
    /\ out        = [w \in Watchers |-> << >>]
    /\ failed     = [w \in Watchers |-> {}]
    /\ typed      = 0
    /\ eof \in BOOLEAN

Callback(w) ==
    \/ cb_common(w)
    \/ recv_msg_error(w)
    \/ recv_msg(w)
    \/ send_message(w)
    \/ send_message_error(w)

Daemon ==
    \/ fd_reify
    \/ epoll_wait
    \/ ev_loop_next
    \/ \E w \in Watchers : Callback(w)
    \/ getchar

Terminal == TypeLine \/ CloseStdin

Next == Daemon \/ printf \/ Terminal \/ \E w \in Watchers : Arrive(w)

Spec == Init /\ [][Next]_vars

\* The thread runs whenever it is not blocked, and recvmsg does not fail for
\* ever on a readable socket.  Nothing is said of the terminal, of who drains
\* the standard output, or of the network.
DaemonFairness ==
    /\ WF_vars(Daemon)
    /\ \A w \in Watchers : SF_vars(recv_msg(w))

\* Every print returns in the end: somebody drains the standard output.
OutputDrained == WF_vars(printf)

FairSpec == Spec /\ DaemonFairness

FairPrintingSpec == FairSpec /\ OutputDrained

----------------------------------------------------------------------------
(* Type invariant *)

PCs == {"fd_reify", "epoll_wait", "ev_invoke_pending", "print_received", "recvmsg",
        "print_read", "sendto", "print_failed", "getchar", "print_done", "segv", "exit"}

Sent == [id : Nat, len : Nat]

\* Every variable has its type, and libev's view of a socket is one of its own.
TypeOK ==
    /\ arrived    \in [Watchers -> Seq(Datagrams)]
    /\ read       \in [Watchers -> Nat]
    /\ fd         \in [Watchers -> {"started", "polled", "killed"}]
    /\ revents    \in [Watchers -> {"none", "EV_READ", "EV_ERROR"}]
    /\ pc         \in PCs
    /\ cur        \in Watchers
    /\ data       \in [Watchers -> Nat]
    /\ len        \in [Watchers -> Nat \union {-1}]
    /\ controllen \in [Watchers -> 0 .. CONTROL_BUFFER_LEN]
    /\ pktinfo    \in [Watchers -> BOOLEAN]
    /\ out        \in [Watchers -> Seq(Sent)]
    /\ failed     \in [Watchers -> SUBSET Nat]
    /\ typed      \in Nat
    /\ eof        \in BOOLEAN

----------------------------------------------------------------------------
(* Safety *)

\* The sockets are blocking and libev's readiness is a snapshot that is acted
\* upon later, after the other watcher's callback ran: recvmsg is nevertheless
\* only called on a socket with a datagram in it, so that no callback parks the
\* whole loop in recvmsg (recv_msg, open_receiver_udp_socket without
\* O_NONBLOCK).
NoBlockingRecv == pc = "recvmsg" => Unread(cur) > 0

\* The reused msghdr never runs out of control space: the only way into the
\* NULL dereference of get_source_address is a socket whose IP_PKTINFO option
\* set_msghdrs_socket left off.
SourceKnown == pc = "segv" => ~pktinfo[cur]

\* Each direction relays a datagram at most once and in the order of arrival,
\* and never sends what an earlier call left in public_arg.data.
InOrderAtMostOnce ==
    \A w \in Watchers :
        /\ \A i, j \in 1 .. Len(out[w]) : i < j => out[w][i].id < out[w][j].id
        /\ \A i \in 1 .. Len(out[w]) : out[w][i].id \in 1 .. read[w] \ failed[w]

\* The datagram the callback holds between recv_msg and the end of send_message.
InHand(w, i) == cur = w /\ pc \in {"print_read", "sendto", "segv"} /\ i = read[w]

Relayed(w, i) == \E k \in 1 .. Len(out[w]) : out[w][k].id = i

\* A datagram taken off a socket is relayed, or its sendto failed, or it came
\* to the network socket from the address 0.0.0.0: no callback drops anything
\* else (cb_forward_recvfrom, cb_broadcast_recvfrom).
NoSilentLoss ==
    \A w \in Watchers : \A i \in 1 .. read[w] :
        \/ InHand(w, i)
        \/ Relayed(w, i)
        \/ i \in failed[w]
        \/ w = "net" /\ arrived[w][i].src = INADDR_ANY

\* The loop implements one lossy, ordered, at-most-once relay per watcher.
Abstract == INSTANCE LossyRelay WITH
    Channels <- Watchers, Limit <- UDP_BUFFER_LEN
ImplementsRelay == Abstract!Spec

----------------------------------------------------------------------------
(* Liveness *)

\* Every datagram that reaches a socket is taken off it, unless epoll refused
\* that socket, which the other one must not suffer from, or the daemon crashed.
Drained ==
    \A w \in Watchers : \A i \in 1 .. MaxArrivals :
        Len(arrived[w]) >= i ~> (read[w] >= i \/ fd[w] = "killed" \/ pc = "segv")

\* So it is while somebody sits at the terminal, or closes it, and somebody
\* drains the standard output: getchar and the prints are the only calls of the
\* loop that wait for a person or another process (send_message, cb_common).
DrainedIfAttended == (WF_vars(Terminal) /\ OutputDrained) => Drained

----------------------------------------------------------------------------
(* What the source says of itself and the code does not do *)

\* "Initializes a new structure for handling libev's reception events for an
\* UDP socket which will trigger the immediate forwarding of those messages"
\* (udp_events.h:150): a message in the network socket is at least taken off it.
ReceptionTriggersForwarding ==
    \A i \in 1 .. MaxArrivals :
        Len(arrived["net"]) >= i
            ~> (read["net"] >= i \/ fd["net"] = "killed" \/ ~Running)
============================================================================

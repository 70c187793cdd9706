----------------------------- MODULE DaemonNet -----------------------------
(***************************************************************************)
(* BroadcastNet with the callbacks taken apart: between its system calls   *)
(* the one thread of a daemon is overtaken by its peers, by its own        *)
(* applications and by the messages it sends to itself, and it may sit in  *)
(* a call that only the terminal ends.  A callback prints before it reads  *)
(* and before it sends, and waits for a character when sendto fails; what  *)
(* it prints at its end may as well be printed by the next one.            *)
(*                                                                         *)
(* A daemon in "epoll_wait" may run the callback of any socket with a      *)
(* datagram; EventLoop shows that libev does no more.                      *)
(***************************************************************************)
EXTENDS BroadcastNet

VARIABLES
    pc,      \* [Nodes -> "epoll_wait", "printf", "recvmsg", "sendto", "getchar"]
    cur,     \* [Nodes -> Sockets], the socket whose callback runs, or ran last
    hand     \* [Nodes -> Seq(Packet)], what the callback has read and not sent

netVars  == <<cfg, sent, queue, delivered, lost, duplicated>>
loopVars == <<pc, cur, hand>>
allVars  == <<netVars, loopVars>>

At(n, call) == pc[n] = call
Goto(n, call) == pc' = [pc EXCEPT ![n] = call]

----------------------------------------------------------------------------
(* The steps of a callback *)

cb_common(n, s) ==
    /\ At(n, "epoll_wait") /\ Goto(n, "printf")
    /\ queue[n][s] # << >>
    /\ cur' = [cur EXCEPT ![n] = s]
    /\ UNCHANGED <<netVars, hand>>

\* Before a message is read, and again before it is sent; returns when stdout
\* takes the text.
printf(n) ==
    /\ At(n, "printf") /\ Goto(n, IF hand[n] = << >> THEN "recvmsg" ELSE "sendto")
    /\ UNCHANGED <<netVars, cur, hand>>

recv_msg_error(n) ==
    /\ At(n, "recvmsg") /\ Goto(n, "epoll_wait")
    /\ UNCHANGED <<netVars, cur, hand>>

recv_msg(n) ==
    /\ At(n, "recvmsg")
    /\ queue[n][cur[n]] # << >>
    /\ queue' = Dequeued(n, cur[n])
    /\ LET p == Head(queue[n][cur[n]])
       IN  \/ /\ cur[n] = "net" /\ Blocked(n, p)
              /\ Goto(n, "epoll_wait")
              /\ UNCHANGED hand
           \/ /\ ~(cur[n] = "net" /\ Blocked(n, p))
              /\ Len(p.path) < MaxRelays
              /\ hand' = [hand EXCEPT ![n] = <<p>>]
              /\ Goto(n, "printf")
    /\ UNCHANGED <<cfg, sent, delivered, lost, duplicated, cur>>

\* What the callback of cur[n] sends, and where to.
Outgoing(n) ==
    Relayed(Head(hand[n]), n,
            IF cur[n] = "app" THEN "cb_broadcast_recvfrom" ELSE "cb_forward_recvfrom")
Destination(n) == IF cur[n] = "app" THEN broadcast_addr(n) ELSE forwarding_addr(n)

\* Mutant: what was sent is sent again in the next iteration.
send_message_twice(n) ==
    /\ At(n, "sendto")
    /\ sendto(queue, n, Destination(n), Outgoing(n))
    /\ Goto(n, "epoll_wait") \/ Goto(n, "sendto")
    /\ UNCHANGED <<cfg, sent, cur, hand>>

send_message(n) ==
    /\ At(n, "sendto") /\ Goto(n, "epoll_wait")
    /\ sendto(queue, n, Destination(n), Outgoing(n))
    /\ hand' = [hand EXCEPT ![n] = << >>]
    /\ UNCHANGED <<cfg, sent, cur>>

\* sendto fails: whoever would have heard the message has lost it.
send_message_error(n) ==
    /\ At(n, "sendto") /\ Goto(n, "getchar")
    /\ lost' = lost \union {r \in Reached(n, Destination(n).sin_addr) :
                              Listener(r, Destination(n).sin_port) # "none"}
    /\ hand' = [hand EXCEPT ![n] = << >>]
    /\ UNCHANGED <<cfg, sent, queue, delivered, duplicated, cur>>

getchar(n) ==
    /\ At(n, "getchar") /\ Goto(n, "epoll_wait")
    /\ UNCHANGED <<netVars, cur, hand>>

----------------------------------------------------------------------------
LoopInit ==
    /\ Init
    /\ pc   = [n \in Nodes |-> "epoll_wait"]
    /\ cur  = [n \in Nodes |-> "net"]
    /\ hand = [n \in Nodes |-> << >>]

Applications ==
    /\ \/ \E n \in Nodes, m \in Msgs : AppSend(n, m)
       \/ \E m \in Msgs : OutsideSend(m)
    /\ UNCHANGED loopVars

Thread(n) ==
    \/ \E s \in Sockets : cb_common(n, s)
    \/ printf(n) \/ recv_msg_error(n) \/ recv_msg(n)
    \/ send_message(n) \/ send_message_error(n) \/ getchar(n)

LoopNext == Applications \/ \E n \in Nodes : Thread(n)

LoopSpec == LoopInit /\ [][LoopNext]_allVars

\* The threads run where nothing stops them, and serve both of their sockets; a
\* readable socket does not fail for ever.  Nothing is said of the terminals.
FairLoopSpec ==
    /\ LoopSpec
    /\ \A n \in Nodes : /\ WF_allVars(recv_msg_error(n) \/ recv_msg(n))
                        /\ WF_allVars(send_message(n) \/ send_message_error(n))
                        /\ SF_allVars(recv_msg(n))
                        /\ \A s \in Sockets : SF_allVars(cb_common(n, s))

\* Somebody reads what node n prints, and types a character where one is due.
Attended(n) == WF_allVars(printf(n)) /\ WF_allVars(getchar(n))

----------------------------------------------------------------------------
(* Properties *)

\* A message that a callback holds counts as not yet read: with that the steps
\* of the callbacks, in any interleaving, are those of BroadcastNet, where one
\* callback is one step and a receive buffer has room for one message more.
Unsent == [n \in Nodes |-> [s \in Sockets |->
              IF s = cur[n] THEN hand[n] \o queue[n][s] ELSE queue[n][s]]]

Atomic == INSTANCE BroadcastNet WITH queue <- Unsent, RcvBuf <- RcvBuf + 1
CallbacksAreAtomic == Atomic!Spec

Silent == \A n \in Nodes : hand[n] = << >> /\ \A s \in Sockets : queue[n][s] = << >>

\* With hygienic ports and terminals that are attended the network falls silent
\* when nobody sends: no storm, and nobody waits for a message he holds.
StormFree == (PortHygiene /\ \A n \in Nodes : Attended(n)) => []<>Silent

\* A message reaches every application that is wired to its sender, the sender's
\* own included, if neither of the two hosts loses anything and their terminals
\* are attended: a third daemon that hangs in a print or in getchar, or that
\* drops what it hears, delays and hides nothing.
EndToEnd ==
    PortHygiene =>
        \A m \in {k \in Msgs : origin[k] \in Nodes}, r \in Nodes :
            LET o == origin[m]
            IN  ([](lost \cap {o, r} = {}) /\ Attended(o) /\ Attended(r)) =>
                    ((m \in sent /\ Hears(r, o)) ~> delivered[r][m] > 0)
=============================================================================

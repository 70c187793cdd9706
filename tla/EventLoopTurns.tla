--------------------------- MODULE EventLoopTurns ---------------------------
(***************************************************************************)
(* Whose turn it is in the event loop.  A callback reads one datagram and  *)
(* goes back to libev, which looks at both sockets before it invokes       *)
(* another: a flood into one socket cannot keep the other one waiting.     *)
(*                                                                         *)
(* The history variable counts, for each watcher, the callbacks of the     *)
(* other one that were entered while it had a datagram to read.  Nothing   *)
(* is assumed of the scheduler, of the calls' results or of the arrivals.  *)
(***************************************************************************)
EXTENDS EventLoop

VARIABLE overtaken  \* [Watchers -> Nat]

\* epoll watches the socket and it is readable.
Waiting(w) == fd[w] = "polled" /\ Unread(w) > 0

\* The step enters the watcher's callback, up to its first print.
Entered(w) == pc # "print_received" /\ pc' = "print_received" /\ cur' = w

Overtaken(w) ==
    IF Entered(w) THEN 0
    ELSE IF Waiting(w) /\ \E v \in Watchers : Entered(v) THEN overtaken[w] + 1
    ELSE overtaken[w]

TurnsInit == Init /\ overtaken = [w \in Watchers |-> 0]

TurnsNext == Next /\ overtaken' = [w \in Watchers |-> Overtaken(w)]

TurnsSpec == TurnsInit /\ [][TurnsNext]_<<vars, overtaken>>

\* A datagram in one direction waits for at most two callbacks of the other:
\* the one that was pending when it arrived, and the first of the two that the
\* next epoll_wait finds ready (cb_forward_recvfrom, cb_broadcast_recvfrom).
ServedInTurn == \A w \in Watchers : overtaken[w] <= 2
=============================================================================

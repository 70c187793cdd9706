---------------------------- MODULE MCEventLoop ----------------------------
(* Instances of EventLoop for TLC. *)
EXTENDS EventLoop

\* The two kinds of datagram that the callbacks and the buffers tell apart:
\* an empty one from a host without an address yet, and one from another host
\* that is longer than the receive buffer.
MCDatagrams == {[src |-> INADDR_ANY, len |-> 0], [src |-> "peer", len |-> UDP_BUFFER_LEN + 1]}
============================================================================

-------------------------- MODULE MCEventLoopTurns --------------------------
(* An instance of EventLoopTurns for TLC, with the datagrams of MCEventLoop. *)
EXTENDS EventLoopTurns

MCDatagrams == {[src |-> INADDR_ANY, len |-> 0], [src |-> "peer", len |-> UDP_BUFFER_LEN + 1]}
=============================================================================

--------------------------- MODULE MCBroadcastNet ---------------------------
(* Instances of BroadcastNet for TLC: "n1" is on the lan, the other nodes on   *)
(* the lan and on the wan; the interface of "n2" is the one on the wan.         *)
EXTENDS BroadcastNet

Config(tx, rx, app_tx, app_rx) ==
    [tx_port |-> tx, rx_port |-> rx, app_tx_port |-> app_tx, app_rx_port |-> app_rx]

Usual       == Config(6666, 6666, 7001, 7002)  \* one port on the network
Wrapped     == Config(72202, 6667, 7001, 7002) \* 72202 - 65536 = 6666
Rebroadcast == Config(7002, 6666, 7001, 7002)  \* tx_port is an app_rx_port
Swapped     == Config(6666, 7001, 6666, 7002)  \* ports of the two sides mixed
SelfForward == Config(6666, 7001, 7001, 7002)  \* app_tx_port is its rx_port

MCConfigs     == {Usual, Wrapped, Rebroadcast, Swapped, SelfForward}
MCRebroadcast == {Usual, Rebroadcast}

\* "foreign" comes from outside, "m2" from the second node, the rest from the
\* first.
MCOrigin == [m \in Msgs |-> CASE m = "foreign" -> "host"
                             [] m = "m2"      -> "n2"
                             [] OTHER         -> "n1"]

MCAttached == [h \in Nodes \union Outside |->
                  CASE h = "n1" -> {"lan"} [] h \in Outside -> {"wan"} [] OTHER -> Networks]
MCIface    == [n \in Nodes |-> IF n = "n2" THEN "wan" ELSE "lan"]
============================================================================

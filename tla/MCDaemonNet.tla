---------------------------- MODULE MCDaemonNet ----------------------------
(* Instances of DaemonNet for TLC: the hosts have their interface on the lan;  *)
(* "n3" hears the wan of the hosts outside as well.  The first configurations   *)
(* have hygienic ports, one of them sends to 72202 - 65536 = 6666; the last one *)
(* broadcasts to an application port.                                           *)
EXTENDS DaemonNet

Config(tx, rx, app_tx, app_rx) ==
    [tx_port |-> tx, rx_port |-> rx, app_tx_port |-> app_tx, app_rx_port |-> app_rx]

MCHygienic == {Config(6666, 6666, 7001, 7002), Config(72202, 6667, 7001, 7002)}
MCConfigs  == MCHygienic \union {Config(7002, 6666, 7001, 7002)}

MCOrigin   == [m \in Msgs |-> IF m = "addressless" THEN "newcomer" ELSE "n1"]
MCAttached == [h \in Nodes \union Outside |->
                  CASE h = "n3" -> Networks [] h \in Outside -> {"wan"} [] OTHER -> {"lan"}]
MCIface    == [n \in Nodes |-> "lan"]
============================================================================

----------------------------- MODULE MCStartup -----------------------------
(* Instances of Startup for TLC. *)
EXTENDS Startup

Config(tx, rx, app_tx, app_rx, test) ==
    [tx_port |-> tx, rx_port |-> rx, app_tx_port |-> app_tx, app_rx_port |-> app_rx,
     app_address |-> "10.0.0.1", if_name |-> "eth0", __tx_test |-> test]

Usual    == Config(6666, 6666, 7001, 7002, FALSE)
Clash    == Config(6666, 72538, 7001, 7002, FALSE)    \* 72538 - 65536 = 7002
AnyPort  == Config(6666, 65536, 7001, 131072, FALSE)  \* htons leaves 0 of both
Wrapped  == Config(72202, 72202, 7001, 7002, FALSE)   \* 72202 - 65536 = 6666
TestMode == Config(6666, 6666, 7001, 7002, TRUE)
NoDevice == [Usual EXCEPT !.if_name = "eth9"]

MCConfigs  == {Usual, Clash, AnyPort, Wrapped, TestMode, NoDevice}
MCTestMode == {Usual, TestMode}
MCUsual    == {Usual}
============================================================================

------------------------------- MODULE MCMain -------------------------------
(* An instance of Main for TLC: command lines for a host whose interface is   *)
(* "eth0", the usual one with none, one or two options changed or added.      *)
EXTENDS Main

Opt(o, v) == [opt |-> o, val |-> v]

Usual ==
    <<Opt("t", 6666), Opt("r", 6667), Opt("u", 7001), Opt("w", 7002), Opt("i", "eth0")>>

Late ==
    {Opt("r", 0), Opt("r", -1), Opt("r", 72203), Opt("w", 65536), Opt("w", 6667), Opt("u", 7003),
     Opt("t", 72202), Opt("s", "-"), Opt("v", "-"), Opt("i", "eth9"), Opt("d", "10.0.0.1"),
     Opt("d", "none")}

MCArgvs ==
    {<< >>, Usual, Tail(Usual)}
        \union {Append(Usual, o) : o \in Late} \union {<<o>> \o Usual : o \in Late}
        \union {Usual \o <<Opt("s", "-"), Opt("s", "-")>>}

MCTruncated(name) == name
MCinet_addr(text) == IF text = "10.0.0.1" THEN text ELSE Command!INADDR_NONE
=============================================================================

--------------------------- MODULE MCConfiguration ---------------------------
(* An instance of Configuration for TLC: a command line that is complete, with *)
(* up to two more options anywhere in it.                                      *)
EXTENDS Configuration

Opt(o, v) == [opt |-> o, val |-> v]

Complete == <<Opt("t", 6666), Opt("r", 6666), Opt("u", 7001), Opt("w", 7002), Opt("i", "eth0")>>

Extra ==
    {Opt(o, v) : o \in {"t", "w"}, v \in {-1, 0, 72202}}
        \union {Opt("r", 0), Opt("u", -1)}
        \union {Opt(o, "-") : o \in {"s", "n", "e", "v", "h", "?"}}
        \union {Opt("i", v) : v \in {"", "an-interface-name"}}
        \union {Opt("d", v) : v \in {"", "10.0.0.1", "none", "255.255.255.255"}}

With(argvs) == {InsertAt(a, i, o) : a \in argvs, i \in 1 .. 6, o \in Extra}

MCArgvs ==
    LET one == With({Complete})
    IN  {<< >>, Complete, Tail(Complete), SubSeq(Complete, 1, 4)} \union one
            \union {InsertAt(a, i, o) : a \in one, i \in 1 .. 7, o \in Extra}

MCTruncated(name) == IF name = "an-interface-name" THEN "an-interface-nam" ELSE name

MCinet_addr(text) == IF text = "10.0.0.1" THEN text ELSE INADDR_NONE
============================================================================

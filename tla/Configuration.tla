--------------------------- MODULE Configuration ---------------------------
(***************************************************************************)
(* The command line: read_configuration goes through the options one by    *)
(* one, writes what each says into a configuration_t, and leaves the       *)
(* process at the first one it cannot use; check_configuration then        *)
(* accepts or refuses the whole.                                           *)
(*                                                                         *)
(* An option is a record [opt, val]; val is what atoi makes of a port, the *)
(* text of a name or an address, and unused for a flag.  What getopt_long  *)
(* itself refuses (no such option, no argument) is the option "?".         *)
(***************************************************************************)
EXTENDS Integers, Sequences, SequencesExt

CONSTANTS
    Argvs,        \* the command lines: sequences of [opt, val]
    Truncated(_), \* the first IF_NAMESIZE characters of an interface name
    inet_addr(_)  \* the address a text stands for, INADDR_NONE if for none

PortField == [t |-> "tx_port", r |-> "rx_port", u |-> "app_tx_port", w |-> "app_rx_port"]
FlagField == [s |-> "__tx_test", n |-> "nec_mode", e |-> "__verbose"]

\* What inet_addr returns for a text that is no address, and also for the
\* broadcast address.
INADDR_NONE == "255.255.255.255"

ASSUME ArgvsAssumption ==
    \A argv \in Argvs :
        /\ argv \in Seq(Range(argv))
        /\ \A i \in 1 .. Len(argv) :
              /\ argv[i].opt \in DOMAIN PortField \union DOMAIN FlagField
                                   \union {"i", "d", "v", "h", "?"}
              /\ argv[i].opt \in DOMAIN PortField => argv[i].val \in Int

\* Only the empty name is cut to an empty one.
ASSUME TruncatedAssumption ==
    /\ Truncated("") = ""
    /\ \A argv \in Argvs : \A i \in 1 .. Len(argv) : 
          argv[i].opt = "i" /\ Truncated(argv[i].val) = "" => argv[i].val = ""

VARIABLES
    argv,       \* the command line
    rest,       \* the options that getopt_long has not returned yet
    cfg,        \* the configuration_t
    pc,         \* "read", "check", "accepted", "EXIT_SUCCESS" or "EXIT_FAILURE"
    __verbose   \* the global that turns the callbacks' printing on

vars == <<argv, rest, cfg, pc, __verbose>>

new_configuration ==
    [tx_port |-> 0, rx_port |-> 0, app_tx_port |-> 0, app_rx_port |-> 0,
     app_address |-> "NULL", app_inet_addr |-> "0.0.0.0", if_name |-> "",
     nec_mode |-> FALSE, __tx_test |-> FALSE, __verbose |-> FALSE]

----------------------------------------------------------------------------
(* read_configuration: one action per kind of option *)

Option == Head(rest)
Reading == pc = "read" /\ rest # << >>

ReadPort ==
    /\ Reading /\ Option.opt \in DOMAIN PortField
    /\ cfg' = [cfg EXCEPT ![PortField[Option.opt]] = Option.val]
    /\ rest' = Tail(rest)
    /\ UNCHANGED <<argv, pc, __verbose>>

\* Mutant: a flag given twice is off again.
ReadFlag_toggles ==
    /\ Reading /\ Option.opt \in DOMAIN FlagField
    /\ cfg' = [cfg EXCEPT ![FlagField[Option.opt]] = ~@]
    /\ __verbose' = (IF Option.opt = "e" THEN ~__verbose ELSE __verbose)
    /\ rest' = Tail(rest)
    /\ UNCHANGED <<argv, pc>>

ReadFlag ==
    /\ Reading /\ Option.opt \in DOMAIN FlagField
    /\ cfg' = [cfg EXCEPT ![FlagField[Option.opt]] = TRUE]
    /\ __verbose' = (__verbose \/ Option.opt = "e")
    /\ rest' = Tail(rest)
    /\ UNCHANGED <<argv, pc>>

\* A name that is too long is cut, with a warning.
ReadIfName ==
    /\ Reading /\ Option.opt = "i"
    /\ cfg' = [cfg EXCEPT !.if_name = Truncated(Option.val)]
    /\ rest' = Tail(rest)
    /\ UNCHANGED <<argv, pc, __verbose>>

\* An empty text leaves before it is stored, any other before it is used.
ReadAppAddress ==
    /\ Reading /\ Option.opt = "d"
    /\ cfg' = IF Option.val = "" THEN cfg
              ELSE [cfg EXCEPT !.app_address = Option.val, !.app_inet_addr = inet_addr(Option.val)]
    /\ pc' = IF Option.val = "" \/ inet_addr(Option.val) = INADDR_NONE
             THEN "EXIT_FAILURE" ELSE "read"
    /\ rest' = Tail(rest)
    /\ UNCHANGED <<argv, __verbose>>

\* The version, the help, and the help again for whatever is no option.
ReadInformation ==
    /\ Reading /\ Option.opt \in {"v", "h", "?"}
    /\ pc' = "EXIT_SUCCESS"
    /\ rest' = Tail(rest)
    /\ UNCHANGED <<argv, cfg, __verbose>>

ReadEnd ==
    /\ pc = "read" /\ rest = << >>
    /\ pc' = "check"
    /\ UNCHANGED <<argv, rest, cfg, __verbose>>

----------------------------------------------------------------------------
(* check_configuration *)

PositivePorts(c) == c.tx_port > 0 /\ c.rx_port > 0 /\ c.app_tx_port > 0 /\ c.app_rx_port > 0

\* Mutant: a negative port passes.
check_configuration_nonzero ==
    /\ pc = "check"
    /\ pc' = IF (\A f \in DOMAIN PortField : cfg[PortField[f]] # 0) /\ cfg.if_name # ""
             THEN "accepted" ELSE "EXIT_FAILURE"
    /\ UNCHANGED <<argv, rest, cfg, __verbose>>

check_configuration ==
    /\ pc = "check"
    /\ pc' = IF /\ PositivePorts(cfg)
                /\ cfg.if_name # ""
                /\ cfg.app_address # ""
             THEN "accepted" ELSE "EXIT_FAILURE"
    /\ UNCHANGED <<argv, rest, cfg, __verbose>>

Init ==
    /\ argv \in Argvs
    /\ rest = argv
    /\ cfg = new_configuration
    /\ pc = "read"
    /\ __verbose = FALSE

Next ==
    \/ ReadPort \/ ReadFlag \/ ReadIfName \/ ReadAppAddress \/ ReadInformation \/ ReadEnd
    \/ check_configuration

Spec == Init /\ [][Next]_vars

----------------------------------------------------------------------------
(* What the command line means, as a whole *)

\* The options before the first that ends the reading, that one included.
Ends(o) ==
    \/ o.opt \in {"v", "h", "?"}
    \/ o.opt = "d" /\ (o.val = "" \/ inet_addr(o.val) = INADDR_NONE)

Ending(a) == SelectInSeq(a, Ends)

\* The value of the last occurrence of an option, or a default.
LastOf(a, opt, default) ==
    LET i == SelectLastInSeq(a, LAMBDA o : o.opt = opt)
    IN  IF i = 0 THEN default ELSE a[i].val

Given(a, opt) == \E i \in 1 .. Len(a) : a[i].opt = opt

\* "An accepted command line" by its options alone: no option that ends the
\* reading, four positive ports and the name of an interface.
Acceptable(a) ==
    /\ Ending(a) = 0
    /\ \A opt \in DOMAIN PortField : LastOf(a, opt, 0) > 0
    /\ LastOf(a, "i", "") # ""

\* A configuration that reaches main says what the command line says: the last
\* occurrence of each option counts and a flag counts once it is given, and the
\* global __verbose that the callbacks consult is the one of the configuration.
ConfigurationIsCommandLine ==
    pc = "accepted" =>
        /\ \A opt \in DOMAIN PortField : cfg[PortField[opt]] = LastOf(argv, opt, 0)
        /\ \A opt \in DOMAIN FlagField : cfg[FlagField[opt]] = Given(argv, opt)
        /\ cfg.if_name = Truncated(LastOf(argv, "i", ""))
        /\ cfg.app_address = LastOf(argv, "d", "NULL")
        /\ __verbose = cfg.__verbose

\* The process goes on exactly with an acceptable command line, and reports
\* success without starting exactly if help or version came first.
OutcomeIsDecided ==
    /\ pc = "accepted" => Acceptable(argv)
    /\ pc = "EXIT_SUCCESS" => Ending(argv) > 0 /\ argv[Ending(argv)].opt # "d"
    /\ pc = "EXIT_FAILURE" =>
          /\ ~Acceptable(argv)
          /\ Ending(argv) > 0 => argv[Ending(argv)].opt = "d"
============================================================================

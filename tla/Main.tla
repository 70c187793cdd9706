-------------------------------- MODULE Main --------------------------------
(***************************************************************************)
(* The whole of main: the command line (Configuration), then the sockets   *)
(* and watchers that it asks for (Startup), then the event loop.  The one  *)
(* thing that the two share is the configuration_t, which the first writes *)
(* and the second reads; the world around the process changes during both. *)
(***************************************************************************)
EXTENDS UdpSocket, Sequences

CONSTANTS
    Argvs, Truncated(_), inet_addr(_),  \* see Configuration
    Ephemeral, OtherPorts, Interfaces   \* see Startup

VARIABLES
    argv, rest, configuration, __verbose,  \* of Configuration
    read_pc,                               \* its pc
    calls, port, opts, watchers, fwd_addr, in_use, if_state,  \* of Startup
    pc                                     \* its pc, and "create_configuration" before

commandVars == <<argv, rest, configuration, __verbose, read_pc>>
processVars == <<calls, pc, port, opts, watchers, fwd_addr>>
worldVars   == <<in_use, if_state>>
vars        == <<commandVars, processVars, worldVars>>

Command == INSTANCE Configuration WITH cfg <- configuration, pc <- read_pc

\* What main takes out of the configuration_t, and Startup assumes of it.
Handed(c) ==
    [tx_port |-> c.tx_port, rx_port |-> c.rx_port,
     app_tx_port |-> c.app_tx_port, app_rx_port |-> c.app_rx_port,
     app_address |-> c.app_address, if_name |-> c.if_name, __tx_test |-> c.__tx_test]

\* A type for what Startup is given: the configurations that check_configuration
\* lets pass, with the texts that some command line gives for an option.
Texts(opt) ==
    UNION {{a[i].val : i \in {j \in 1 .. Len(a) : a[j].opt = opt}} : a \in Argvs}

Acceptables ==
    [tx_port : Nat \ {0}, rx_port : Nat \ {0}, app_tx_port : Nat \ {0}, app_rx_port : Nat \ {0},
     app_address : {"NULL"} \union Texts("d"), if_name : {Truncated(name) : name \in Texts("i")},
     __tx_test : BOOLEAN]

Managers == INSTANCE Startup WITH cfg <- Handed(configuration), Configs <- Acceptables

ASSUME PartsAssumption ==
    Command!ArgvsAssumption /\ Command!TruncatedAssumption /\ Managers!PortsAssumption

----------------------------------------------------------------------------
create_configuration ==
    /\ pc = "create_configuration"
    /\ Command!Next
    /\ UNCHANGED <<processVars, worldVars>>

\* Mutant: main does not mind what check_configuration says.
main_unchecked ==
    /\ pc = "create_configuration" /\ read_pc \in {"accepted", "EXIT_FAILURE"}
    /\ pc' = "init" /\ calls' = Managers!main(Handed(configuration))
    /\ UNCHANGED <<commandVars, port, opts, watchers, fwd_addr, worldVars>>

\* read_configuration and check_configuration only return if all is well.
main ==
    /\ pc = "create_configuration" /\ read_pc = "accepted"
    /\ pc' = "init" /\ calls' = Managers!main(Handed(configuration))
    /\ UNCHANGED <<commandVars, port, opts, watchers, fwd_addr, worldVars>>

exit ==
    /\ pc = "create_configuration" /\ read_pc \in {"EXIT_SUCCESS", "EXIT_FAILURE"}
    /\ pc' = read_pc
    /\ UNCHANGED <<commandVars, calls, port, opts, watchers, fwd_addr, worldVars>>

init_udp_events == UNCHANGED commandVars /\ Managers!Daemon

World == UNCHANGED commandVars /\ Managers!Environment

Init ==
    /\ Command!Init
    /\ pc = "create_configuration" /\ calls = << >>
    /\ port = [s \in Managers!SocketNames |-> 0]
    /\ opts = [s \in Managers!SocketNames |-> {}]
    /\ watchers = {}
    /\ fwd_addr = [s \in Managers!SocketNames |-> sockaddr_in(INADDR_ANY, 0)]
    /\ in_use = {}
    /\ if_state \in [Interfaces -> {"absent", "down", "inet"}]

Process == create_configuration \/ main \/ exit \/ init_udp_events

Next == Process \/ World

Spec == Init /\ [][Next]_vars

----------------------------------------------------------------------------
(* Properties *)

\* A process has only sockets that its command line accounts for: none unless no
\* option ends the reading and the whole is acceptable, and none that is bound,
\* and so takes a port from others, in a transmission test.
OpensWhatIsAsked ==
    \A s \in Managers!SocketNames :
        /\ opts[s] # {} => Command!Acceptable(argv) /\ pc # "EXIT_SUCCESS"
        /\ port[s] # 0 => ~Command!Given(argv, "s")

\* The port that a socket gets for an option: the last one given, as htons has it,
\* or one that the kernel picks.
Granted(s, opt) ==
    LET asked == htons(Command!LastOf(argv, opt, 0))
    IN  IF asked = 0 THEN port[s] \in Ephemeral ELSE port[s] = asked

\* The loop runs with the ports of the command line, whatever the order of the
\* options and however often they are repeated: network and application are not
\* confused, neither are reception and transmission, and the host had an interface
\* of the name given.  The addresses are not the command line's: with any option
\* "d", or none, it forwards to 0.0.0.0 and to the broadcast address.
PortsAreCommandLine ==
    pc = "ev_loop" =>
        /\ Granted("net", "r") /\ Granted("app", "w")
        /\ fwd_addr["net"] = sockaddr_in(INADDR_ANY, Command!LastOf(argv, "u", 0))
        /\ fwd_addr["app"] = sockaddr_in(INADDR_BROADCAST, Command!LastOf(argv, "t", 0))
        /\ Truncated(Command!LastOf(argv, "i", "")) \in Interfaces
=============================================================================

---------------------------- MODULE Main_proofs ----------------------------
(***************************************************************************)
(* Proofs about Main, from those about its two parts: the command line is  *)
(* read as Configuration_proofs has it and, once it is accepted, the rest  *)
(* runs as Startup_proofs has it for the configuration handed on.          *)
(***************************************************************************)
EXTENDS Main, TLAPS

Read == INSTANCE Configuration_proofs WITH cfg <- configuration, pc <- read_pc
Run  == INSTANCE Startup_proofs WITH cfg <- Handed(configuration), Configs <- Acceptables

----------------------------------------------------------------------------
(* The inductive invariant *)

Unopened ==
    /\ calls = << >>
    /\ port = [s \in Run!SocketNames |-> 0]
    /\ opts = [s \in Run!SocketNames |-> {}]
    /\ watchers = {}
    /\ fwd_addr = [s \in Run!SocketNames |-> sockaddr_in(INADDR_ANY, 0)]

RunInv == Run!Types /\ Run!PortsInv /\ Run!ScriptInv

\* Nothing is opened before the command line is accepted, nor if it never is;
\* after that it is not touched again.
MainInv ==
    /\ Read!CfgInv
    /\ in_use \subseteq OtherPorts
    /\ \/ Unopened /\ pc \in {"create_configuration", "EXIT_SUCCESS", "EXIT_FAILURE"}
       \/ RunInv /\ read_pc = "accepted"

----------------------------------------------------------------------------
(* The parts *)

LEMMA AssumptionsHold ==
    /\ Read!ArgvsAssumption /\ Read!TruncatedAssumption
    /\ Run!ConfigsAssumption /\ Run!PortsAssumption
<1>1. Read!ArgvsAssumption
  BY PartsAssumption
     DEF Read!ArgvsAssumption, Command!ArgvsAssumption, Read!PortField, Command!PortField,
         Read!FlagField, Command!FlagField, Read!Range, Command!Range
<1>2. Read!TruncatedAssumption
  BY PartsAssumption DEF Read!TruncatedAssumption, Command!TruncatedAssumption
<1>3. Run!ConfigsAssumption
  <2> SUFFICES ASSUME NEW c \in Acceptables
               PROVE  /\ DOMAIN c = Run!Fields
                      /\ {c.tx_port, c.rx_port, c.app_tx_port, c.app_rx_port} \subseteq Nat \ {0}
                      /\ c.__tx_test \in BOOLEAN
    BY DEF Run!ConfigsAssumption
  <2> DEFINE A == {"NULL"} \union Texts("d")
             N == {Truncated(name) : name \in Texts("i")}
  <2>1. c \in [tx_port : Nat \ {0}, rx_port : Nat \ {0},
               app_tx_port : Nat \ {0}, app_rx_port : Nat \ {0},
               app_address : A, if_name : N, __tx_test : BOOLEAN]
    BY DEF Acceptables
  <2> HIDE DEF A, N
  <2>2. DOMAIN c = Run!Fields
    BY <2>1 DEF Run!Fields
  <2>3. /\ c.tx_port \in Nat \ {0} /\ c.rx_port \in Nat \ {0}
        /\ c.app_tx_port \in Nat \ {0} /\ c.app_rx_port \in Nat \ {0}
        /\ c.__tx_test \in BOOLEAN
    BY <2>1
  <2> QED
    BY <2>2, <2>3
<1>4. Run!PortsAssumption
  <2>1. Run!in_port_t = Managers!in_port_t
    <3>1. Run!UINT16_MAX = Managers!UINT16_MAX
      BY DEF Run!UINT16_MAX, Managers!UINT16_MAX
    <3> QED
      BY <3>1 DEF Run!in_port_t, Managers!in_port_t
  <2> QED
    BY <2>1, PartsAssumption DEF Run!PortsAssumption, Managers!PortsAssumption
<1> QED
  BY <1>1, <1>2, <1>3, <1>4

LEMMA SameCommand ==
    /\ Command!Init => Read!Init
    /\ Command!Next => Read!Next
<1>1. /\ Command!PortField = Read!PortField /\ Command!FlagField = Read!FlagField
      /\ Command!new_configuration = Read!new_configuration
      /\ Command!INADDR_NONE = Read!INADDR_NONE
  BY DEF Command!PortField, Read!PortField, Command!FlagField, Read!FlagField,
         Command!new_configuration, Read!new_configuration, Command!INADDR_NONE, Read!INADDR_NONE
<1>2. Command!Option = Read!Option /\ (Command!Reading <=> Read!Reading)
  BY DEF Command!Option, Read!Option, Command!Reading, Read!Reading
<1>3. Command!Init => Read!Init
  BY <1>1 DEF Command!Init, Read!Init
<1>4. Command!ReadPort => Read!ReadPort
  BY <1>1, <1>2 DEF Command!ReadPort, Read!ReadPort
<1>5. Command!ReadFlag => Read!ReadFlag
  BY <1>1, <1>2 DEF Command!ReadFlag, Read!ReadFlag
<1>6. Command!ReadIfName => Read!ReadIfName
  BY <1>2 DEF Command!ReadIfName, Read!ReadIfName
<1>7. Command!ReadAppAddress => Read!ReadAppAddress
  BY <1>1, <1>2 DEF Command!ReadAppAddress, Read!ReadAppAddress
<1>8. Command!ReadInformation => Read!ReadInformation
  BY <1>2 DEF Command!ReadInformation, Read!ReadInformation
<1>9. Command!ReadEnd => Read!ReadEnd
  BY DEF Command!ReadEnd, Read!ReadEnd
<1>10. Command!check_configuration => Read!check_configuration
  BY DEF Command!check_configuration, Read!check_configuration,
         Command!PositivePorts, Read!PositivePorts
<1> QED
  BY <1>3, <1>4, <1>5, <1>6, <1>7, <1>8, <1>9, <1>10 DEF Command!Next, Read!Next

LEMMA SameCalls ==
    /\ Managers!SocketNames = Run!SocketNames
    /\ \A c : Managers!main(c) = Run!main(c)
    /\ \A a, p : Run!sockaddr_in(a, p) = sockaddr_in(a, p)
    /\ Run!INADDR_ANY = INADDR_ANY /\ Run!INADDR_BROADCAST = INADDR_BROADCAST
<1>1. Managers!SocketNames = Run!SocketNames
  BY DEF Managers!SocketNames, Run!SocketNames
<1>2. \A s : /\ Managers!open_receiver_udp_socket(s) = Run!open_receiver_udp_socket(s)
             /\ Managers!open_transmitter_udp_socket(s) = Run!open_transmitter_udp_socket(s)
             /\ Managers!open_broadcast_udp_socket(s) = Run!open_broadcast_udp_socket(s)
             /\ Managers!init_watcher(s) = Run!init_watcher(s)
  BY DEF Managers!open_receiver_udp_socket, Run!open_receiver_udp_socket,
         Managers!open_transmitter_udp_socket, Run!open_transmitter_udp_socket,
         Managers!open_broadcast_udp_socket, Run!open_broadcast_udp_socket,
         Managers!init_watcher, Run!init_watcher, Managers!init_ev_io_arg, Run!init_ev_io_arg,
         Managers!Call, Run!Call
<1>3. \A f, s : Managers!Call(f, s) = Run!Call(f, s)
  BY DEF Managers!Call, Run!Call
<1>4. \A s : Managers!init_rx_udp_events(s) = Run!init_rx_udp_events(s)
  BY <1>2 DEF Managers!init_rx_udp_events, Run!init_rx_udp_events
<1>5. /\ Managers!init_net_udp_events = Run!init_net_udp_events
      /\ Managers!init_app_udp_events = Run!init_app_udp_events
      /\ Managers!init_tx_udp_events = Run!init_tx_udp_events
  BY <1>2, <1>3, <1>4
     DEF Managers!init_net_udp_events, Run!init_net_udp_events,
         Managers!init_app_udp_events, Run!init_app_udp_events,
         Managers!init_tx_udp_events, Run!init_tx_udp_events
<1>6. \A c : Managers!main(c) = Run!main(c)
  BY <1>5 DEF Managers!main, Run!main
<1>7. /\ \A a, p : Run!sockaddr_in(a, p) = sockaddr_in(a, p)
      /\ Run!INADDR_ANY = INADDR_ANY /\ Run!INADDR_BROADCAST = INADDR_BROADCAST
  BY DEF Run!sockaddr_in, sockaddr_in, Run!htons, htons,
         Run!UINT16_MAX, UINT16_MAX, Run!INADDR_ANY, INADDR_ANY,
         Run!INADDR_BROADCAST, INADDR_BROADCAST
<1> QED
  BY <1>1, <1>6, <1>7

LEMMA SameManagers ==
    /\ Managers!Daemon => Run!Daemon
    /\ Managers!Environment => Run!Environment
<1>1. Managers!SocketNames = Run!SocketNames
  BY DEF Managers!SocketNames, Run!SocketNames
<1>2. /\ \A f, s : Managers!Making(f, s) <=> Run!Making(f, s)
      /\ Managers!Made <=> Run!Made
      /\ \A i : Managers!StateOf(i) = Run!StateOf(i)
  BY DEF Managers!Making, Run!Making, Managers!Call, Run!Call, Managers!Made, Run!Made,
         Managers!StateOf, Run!StateOf
<1>3. \A p : Managers!Free(p) <=> Run!Free(p)
  BY <1>1 DEF Managers!Free, Run!Free
<1>4. \A a, p : Managers!sockaddr_in(a, p) = Run!sockaddr_in(a, p)
  BY DEF Managers!sockaddr_in, Run!sockaddr_in, Managers!htons, Run!htons,
         Managers!UINT16_MAX, Run!UINT16_MAX
<1>5. \A s : Managers!Asked(s) = Run!Asked(s)
  BY <1>4 DEF Managers!Asked, Run!Asked, Managers!init_any_sockaddr_in, Run!init_any_sockaddr_in,
              Managers!INADDR_ANY, Run!INADDR_ANY
<1>6. \A s : Managers!socket(s) => Run!socket(s)
  BY <1>2 DEF Managers!socket, Run!socket
<1>7. \A s : Managers!bind(s) => Run!bind(s)
  BY <1>2, <1>3, <1>5 DEF Managers!bind, Run!bind
<1>8. \A o, s : Managers!setsockopt(o, s) => Run!setsockopt(o, s)
  BY <1>2 DEF Managers!setsockopt, Run!setsockopt
<1>9. \A s : /\ Managers!set_msghdrs_socket_option(s) => Run!set_msghdrs_socket_option(s)
             /\ Managers!set_broadcast_socket(s) => Run!set_broadcast_socket(s)
             /\ Managers!set_bindtodevice_socket(s) => Run!set_bindtodevice_socket(s)
  BY <1>2, <1>8
     DEF Managers!set_msghdrs_socket_option, Run!set_msghdrs_socket_option,
         Managers!set_broadcast_socket, Run!set_broadcast_socket,
         Managers!set_bindtodevice_socket, Run!set_bindtodevice_socket
<1>10. \A s : Managers!init_if_sockaddr_in(s) => Run!init_if_sockaddr_in(s)
  BY <1>2 DEF Managers!init_if_sockaddr_in, Run!init_if_sockaddr_in
<1>11. \A s : Managers!ev_io_start(s) => Run!ev_io_start(s)
  BY <1>2 DEF Managers!ev_io_start, Run!ev_io_start
<1>12. \A s : Managers!forwarding_addr(s) => Run!forwarding_addr(s)
  BY <1>2, <1>4
     DEF Managers!forwarding_addr, Run!forwarding_addr,
         Managers!init_sockaddr_in, Run!init_sockaddr_in, Managers!INADDR_ANY, Run!INADDR_ANY,
         Managers!init_broadcast_sockaddr_in, Run!init_broadcast_sockaddr_in,
         Managers!INADDR_BROADCAST, Run!INADDR_BROADCAST
<1>13. Managers!handle_sys_error => Run!handle_sys_error
  BY <1>1 DEF Managers!handle_sys_error, Run!handle_sys_error
<1>14. Managers!ev_loop => Run!ev_loop
  BY DEF Managers!ev_loop, Run!ev_loop
<1>15. Managers!Daemon => Run!Daemon
  BY <1>1, <1>6, <1>7, <1>9, <1>10, <1>11, <1>12, <1>13, <1>14 DEF Managers!Daemon, Run!Daemon
<1>16. Managers!Environment => Run!Environment
  BY <1>3 DEF Managers!Environment, Run!Environment, Managers!OtherBinds, Run!OtherBinds,
              Managers!OtherReleases, Run!OtherReleases,
              Managers!InterfaceChanges, Run!InterfaceChanges,
              Managers!daemonVars, Run!daemonVars
<1> QED
  BY <1>15, <1>16

----------------------------------------------------------------------------
(* The command line *)

LEMMA ReadsStep == [Next]_vars => [Read!Next]_(Read!vars)
BY SameCommand
   DEF Next, Process, create_configuration, main, exit, init_udp_events, World, vars,
         commandVars, Read!vars

LEMMA ReadsCommandLine == Spec => Read!Spec
<1>1. Init => Read!Init
  BY SameCommand DEF Init
<1> QED
  BY <1>1, ReadsStep, PTL DEF Spec, Read!Spec

----------------------------------------------------------------------------
(* Each step *)

LEMMA HandedOn ==
    ASSUME Read!CfgInv, read_pc = "accepted"
    PROVE  Handed(configuration) \in Acceptables
<1> DEFINE c == Handed(configuration)
<1>1. /\ argv \in Argvs
      /\ configuration.tx_port \in Nat \ {0} /\ configuration.rx_port \in Nat \ {0}
      /\ configuration.app_tx_port \in Nat \ {0} /\ configuration.app_rx_port \in Nat \ {0}
      /\ \E i \in 1 .. Len(argv) :
            argv[i].opt = "i" /\ configuration.if_name = Truncated(argv[i].val)
      /\ configuration.app_address # "NULL" => \E i \in 1 .. Len(argv) :
            argv[i].opt = "d" /\ configuration.app_address = argv[i].val
      /\ configuration.__tx_test \in BOOLEAN
  BY AssumptionsHold, Read!AcceptedTypes DEF Read!CfgInv, Read!RestInv
<1>2. configuration.if_name \in {Truncated(name) : name \in Texts("i")}
  BY <1>1 DEF Texts
<1>3. configuration.app_address \in {"NULL"} \union Texts("d")
  BY <1>1 DEF Texts
<1> QED
  BY <1>1, <1>2, <1>3 DEF Handed, Acceptables

LEMMA RunStep ==
    ASSUME RunInv, Managers!Daemon \/ Managers!Environment
    PROVE  RunInv'
<1>1. Run!Next
  BY SameManagers DEF Run!Next
<1> QED
  BY <1>1, AssumptionsHold, Run!TypesStep, Run!ScriptStep DEF RunInv

LEMMA FreshRun == Run!Fresh /\ in_use \subseteq OtherPorts => RunInv
BY AssumptionsHold, Run!FreshHolds DEF RunInv

LEMMA MainInit == Init => MainInv
<1> SUFFICES ASSUME Init PROVE MainInv
  OBVIOUS
<1>1. Read!CfgInv
  BY AssumptionsHold, SameCommand, Read!CfgInit DEF Init
<1>2. Unopened
  BY SameCalls DEF Init, Unopened
<1> QED
  BY <1>1, <1>2 DEF Init, MainInv

LEMMA MainStep == MainInv /\ [Next]_vars => MainInv'
<1> SUFFICES ASSUME MainInv, [Next]_vars PROVE MainInv'
  OBVIOUS
<1>1. Read!CfgInv /\ Read!CfgInv'
  BY AssumptionsHold, ReadsStep, Read!CfgStep DEF MainInv
<1>2. RunInv => /\ pc \in {"init", "ev_loop", "EXIT_FAILURE", "segv"}
                /\ in_use \subseteq OtherPorts
  BY DEF RunInv, Run!Types, Run!TypeOK
<1>3. RunInv' => in_use' \subseteq OtherPorts
  BY DEF RunInv, Run!Types, Run!TypeOK
<1>4. CASE create_configuration
  <2>1. Unopened /\ pc = "create_configuration"
    BY <1>2, <1>4 DEF MainInv, create_configuration
  <2>2. UNCHANGED <<calls, pc, port, opts, watchers, fwd_addr, in_use, if_state>>
    BY <1>4 DEF create_configuration, processVars, worldVars
  <2>3. Unopened'
    BY <2>1, <2>2 DEF Unopened
  <2> QED
    BY <1>1, <2>1, <2>2, <2>3 DEF MainInv
<1>5. CASE main
  <2>1. /\ Unopened /\ read_pc = "accepted" /\ pc' = "init" /\ in_use' \subseteq OtherPorts
        /\ calls' = Run!main(Handed(configuration))
        /\ configuration' = configuration /\ read_pc' = read_pc
        /\ UNCHANGED <<port, opts, watchers, fwd_addr>>
    BY <1>2, <1>5, SameCalls DEF MainInv, main, commandVars, worldVars
  <2>2. Handed(configuration)' = Handed(configuration)
    BY <2>1 DEF Handed
  <2>3. Handed(configuration)' \in Acceptables
    BY <1>1, <2>1, <2>2, HandedOn
  <2>4. calls' = Run!main(Handed(configuration)')
    BY <2>1, <2>2
  <2>5. Run!Fresh'
    BY <2>1, <2>3, <2>4, SameCalls DEF Run!Fresh, Unopened
  <2>6. (Run!Fresh /\ in_use \subseteq OtherPorts => RunInv)'
    BY FreshRun, PTL
  <2>7. RunInv'
    BY <2>1, <2>5, <2>6
  <2> QED
    BY <1>1, <2>1, <2>7 DEF MainInv
<1>6. CASE exit
  <2>1. /\ Unopened /\ pc' \in {"EXIT_SUCCESS", "EXIT_FAILURE"}
        /\ UNCHANGED <<calls, port, opts, watchers, fwd_addr, in_use>>
    BY <1>2, <1>6 DEF MainInv, exit, worldVars
  <2>2. Unopened'
    BY <2>1 DEF Unopened
  <2> QED
    BY <1>1, <2>1, <2>2 DEF MainInv
<1>7. CASE init_udp_events
  <2>1. Managers!Daemon /\ read_pc' = read_pc
    BY <1>7 DEF init_udp_events, commandVars
  <2>2. pc = "init"
    BY <2>1, SameManagers
       DEF Run!Daemon, Run!socket, Run!bind, Run!setsockopt, Run!set_msghdrs_socket_option,
           Run!set_broadcast_socket, Run!set_bindtodevice_socket, Run!init_if_sockaddr_in,
           Run!ev_io_start, Run!forwarding_addr, Run!handle_sys_error, Run!ev_loop, Run!Making
  <2>3. RunInv /\ read_pc = "accepted"
    BY <2>2 DEF MainInv
  <2>4. RunInv'
    BY <2>1, <2>3, RunStep
  <2> QED
    BY <1>1, <1>3, <2>1, <2>3, <2>4 DEF MainInv
<1>8. CASE World
  <2>1. Managers!Environment /\ read_pc' = read_pc
    BY <1>8 DEF World, commandVars
  <2>2. CASE RunInv /\ read_pc = "accepted"
    <3>1. RunInv'
      BY <2>1, <2>2, RunStep
    <3> QED
      BY <1>1, <1>3, <2>1, <2>2, <3>1 DEF MainInv
  <2>3. CASE Unopened /\ pc \in {"create_configuration", "EXIT_SUCCESS", "EXIT_FAILURE"}
    <3>1. /\ UNCHANGED <<calls, pc, port, opts, watchers, fwd_addr>>
          /\ in_use' \subseteq OtherPorts
      BY <2>1, SameManagers
         DEF MainInv, Run!Environment, Run!OtherBinds, Run!OtherReleases, Run!InterfaceChanges,
             Run!daemonVars
    <3>2. Unopened'
      BY <2>3, <3>1 DEF Unopened
    <3> QED
      BY <1>1, <2>3, <3>1, <3>2 DEF MainInv
  <2> QED
    BY <2>2, <2>3 DEF MainInv
<1>9. CASE UNCHANGED vars
  <2>1. UNCHANGED <<calls, pc, port, opts, watchers, fwd_addr, in_use, configuration, read_pc>>
    BY <1>9 DEF vars, commandVars, processVars, worldVars
  <2>2. Unopened => Unopened'
    BY <2>1 DEF Unopened
  <2>3. UNCHANGED Run!vars
    BY <1>9 DEF vars, commandVars, processVars, worldVars, Run!vars, Run!daemonVars, Handed
  <2>4. RunInv => RunInv'
    BY <2>3, AssumptionsHold, Run!TypesStep, Run!ScriptStep DEF RunInv
  <2> QED
    BY <1>1, <2>1, <2>2, <2>4 DEF MainInv
<1> QED
  BY <1>4, <1>5, <1>6, <1>7, <1>8, <1>9 DEF Next, Process

----------------------------------------------------------------------------
(* The whole *)

LEMMA SameWords ==
    /\ \A a, opt, default : Command!LastOf(a, opt, default) = Read!LastOf(a, opt, default)
    /\ \A a, opt : Command!Given(a, opt) = Read!Given(a, opt)
    /\ \A a : Command!Acceptable(a) <=> Read!Acceptable(a)
<1>1. \A S : Command!Max(S) = Read!Max(S) /\ Command!Min(S) = Read!Min(S)
  BY DEF Command!Max, Read!Max, Command!Min, Read!Min
<1>2. \A a, opt, default : Command!LastOf(a, opt, default) = Read!LastOf(a, opt, default)
  BY <1>1 DEF Command!LastOf, Read!LastOf, Command!SelectLastInSeq, Read!SelectLastInSeq
<1>3. \A a, opt : Command!Given(a, opt) = Read!Given(a, opt)
  BY DEF Command!Given, Read!Given
<1>4. \A o : Command!Ends(o) = Read!Ends(o)
  BY DEF Command!Ends, Read!Ends, Command!INADDR_NONE, Read!INADDR_NONE
<1>5. \A a : Command!Ending(a) = Read!Ending(a)
  <2> SUFFICES ASSUME NEW a PROVE Command!Ending(a) = Read!Ending(a)
    OBVIOUS
  <2> DEFINE I == {i \in 1 .. Len(a) : Command!Ends(a[i])}
             J == {i \in 1 .. Len(a) : Read!Ends(a[i])}
  <2>1. Command!Ending(a) = IF I # {} THEN Command!Min(I) ELSE 0
    BY DEF Command!Ending, Command!SelectInSeq
  <2>2. Read!Ending(a) = IF J # {} THEN Read!Min(J) ELSE 0
    BY DEF Read!Ending, Read!SelectInSeq
  <2>3. I = J
    BY <1>4
  <2> HIDE DEF I, J
  <2> QED
    BY <1>1, <2>1, <2>2, <2>3
<1>6. Command!PortField = Read!PortField
  BY DEF Command!PortField, Read!PortField
<1>7. \A a : Command!Acceptable(a) <=> Read!Acceptable(a)
  BY <1>2, <1>5, <1>6 DEF Command!Acceptable, Read!Acceptable
<1> QED
  BY <1>2, <1>3, <1>7

LEMMA CommandLineIsRead ==
    Spec => [](MainInv /\ Read!ConfigurationIsCommandLine /\ Read!OutcomeIsDecided)
<1>1. Read!Spec => []Read!ConfigurationIsCommandLine
  BY AssumptionsHold, Read!AcceptedIsAsked
<1>2. Read!Spec => []Read!OutcomeIsDecided
  BY AssumptionsHold, Read!OutcomeIsRight
<1>3. Spec => []MainInv
  BY MainInit, MainStep, PTL DEF Spec
<1> QED
  BY <1>1, <1>2, <1>3, ReadsCommandLine, PTL

\* A flag of an accepted configuration, and its ports.
LEMMA ReadFields ==
    ASSUME Read!ConfigurationIsCommandLine, read_pc = "accepted"
    PROVE  /\ configuration.tx_port = Command!LastOf(argv, "t", 0)
           /\ configuration.rx_port = Command!LastOf(argv, "r", 0)
           /\ configuration.app_tx_port = Command!LastOf(argv, "u", 0)
           /\ configuration.app_rx_port = Command!LastOf(argv, "w", 0)
           /\ configuration.__tx_test = Command!Given(argv, "s")
           /\ configuration.if_name = Truncated(Command!LastOf(argv, "i", ""))
<1>1. /\ \A opt \in DOMAIN Read!PortField :
            configuration[Read!PortField[opt]] = Command!LastOf(argv, opt, 0)
      /\ \A opt \in DOMAIN Read!FlagField :
            configuration[Read!FlagField[opt]] = Command!Given(argv, opt)
      /\ configuration.if_name = Truncated(Command!LastOf(argv, "i", ""))
  BY SameWords DEF Read!ConfigurationIsCommandLine
<1>2. /\ DOMAIN Read!PortField = {"t", "r", "u", "w"}
      /\ Read!PortField["t"] = "tx_port" /\ Read!PortField["r"] = "rx_port"
      /\ Read!PortField["u"] = "app_tx_port" /\ Read!PortField["w"] = "app_rx_port"
      /\ "s" \in DOMAIN Read!FlagField /\ Read!FlagField["s"] = "__tx_test"
  BY AssumptionsHold, Read!FieldNames
<1> QED
  BY <1>1, <1>2

\* Whatever the command line, the ports of others and the interface, a socket is
\* open only if the command line asks for it, and bound only in normal mode.
THEOREM SocketsAreAskedFor == Spec => []OpensWhatIsAsked
<1>1. ASSUME MainInv, Read!ConfigurationIsCommandLine, Read!OutcomeIsDecided
      PROVE  OpensWhatIsAsked
  <2>1. CASE Unopened
    <3>1. \A s \in Managers!SocketNames : opts[s] = {} /\ port[s] = 0
      BY <2>1, SameCalls DEF Unopened
    <3> QED
      BY <3>1 DEF OpensWhatIsAsked
  <2>2. CASE RunInv /\ read_pc = "accepted"
    <3>1. Command!Acceptable(argv)
      BY <1>1, <2>2, SameWords DEF Read!OutcomeIsDecided
    <3>2. pc # "EXIT_SUCCESS"
      BY <2>2 DEF RunInv, Run!Types, Run!TypeOK
    <3>3. ASSUME NEW s \in Managers!SocketNames, port[s] # 0 PROVE ~Command!Given(argv, "s")
      <4>1. ~Handed(configuration).__tx_test
        BY <2>2, <3>3, SameCalls, AssumptionsHold, Run!TestBindsNothing DEF RunInv
      <4> QED
        BY <1>1, <2>2, <4>1, ReadFields DEF Handed
    <3> QED
      BY <3>1, <3>2, <3>3 DEF OpensWhatIsAsked
  <2> QED
    BY <1>1, <2>1, <2>2 DEF MainInv
<1> QED
  BY <1>1, CommandLineIsRead, PTL

\* The loop runs with the four ports of the command line, each where it belongs, and
\* the host had an interface of the name it gives; it forwards to 0.0.0.0 and to the
\* broadcast address, whatever address the command line gives.
THEOREM PortsFollowCommandLine == Spec => []PortsAreCommandLine
<1>1. ASSUME MainInv, Read!ConfigurationIsCommandLine, pc = "ev_loop"
      PROVE  /\ Granted("net", "r") /\ Granted("app", "w")
             /\ fwd_addr["net"] = sockaddr_in(INADDR_ANY, Command!LastOf(argv, "u", 0))
             /\ fwd_addr["app"] = sockaddr_in(INADDR_BROADCAST, Command!LastOf(argv, "t", 0))
             /\ Truncated(Command!LastOf(argv, "i", "")) \in Interfaces
  <2> DEFINE c == Handed(configuration)
  <2>1. RunInv /\ read_pc = "accepted"
    BY <1>1 DEF MainInv
  <2>2. /\ c.tx_port = Command!LastOf(argv, "t", 0) /\ c.rx_port = Command!LastOf(argv, "r", 0)
        /\ c.app_tx_port = Command!LastOf(argv, "u", 0)
        /\ c.app_rx_port = Command!LastOf(argv, "w", 0)
        /\ c.if_name = Truncated(Command!LastOf(argv, "i", ""))
    BY <1>1, <2>1, ReadFields DEF Handed
  <2> HIDE DEF c
  <2>3. Run!ReadyForLoop
    BY <2>1, AssumptionsHold, Run!PreparedLoop DEF RunInv
  <2>4. /\ port["net"] # 0 /\ port["app"] # 0
        /\ fwd_addr["net"] = sockaddr_in(INADDR_ANY, c.app_tx_port)
        /\ fwd_addr["app"] = sockaddr_in(INADDR_BROADCAST, c.tx_port)
    BY <1>1, <2>3, SameCalls DEF Run!ReadyForLoop, c
  <2>5. port["net"] \in Run!Asked("net") /\ port["app"] \in Run!Asked("app")
    BY <2>1, <2>4 DEF RunInv, Run!PortsInv, Run!SocketNames
  <2>6. /\ Run!Asked("net") = IF htons(c.rx_port) = 0 THEN Ephemeral ELSE {htons(c.rx_port)}
        /\ Run!Asked("app") = IF htons(c.app_rx_port) = 0 THEN Ephemeral
                                                         ELSE {htons(c.app_rx_port)}
    BY DEF Run!Asked, Run!init_any_sockaddr_in, Run!sockaddr_in, Run!htons, htons,
         Run!UINT16_MAX, UINT16_MAX, c
  <2>7. Granted("net", "r") /\ Granted("app", "w")
    BY <2>2, <2>5, <2>6 DEF Granted
  <2>8. c.if_name \in Interfaces
    BY <1>1, <2>1, AssumptionsHold, Run!LoopHasInterface DEF RunInv, c
  <2> QED
    BY <2>2, <2>4, <2>7, <2>8
<1>2. MainInv /\ Read!ConfigurationIsCommandLine => PortsAreCommandLine
  BY <1>1 DEF PortsAreCommandLine
<1> QED
  BY <1>2, CommandLineIsRead, PTL
=============================================================================

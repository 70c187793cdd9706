------------------------ MODULE Configuration_proofs ------------------------
(***************************************************************************)
(* Proofs about Configuration, for command lines of any length: what the   *)
(* loop over getopt_long has made of the options it has read so far.       *)
(***************************************************************************)
EXTENDS Configuration, TLAPS

----------------------------------------------------------------------------
(* The inductive invariant *)

\* The number of options read.
Pos == Len(argv) - Len(rest)

NoneEnds(a, n) == \A i \in 1 .. n : ~Ends(a[i])

\* Option n is the first that ends the reading.
FirstEnd(a, n) == n \in 1 .. Len(a) /\ Ends(a[n]) /\ NoneEnds(a, n - 1)

\* v is what the last of the first n options that is "opt" says.
IsLast(v, a, n, opt, default) ==
    \/ v = default /\ \A i \in 1 .. n : a[i].opt # opt
    \/ \E i \in 1 .. n :
          a[i].opt = opt /\ v = a[i].val /\ \A j \in 1 .. n : a[j].opt = opt => j <= i

GivenBefore(a, n, opt) == \E i \in 1 .. n : a[i].opt = opt

\* Configuration c says what the first n options of command line a say.
PortsSay(c, a, n) ==
    \A opt \in DOMAIN PortField :
        c[PortField[opt]] \in Int /\ IsLast(c[PortField[opt]], a, n, opt, 0)

FlagsSay(c, a, n) ==
    \A opt \in DOMAIN FlagField :
        /\ c[FlagField[opt]] \in BOOLEAN
        /\ c[FlagField[opt]] = TRUE <=> GivenBefore(a, n, opt)

IfNames(a, n) == {""} \union {a[i].val : i \in {j \in 1 .. n : a[j].opt = "i"}}

NamesSay(c, a, n) ==
    /\ \E v \in IfNames(a, n) :
          IsLast(v, a, n, "i", "") /\ c.if_name = Truncated(v)
    /\ IsLast(c.app_address, a, n, "d", "NULL") /\ c.app_address # ""

Passes(c) == PositivePorts(c) /\ c.if_name # "" /\ c.app_address # ""

RestInv ==
    /\ argv \in Argvs
    /\ rest \in Seq(Range(argv)) /\ Len(rest) <= Len(argv)
    /\ \A i \in 1 .. Len(rest) : rest[i] = argv[Pos + i]
    /\ DOMAIN cfg = DOMAIN new_configuration

\* As long as no option has ended the reading, the configuration says what the
\* options read so far say.
ReadInv ==
    NoneEnds(argv, Pos) =>
        /\ PortsSay(cfg, argv, Pos) /\ FlagsSay(cfg, argv, Pos) /\ NamesSay(cfg, argv, Pos)
        /\ __verbose \in BOOLEAN /\ __verbose = cfg.__verbose

\* Where the reading is, and what ended it.
PcInv ==
    /\ pc \in {"read", "check", "accepted", "EXIT_SUCCESS", "EXIT_FAILURE"}
    /\ pc \in {"read", "check", "accepted"} => NoneEnds(argv, Pos)
    /\ pc \in {"check", "accepted"} => rest = << >>
    /\ pc = "accepted" => Passes(cfg)
    /\ pc = "EXIT_SUCCESS" => FirstEnd(argv, Pos) /\ argv[Pos].opt # "d"
    /\ pc = "EXIT_FAILURE" =>
          \/ FirstEnd(argv, Pos) /\ argv[Pos].opt = "d"
          \/ rest = << >> /\ NoneEnds(argv, Pos) /\ ~Passes(cfg)

CfgInv == RestInv /\ ReadInv /\ PcInv

----------------------------------------------------------------------------
(* The operators on command lines *)

LEMMA MaxIs ==
    ASSUME NEW S \in SUBSET Int, NEW x \in S, \A y \in S : y <= x
    PROVE  Max(S) = x
<1>1. \A z \in S : (\A y \in S : z >= y) => z = x
  OBVIOUS
<1>2. \A y \in S : x >= y
  OBVIOUS
<1> QED
  BY <1>1, <1>2 DEF Max

LEMMA MinIs ==
    ASSUME NEW S \in SUBSET Int, NEW x \in S, \A y \in S : x <= y
    PROVE  Min(S) = x
<1>1. \A z \in S : (\A y \in S : z =< y) => z = x
  OBVIOUS
<1>2. \A y \in S : x =< y
  OBVIOUS
<1> QED
  BY <1>1, <1>2 DEF Min

\* IsLast over a whole command line is LastOf.
LEMMA LastIsLastOf ==
    ASSUME NEW a, Len(a) \in Nat, NEW v, NEW opt, NEW default,
           IsLast(v, a, Len(a), opt, default)
    PROVE  v = LastOf(a, opt, default)
<1> DEFINE I == {i \in 1 .. Len(a) : a[i].opt = opt}
           last == IF I # {} THEN Max(I) ELSE 0
<1>1. LastOf(a, opt, default) = IF last = 0 THEN default ELSE a[last].val
  BY DEF LastOf, SelectLastInSeq
<1>2. CASE v = default /\ \A i \in 1 .. Len(a) : a[i].opt # opt
  <2>1. I = {}
    BY <1>2
  <2> QED
    BY <1>1, <1>2, <2>1
<1>3. ASSUME NEW i \in 1 .. Len(a), a[i].opt = opt, v = a[i].val,
             \A j \in 1 .. Len(a) : a[j].opt = opt => j <= i
      PROVE  v = LastOf(a, opt, default)
  <2>1. I \in SUBSET Int /\ i \in I /\ \A j \in I : j <= i
    BY <1>3
  <2> HIDE DEF I
  <2>2. Max(I) = i
    BY <2>1, MaxIs
  <2>3. last = i /\ i # 0
    BY <2>1, <2>2
  <2> QED
    BY <1>1, <1>3, <2>3
<1> QED
  BY <1>2, <1>3 DEF IsLast

LEMMA FirstEndIsEnding ==
    ASSUME NEW a, Len(a) \in Nat, NEW n, FirstEnd(a, n)
    PROVE  Ending(a) = n /\ n > 0
<1> DEFINE I == {i \in 1 .. Len(a) : Ends(a[i])}
<1>1. Ending(a) = IF I # {} THEN Min(I) ELSE 0
  BY DEF Ending, SelectInSeq
<1>2. I \in SUBSET Int /\ n \in I /\ \A i \in I : n <= i
  BY DEF FirstEnd, NoneEnds
<1> HIDE DEF I
<1>3. Min(I) = n
  BY <1>2, MinIs
<1> QED
  BY <1>1, <1>2, <1>3 DEF FirstEnd

LEMMA NoneEndsIsEnding ==
    ASSUME NEW a, NoneEnds(a, Len(a))
    PROVE  Ending(a) = 0
<1> DEFINE I == {i \in 1 .. Len(a) : Ends(a[i])}
<1>1. Ending(a) = IF I # {} THEN Min(I) ELSE 0
  BY DEF Ending, SelectInSeq
<1>2. I = {}
  BY DEF NoneEnds
<1> QED
  BY <1>1, <1>2

LEMMA LastAgain ==
    ASSUME NEW a, NEW n \in Nat, NEW v, NEW opt, NEW default,
           IsLast(v, a, n, opt, default), a[n + 1].opt # opt
    PROVE  IsLast(v, a, n + 1, opt, default)
<1>1. \A i \in 1 .. n + 1 : i \in 1 .. n \/ i = n + 1
  OBVIOUS
<1>2. \A i \in 1 .. n : i \in 1 .. n + 1
  OBVIOUS
<1> QED
  BY <1>1, <1>2 DEF IsLast

LEMMA LastNow ==
    ASSUME NEW a, NEW n \in Nat, NEW default
    PROVE  IsLast(a[n + 1].val, a, n + 1, a[n + 1].opt, default)
<1>1. n + 1 \in 1 .. n + 1 /\ \A j \in 1 .. n + 1 : j <= n + 1
  OBVIOUS
<1> QED
  BY <1>1 DEF IsLast

LEMMA GivenAgain ==
    ASSUME NEW a, NEW n \in Nat, NEW opt
    PROVE  GivenBefore(a, n + 1, opt) <=> GivenBefore(a, n, opt) \/ a[n + 1].opt = opt
<1>1. \A i \in 1 .. n + 1 : i \in 1 .. n \/ i = n + 1
  OBVIOUS
<1>2. n + 1 \in 1 .. n + 1 /\ \A i \in 1 .. n : i \in 1 .. n + 1
  OBVIOUS
<1> QED
  BY <1>1, <1>2 DEF GivenBefore

LEMMA MoreIfNames ==
    ASSUME NEW a, NEW n \in Nat
    PROVE  /\ IfNames(a, n) \subseteq IfNames(a, n + 1)
           /\ a[n + 1].opt = "i" => a[n + 1].val \in IfNames(a, n + 1)
<1>1. n + 1 \in 1 .. n + 1 /\ \A i \in 1 .. n : i \in 1 .. n + 1
  OBVIOUS
<1> QED
  BY <1>1 DEF IfNames

LEMMA NoneEndsAgain ==
    ASSUME NEW a, NEW n \in Nat
    PROVE  NoneEnds(a, n + 1) <=> NoneEnds(a, n) /\ ~Ends(a[n + 1])
<1>1. \A i \in 1 .. n + 1 : i \in 1 .. n \/ i = n + 1
  OBVIOUS
<1>2. n + 1 \in 1 .. n + 1 /\ \A i \in 1 .. n : i \in 1 .. n + 1
  OBVIOUS
<1> QED
  BY <1>1, <1>2 DEF NoneEnds
----------------------------------------------------------------------------
(* The fields of a configuration_t *)

LEMMA FieldNames ==
    /\ DOMAIN PortField = {"t", "r", "u", "w"}
    /\ PortField["t"] = "tx_port" /\ PortField["r"] = "rx_port"
    /\ PortField["u"] = "app_tx_port" /\ PortField["w"] = "app_rx_port"
    /\ DOMAIN FlagField = {"s", "n", "e"}
    /\ FlagField["s"] = "__tx_test" /\ FlagField["n"] = "nec_mode"
    /\ FlagField["e"] = "__verbose"
    /\ DOMAIN new_configuration =
          {"tx_port", "rx_port", "app_tx_port", "app_rx_port", "app_address", "app_inet_addr",
           "if_name", "nec_mode", "__tx_test", "__verbose"}
BY DEF PortField, FlagField, new_configuration

LEMMA FieldsDiffer ==
    /\ \A p \in DOMAIN PortField :
          /\ PortField[p] \in DOMAIN new_configuration
          /\ PortField[p] \notin {"if_name", "app_address", "app_inet_addr", "__verbose"}
          /\ \A q \in DOMAIN PortField : PortField[p] = PortField[q] => p = q
          /\ \A q \in DOMAIN FlagField : PortField[p] # FlagField[q]
    /\ \A p \in DOMAIN FlagField :
          /\ FlagField[p] \in DOMAIN new_configuration
          /\ FlagField[p] \notin {"if_name", "app_address", "app_inet_addr"}
          /\ \A q \in DOMAIN FlagField : FlagField[p] = FlagField[q] => p = q
BY FieldNames

\* Which parts of a configuration each kind of option leaves alone.
LEMMA PortsSayAgain ==
    ASSUME NEW a, NEW n \in Nat, NEW c, NEW c2, PortsSay(c, a, n),
           a[n + 1].opt \notin DOMAIN PortField,
           \A opt \in DOMAIN PortField : c2[PortField[opt]] = c[PortField[opt]]
    PROVE  PortsSay(c2, a, n + 1)
BY LastAgain DEF PortsSay

LEMMA FlagsSayAgain ==
    ASSUME NEW a, NEW n \in Nat, NEW c, NEW c2, FlagsSay(c, a, n),
           a[n + 1].opt \notin DOMAIN FlagField,
           \A opt \in DOMAIN FlagField : c2[FlagField[opt]] = c[FlagField[opt]]
    PROVE  FlagsSay(c2, a, n + 1)
BY GivenAgain DEF FlagsSay

LEMMA NameSaysAgain ==
    ASSUME NEW a, NEW n \in Nat, NEW c, NEW c2, NamesSay(c, a, n),
           a[n + 1].opt \notin {"i", "d"},
           c2.if_name = c.if_name, c2.app_address = c.app_address
    PROVE  NamesSay(c2, a, n + 1)
<1>1. PICK v \in IfNames(a, n) : IsLast(v, a, n, "i", "") /\ c.if_name = Truncated(v)
  BY DEF NamesSay
<1>2. v \in IfNames(a, n + 1)
  BY <1>1, MoreIfNames
<1>3. IsLast(v, a, n + 1, "i", "") /\ IsLast(c.app_address, a, n + 1, "d", "NULL")
  BY <1>1, LastAgain DEF NamesSay
<1> QED
  BY <1>1, <1>2, <1>3 DEF NamesSay

----------------------------------------------------------------------------
(* The steps *)

LEMMA ArgvTypes ==
    ASSUME argv \in Argvs
    PROVE  /\ argv \in Seq(Range(argv)) /\ Len(argv) \in Nat
           /\ \A i \in 1 .. Len(argv) :
                 /\ argv[i].opt \in DOMAIN PortField => argv[i].val \in Int
                 /\ argv[i].opt = "i" /\ Truncated(argv[i].val) = "" => argv[i].val = ""
<1>1. argv \in Seq(Range(argv))
  BY ArgvsAssumption
<1>2. Len(argv) \in Nat
  BY <1>1
<1> QED
  BY <1>1, <1>2, ArgvsAssumption, TruncatedAssumption

\* An option is read.
LEMMA OptionRead ==
    ASSUME RestInv, Reading, rest' = Tail(rest), argv' = argv, DOMAIN cfg' = DOMAIN cfg
    PROVE  /\ RestInv' /\ Pos \in Nat /\ Pos + 1 \in 1 .. Len(argv)
           /\ Pos' = Pos + 1 /\ Option = argv[Pos + 1]
<1> DEFINE S == Range(argv)
<1>1. argv \in Argvs /\ Len(argv) \in Nat /\ rest \in Seq(S) /\ rest # << >> /\ Len(rest) <= Len(argv)
      /\ \A i \in 1 .. Len(rest) : rest[i] = argv[Pos + i]
  BY ArgvTypes DEF RestInv, Reading
<1> HIDE DEF S
<1>2. /\ Len(rest) \in Nat \ {0} /\ Tail(rest) \in Seq(S) /\ Len(Tail(rest)) = Len(rest) - 1
      /\ Head(rest) = rest[1] /\ \A i \in 1 .. Len(rest) - 1 : Tail(rest)[i] = rest[i + 1]
  BY <1>1
<1>3. Pos \in Nat /\ Pos + 1 \in 1 .. Len(argv) /\ Pos' = Pos + 1
  BY <1>1, <1>2 DEF Pos
<1>4. Option = argv[Pos + 1]
  BY <1>1, <1>2 DEF Option
<1>5. \A i \in 1 .. Len(rest') : rest'[i] = argv'[Pos' + i]
  <2> SUFFICES ASSUME NEW i \in 1 .. Len(rest) - 1 PROVE Tail(rest)[i] = argv[(Pos + 1) + i]
    BY <1>2, <1>3
  <2>1. i + 1 \in 1 .. Len(rest) /\ Pos + (i + 1) = (Pos + 1) + i
    BY <1>2, <1>3
  <2> QED
    BY <1>1, <1>2, <2>1
<1>6. rest' \in Seq(Range(argv)') /\ Len(rest') <= Len(argv')
  BY <1>1, <1>2 DEF S
<1>7. argv' \in Argvs /\ DOMAIN cfg' = DOMAIN new_configuration
  BY <1>1 DEF RestInv
<1> QED
  BY <1>3, <1>4, <1>5, <1>6, <1>7 DEF RestInv

\* Nothing is read: only pc changes.
LEMMA NothingRead ==
    ASSUME CfgInv, UNCHANGED <<argv, rest, cfg, __verbose>>
    PROVE  RestInv' /\ ReadInv' /\ Pos' = Pos
BY DEF CfgInv, RestInv, ReadInv, Pos

\* The option read does not end the reading.
LEMMA ReadsOn ==
    ASSUME CfgInv, Reading, rest' = Tail(rest), argv' = argv, DOMAIN cfg' = DOMAIN cfg,
           pc' = "read", ~Ends(Option),
           PortsSay(cfg', argv, Pos + 1), FlagsSay(cfg', argv, Pos + 1),
           NamesSay(cfg', argv, Pos + 1), __verbose' \in BOOLEAN, __verbose' = cfg'.__verbose
    PROVE  CfgInv'
<1>1. /\ RestInv' /\ Pos \in Nat /\ Pos' = Pos + 1 /\ Option = argv[Pos + 1]
  BY OptionRead DEF CfgInv
<1>2. NoneEnds(argv, Pos)
  BY DEF CfgInv, PcInv, Reading
<1>3. NoneEnds(argv, Pos + 1)
  BY <1>1, <1>2, NoneEndsAgain
<1>4. ReadInv'
  BY <1>1 DEF ReadInv
<1>5. PcInv'
  BY <1>1, <1>3 DEF PcInv
<1> QED
  BY <1>1, <1>4, <1>5 DEF CfgInv

\* The option read ends the reading.
LEMMA ReadsNoMore ==
    ASSUME CfgInv, Reading, rest' = Tail(rest), argv' = argv, DOMAIN cfg' = DOMAIN cfg,
           Ends(Option),
           \/ pc' = "EXIT_SUCCESS" /\ Option.opt # "d"
           \/ pc' = "EXIT_FAILURE" /\ Option.opt = "d"
    PROVE  CfgInv'
<1>1. /\ RestInv' /\ Pos \in Nat /\ Pos' = Pos + 1 /\ Option = argv[Pos + 1]
      /\ Pos + 1 \in 1 .. Len(argv)
  BY OptionRead DEF CfgInv
<1>2. NoneEnds(argv, Pos)
  BY DEF CfgInv, PcInv, Reading
<1>3. FirstEnd(argv, Pos + 1) /\ ~NoneEnds(argv, Pos + 1)
  <2>1. (Pos + 1) - 1 = Pos
    BY <1>1
  <2> QED
    BY <1>1, <1>2, <2>1, NoneEndsAgain DEF FirstEnd
<1>4. ReadInv'
  BY <1>1, <1>3 DEF ReadInv
<1>5. PcInv'
  BY <1>1, <1>3 DEF PcInv
<1> QED
  BY <1>1, <1>4, <1>5 DEF CfgInv

LEMMA CfgInit == Init => CfgInv
<1> SUFFICES ASSUME Init PROVE CfgInv
  OBVIOUS
<1>1. argv \in Seq(Range(argv)) /\ Len(argv) \in Nat /\ rest = argv /\ argv \in Argvs
  BY ArgvTypes DEF Init
<1>2. Pos = 0
  BY <1>1 DEF Pos
<1>3. RestInv
  BY <1>1, <1>2 DEF Init, RestInv
<1>4. \A n \in 1 .. 0 : FALSE
  OBVIOUS
<1>5. PortsSay(cfg, argv, 0) /\ FlagsSay(cfg, argv, 0)
  <2>1. /\ cfg.tx_port = 0 /\ cfg.rx_port = 0 /\ cfg.app_tx_port = 0 /\ cfg.app_rx_port = 0
        /\ cfg.__tx_test = FALSE /\ cfg.nec_mode = FALSE /\ cfg.__verbose = FALSE
    BY DEF Init, new_configuration
  <2>2. /\ \A opt \in DOMAIN PortField : cfg[PortField[opt]] = 0
        /\ \A opt \in DOMAIN FlagField : cfg[FlagField[opt]] = FALSE
    BY <2>1, FieldNames
  <2>3. PortsSay(cfg, argv, 0)
    <3>1. \A opt : IsLast(0, argv, 0, opt, 0)
      BY <1>4 DEF IsLast
    <3> QED
      BY <2>2, <3>1 DEF PortsSay
  <2>4. FlagsSay(cfg, argv, 0)
    <3>1. \A opt : ~GivenBefore(argv, 0, opt)
      BY <1>4 DEF GivenBefore
    <3> QED
      BY <2>2, <3>1 DEF FlagsSay
  <2> QED
    BY <2>3, <2>4
<1>6. NamesSay(cfg, argv, 0)
  BY <1>4, TruncatedAssumption DEF Init, new_configuration, NamesSay, IsLast, IfNames
<1>7. ReadInv
  BY <1>2, <1>5, <1>6 DEF Init, new_configuration, ReadInv
<1>8. PcInv
  BY <1>2, <1>4 DEF Init, PcInv, NoneEnds
<1> QED
  BY <1>3, <1>7, <1>8 DEF CfgInv

LEMMA CfgStep == CfgInv /\ [Next]_vars => CfgInv'
<1> SUFFICES ASSUME CfgInv, [Next]_vars PROVE CfgInv'
  OBVIOUS
<1>0. /\ argv \in Argvs /\ DOMAIN cfg = DOMAIN new_configuration
      /\ pc = "read" => /\ PortsSay(cfg, argv, Pos) /\ FlagsSay(cfg, argv, Pos)
                        /\ NamesSay(cfg, argv, Pos)
                        /\ __verbose \in BOOLEAN /\ __verbose = cfg.__verbose
  BY DEF CfgInv, RestInv, ReadInv, PcInv
<1>1. CASE ReadPort
  <2>1. /\ Reading /\ pc = "read" /\ Option.opt \in DOMAIN PortField
        /\ cfg' = [cfg EXCEPT ![PortField[Option.opt]] = Option.val]
        /\ rest' = Tail(rest) /\ argv' = argv /\ pc' = "read" /\ __verbose' = __verbose
    BY <1>1 DEF ReadPort, Reading
  <2>2. Pos \in Nat /\ Pos + 1 \in 1 .. Len(argv) /\ Option = argv[Pos + 1]
    BY <2>1, OptionRead DEF CfgInv
  <2>3. /\ DOMAIN cfg' = DOMAIN cfg /\ cfg'[PortField[Option.opt]] = Option.val
        /\ \A f \in DOMAIN cfg : f # PortField[Option.opt] => cfg'[f] = cfg[f]
    BY <1>0, <2>1, FieldNames
  <2>4. Option.val \in Int
    BY <1>0, <2>1, <2>2, ArgvTypes
  <2>5. PortsSay(cfg', argv, Pos + 1)
    <3> SUFFICES ASSUME NEW opt \in DOMAIN PortField
                 PROVE  /\ cfg'[PortField[opt]] \in Int
                        /\ IsLast(cfg'[PortField[opt]], argv, Pos + 1, opt, 0)
      BY DEF PortsSay
    <3>1. CASE opt = Option.opt
      BY <2>2, <2>3, <2>4, <3>1, LastNow
    <3>2. CASE opt # Option.opt
      <4>1. cfg'[PortField[opt]] = cfg[PortField[opt]]
        BY <1>0, <2>1, <2>3, <3>2, FieldsDiffer
      <4> QED
        BY <1>0, <2>1, <2>2, <3>2, <4>1, LastAgain DEF PortsSay
    <3> QED
      BY <3>1, <3>2
  <2>6. FlagsSay(cfg', argv, Pos + 1)
    <3>1. \A opt \in DOMAIN FlagField : cfg'[FlagField[opt]] = cfg[FlagField[opt]]
      BY <1>0, <2>1, <2>3, FieldsDiffer
    <3>2. argv[Pos + 1].opt \notin DOMAIN FlagField
      BY <2>1, <2>2, FieldNames
    <3>3. Pos \in Nat /\ FlagsSay(cfg, argv, Pos)
      BY <1>0, <2>1, <2>2
    <3> QED
      BY <3>1, <3>2, <3>3, FlagsSayAgain
  <2>7. NamesSay(cfg', argv, Pos + 1)
    <3>1. cfg'.if_name = cfg.if_name /\ cfg'.app_address = cfg.app_address
      BY <1>0, <2>1, <2>3, FieldNames
    <3>2. argv[Pos + 1].opt \notin {"i", "d"}
      BY <2>1, <2>2, FieldNames
    <3>3. Pos \in Nat /\ NamesSay(cfg, argv, Pos)
      BY <1>0, <2>1, <2>2
    <3> QED
      BY <3>1, <3>2, <3>3, NameSaysAgain
  <2>8. __verbose' \in BOOLEAN /\ __verbose' = cfg'.__verbose
    BY <1>0, <2>1, <2>3, FieldNames
  <2>9. ~Ends(Option)
    BY <2>1, FieldNames DEF Ends
  <2> QED
    BY <2>1, <2>3, <2>5, <2>6, <2>7, <2>8, <2>9, ReadsOn
<1>2. CASE ReadFlag
  <2>1. /\ Reading /\ pc = "read" /\ Option.opt \in DOMAIN FlagField
        /\ cfg' = [cfg EXCEPT ![FlagField[Option.opt]] = TRUE]
        /\ rest' = Tail(rest) /\ argv' = argv /\ pc' = "read"
        /\ __verbose' = (__verbose \/ Option.opt = "e")
    BY <1>2 DEF ReadFlag, Reading
  <2>2. Pos \in Nat /\ Pos + 1 \in 1 .. Len(argv) /\ Option = argv[Pos + 1]
    BY <2>1, OptionRead DEF CfgInv
  <2>3. /\ DOMAIN cfg' = DOMAIN cfg /\ cfg'[FlagField[Option.opt]] = TRUE
        /\ \A f \in DOMAIN cfg : f # FlagField[Option.opt] => cfg'[f] = cfg[f]
    BY <1>0, <2>1, FieldNames
  <2>4. PortsSay(cfg', argv, Pos + 1)
    <3>1. \A opt \in DOMAIN PortField : cfg'[PortField[opt]] = cfg[PortField[opt]]
      BY <1>0, <2>1, <2>3, FieldsDiffer
    <3>2. argv[Pos + 1].opt \notin DOMAIN PortField
      BY <2>1, <2>2, FieldNames
    <3>3. Pos \in Nat /\ PortsSay(cfg, argv, Pos)
      BY <1>0, <2>1, <2>2
    <3> QED
      BY <3>1, <3>2, <3>3, PortsSayAgain
  <2>5. FlagsSay(cfg', argv, Pos + 1)
    <3> SUFFICES ASSUME NEW opt \in DOMAIN FlagField
                 PROVE  /\ cfg'[FlagField[opt]] \in BOOLEAN
                        /\ cfg'[FlagField[opt]] = TRUE <=> GivenBefore(argv, Pos + 1, opt)
      BY DEF FlagsSay
    <3>1. CASE opt = Option.opt
      BY <2>2, <2>3, <3>1, GivenAgain
    <3>2. CASE opt # Option.opt
      <4>1. cfg'[FlagField[opt]] = cfg[FlagField[opt]]
        BY <1>0, <2>1, <2>3, <3>2, FieldsDiffer
      <4> QED
        BY <1>0, <2>1, <2>2, <3>2, <4>1, GivenAgain DEF FlagsSay
    <3> QED
      BY <3>1, <3>2
  <2>6. NamesSay(cfg', argv, Pos + 1)
    <3>1. cfg'.if_name = cfg.if_name /\ cfg'.app_address = cfg.app_address
      BY <1>0, <2>1, <2>3, FieldNames
    <3>2. argv[Pos + 1].opt \notin {"i", "d"}
      BY <2>1, <2>2, FieldNames
    <3>3. Pos \in Nat /\ NamesSay(cfg, argv, Pos)
      BY <1>0, <2>1, <2>2
    <3> QED
      BY <3>1, <3>2, <3>3, NameSaysAgain
  <2>7. __verbose' \in BOOLEAN /\ __verbose' = cfg'.__verbose
    <3>1. CASE Option.opt = "e"
      <4>1. cfg'.__verbose = TRUE
        BY <2>3, <3>1, FieldNames
      <4> QED
        BY <2>1, <3>1, <4>1
    <3>2. CASE Option.opt # "e"
      <4>1. cfg'.__verbose = cfg.__verbose
        BY <1>0, <2>1, <2>3, <3>2, FieldNames
      <4> QED
        BY <1>0, <2>1, <3>2, <4>1
    <3> QED
      BY <3>1, <3>2
  <2>8. ~Ends(Option)
    BY <2>1, FieldNames DEF Ends
  <2> QED
    BY <2>1, <2>3, <2>4, <2>5, <2>6, <2>7, <2>8, ReadsOn
<1>3. CASE ReadIfName
  <2>1. /\ Reading /\ pc = "read" /\ Option.opt = "i"
        /\ cfg' = [cfg EXCEPT !.if_name = Truncated(Option.val)]
        /\ rest' = Tail(rest) /\ argv' = argv /\ pc' = "read" /\ __verbose' = __verbose
    BY <1>3 DEF ReadIfName, Reading
  <2>2. Pos \in Nat /\ Pos + 1 \in 1 .. Len(argv) /\ Option = argv[Pos + 1]
    BY <2>1, OptionRead DEF CfgInv
  <2>3. /\ DOMAIN cfg' = DOMAIN cfg /\ cfg'.if_name = Truncated(Option.val)
        /\ \A f \in DOMAIN cfg : f # "if_name" => cfg'[f] = cfg[f]
    BY <1>0, <2>1, FieldNames
  <2>4. /\ \A opt \in DOMAIN PortField : cfg'[PortField[opt]] = cfg[PortField[opt]]
        /\ \A opt \in DOMAIN FlagField : cfg'[FlagField[opt]] = cfg[FlagField[opt]]
        /\ cfg'.app_address = cfg.app_address /\ cfg'.__verbose = cfg.__verbose
    BY <1>0, <2>3, FieldNames, FieldsDiffer
  <2>5. PortsSay(cfg', argv, Pos + 1) /\ FlagsSay(cfg', argv, Pos + 1)
    <3>1. /\ argv[Pos + 1].opt \notin DOMAIN PortField
          /\ argv[Pos + 1].opt \notin DOMAIN FlagField
      BY <2>1, <2>2, FieldNames
    <3>2. Pos \in Nat /\ PortsSay(cfg, argv, Pos) /\ FlagsSay(cfg, argv, Pos)
      BY <1>0, <2>1, <2>2
    <3>3. PortsSay(cfg', argv, Pos + 1)
      <4>1. \A opt \in DOMAIN PortField : cfg'[PortField[opt]] = cfg[PortField[opt]]
        BY <2>4
      <4>2. PortsSay(cfg, argv, Pos) /\ argv[Pos + 1].opt \notin DOMAIN PortField
        BY <3>1, <3>2
      <4> QED
        BY <2>2, <4>1, <4>2, PortsSayAgain
    <3>4. FlagsSay(cfg', argv, Pos + 1)
      <4>1. \A opt \in DOMAIN FlagField : cfg'[FlagField[opt]] = cfg[FlagField[opt]]
        BY <2>4
      <4>2. FlagsSay(cfg, argv, Pos) /\ argv[Pos + 1].opt \notin DOMAIN FlagField
        BY <3>1, <3>2
      <4> QED
        BY <2>2, <4>1, <4>2, FlagsSayAgain
    <3> QED
      BY <3>3, <3>4
  <2>6. NamesSay(cfg', argv, Pos + 1)
    <3>1. IsLast(Option.val, argv, Pos + 1, "i", "")
      BY <2>1, <2>2, LastNow
    <3>2. Option.val \in IfNames(argv, Pos + 1)
      BY <2>1, <2>2, MoreIfNames
    <3>3. IsLast(cfg.app_address, argv, Pos + 1, "d", "NULL") /\ cfg.app_address # ""
      BY <1>0, <2>1, <2>2, LastAgain DEF NamesSay
    <3> QED
      BY <2>3, <2>4, <3>1, <3>2, <3>3 DEF NamesSay
  <2>7. ~Ends(Option)
    BY <2>1 DEF Ends
  <2> QED
    BY <1>0, <2>1, <2>3, <2>4, <2>5, <2>6, <2>7, ReadsOn
<1>4. CASE ReadAppAddress
  <2>1. /\ Reading /\ pc = "read" /\ Option.opt = "d"
        /\ cfg' = IF Option.val = "" THEN cfg
                  ELSE [cfg EXCEPT !.app_address = Option.val, !.app_inet_addr = inet_addr(Option.val)]
        /\ pc' = IF Option.val = "" \/ inet_addr(Option.val) = INADDR_NONE
                 THEN "EXIT_FAILURE" ELSE "read"
        /\ rest' = Tail(rest) /\ argv' = argv /\ __verbose' = __verbose
    BY <1>4 DEF ReadAppAddress, Reading
  <2>2. Pos \in Nat /\ Pos + 1 \in 1 .. Len(argv) /\ Option = argv[Pos + 1] /\ DOMAIN cfg' = DOMAIN cfg
    <3>1. DOMAIN cfg' = DOMAIN cfg
      BY <2>1
    <3> QED
      BY <2>1, <3>1, OptionRead DEF CfgInv
  <2>3. CASE Option.val = "" \/ inet_addr(Option.val) = INADDR_NONE
    <3>1. Ends(Option)
      BY <2>1, <2>3 DEF Ends
    <3> QED
      BY <2>1, <2>2, <2>3, <3>1, ReadsNoMore
  <2>4. CASE ~(Option.val = "" \/ inet_addr(Option.val) = INADDR_NONE)
    <3>1. /\ cfg'.app_address = Option.val
          /\ \A f \in DOMAIN cfg : f \notin {"app_address", "app_inet_addr"} => cfg'[f] = cfg[f]
      BY <1>0, <2>1, <2>4, FieldNames
    <3>2. /\ \A opt \in DOMAIN PortField : cfg'[PortField[opt]] = cfg[PortField[opt]]
          /\ \A opt \in DOMAIN FlagField : cfg'[FlagField[opt]] = cfg[FlagField[opt]]
          /\ cfg'.if_name = cfg.if_name /\ cfg'.__verbose = cfg.__verbose
      BY <1>0, <3>1, FieldNames, FieldsDiffer
    <3>3. PortsSay(cfg', argv, Pos + 1) /\ FlagsSay(cfg', argv, Pos + 1)
      <4>1. argv[Pos + 1].opt \notin DOMAIN PortField /\ argv[Pos + 1].opt \notin DOMAIN FlagField
        BY <2>1, <2>2, FieldNames
      <4>2. Pos \in Nat /\ PortsSay(cfg, argv, Pos) /\ FlagsSay(cfg, argv, Pos)
        BY <1>0, <2>1, <2>2
      <4>3. PortsSay(cfg', argv, Pos + 1)
        <5>1. \A opt \in DOMAIN PortField : cfg'[PortField[opt]] = cfg[PortField[opt]]
          BY <3>2
        <5>2. Pos \in Nat /\ PortsSay(cfg, argv, Pos) /\ argv[Pos + 1].opt \notin DOMAIN PortField
          BY <4>1, <4>2
        <5> QED
          BY <5>1, <5>2, PortsSayAgain
      <4>4. FlagsSay(cfg', argv, Pos + 1)
        <5>1. \A opt \in DOMAIN FlagField : cfg'[FlagField[opt]] = cfg[FlagField[opt]]
          BY <3>2
        <5>2. Pos \in Nat /\ FlagsSay(cfg, argv, Pos) /\ argv[Pos + 1].opt \notin DOMAIN FlagField
          BY <4>1, <4>2
        <5> QED
          BY <5>1, <5>2, FlagsSayAgain
      <4> QED
        BY <4>3, <4>4
    <3>4. NamesSay(cfg', argv, Pos + 1)
      <4>1. PICK v \in IfNames(argv, Pos) : IsLast(v, argv, Pos, "i", "") /\ cfg.if_name = Truncated(v)
        BY <1>0, <2>1 DEF NamesSay
      <4>2. v \in IfNames(argv, Pos + 1)
        BY <2>2, <4>1, MoreIfNames
      <4>3. IsLast(v, argv, Pos + 1, "i", "")
        BY <2>1, <2>2, <4>1, LastAgain
      <4>4. IsLast(Option.val, argv, Pos + 1, "d", "NULL")
        BY <2>1, <2>2, LastNow
      <4> QED
        BY <2>4, <3>1, <3>2, <4>1, <4>2, <4>3, <4>4 DEF NamesSay
    <3>5. ~Ends(Option) /\ pc' = "read"
      BY <2>1, <2>4 DEF Ends
    <3> QED
      BY <1>0, <2>1, <2>2, <3>2, <3>3, <3>4, <3>5, ReadsOn
  <2> QED
    BY <2>3, <2>4
<1>5. CASE ReadInformation
  <2>1. Ends(Option) /\ Option.opt # "d"
    BY <1>5 DEF ReadInformation, Ends
  <2> QED
    BY <1>5, <2>1, ReadsNoMore DEF ReadInformation
<1>6. CASE ReadEnd
  <2>1. RestInv' /\ ReadInv' /\ Pos' = Pos
    BY <1>6, NothingRead DEF ReadEnd
  <2> QED
    BY <1>6, <2>1 DEF ReadEnd, CfgInv, PcInv
<1>7. CASE check_configuration
  <2>1. RestInv' /\ ReadInv' /\ Pos' = Pos
    BY <1>7, NothingRead DEF check_configuration
  <2>2. /\ pc = "check" /\ argv' = argv /\ rest' = rest /\ cfg' = cfg
        /\ pc' = IF Passes(cfg) THEN "accepted" ELSE "EXIT_FAILURE"
    BY <1>7 DEF check_configuration, Passes
  <2>3. rest = << >> /\ NoneEnds(argv, Pos)
    BY <2>2 DEF CfgInv, PcInv
  <2> QED
    BY <2>1, <2>2, <2>3 DEF CfgInv, PcInv
<1>8. CASE UNCHANGED vars
  <2>1. RestInv' /\ ReadInv' /\ Pos' = Pos
    BY <1>8, NothingRead DEF vars
  <2> QED
    BY <1>8, <2>1 DEF vars, CfgInv, PcInv
<1> QED
  BY <1>1, <1>2, <1>3, <1>4, <1>5, <1>6, <1>7, <1>8 DEF Next

----------------------------------------------------------------------------
(* What it says at the end *)

\* With every option read, the configuration is what the command line says.
LEMMA AllRead ==
    ASSUME CfgInv, rest = << >>, NoneEnds(argv, Pos)
    PROVE  /\ Len(argv) \in Nat /\ NoneEnds(argv, Len(argv))
           /\ \A opt \in DOMAIN PortField : cfg[PortField[opt]] = LastOf(argv, opt, 0)
           /\ \A opt \in DOMAIN FlagField : cfg[FlagField[opt]] = Given(argv, opt)
           /\ cfg.if_name = Truncated(LastOf(argv, "i", ""))
           /\ cfg.if_name = "" <=> LastOf(argv, "i", "") = ""
           /\ cfg.app_address = LastOf(argv, "d", "NULL") /\ cfg.app_address # ""
           /\ __verbose = cfg.__verbose
<1>1. argv \in Argvs /\ Len(argv) \in Nat
  BY ArgvTypes DEF CfgInv, RestInv
<1>2. Pos = Len(argv)
  BY <1>1 DEF Pos
<1>3. /\ PortsSay(cfg, argv, Len(argv)) /\ FlagsSay(cfg, argv, Len(argv))
      /\ NamesSay(cfg, argv, Len(argv)) /\ __verbose = cfg.__verbose
  BY <1>2 DEF CfgInv, ReadInv
<1>4. \A opt \in DOMAIN PortField : cfg[PortField[opt]] = LastOf(argv, opt, 0)
  BY <1>1, <1>3, LastIsLastOf DEF PortsSay
<1>5. ASSUME NEW opt \in DOMAIN FlagField PROVE cfg[FlagField[opt]] = Given(argv, opt)
  <2>1. /\ cfg[FlagField[opt]] \in BOOLEAN
        /\ cfg[FlagField[opt]] = TRUE <=> GivenBefore(argv, Len(argv), opt)
    BY <1>3 DEF FlagsSay
  <2>2. GivenBefore(argv, Len(argv), opt) <=> Given(argv, opt)
    BY DEF GivenBefore, Given
  <2>3. Given(argv, opt) \in BOOLEAN
    BY DEF Given
  <2> QED
    BY <2>1, <2>2, <2>3
<1>6. PICK v \in IfNames(argv, Len(argv)) :
         IsLast(v, argv, Len(argv), "i", "") /\ cfg.if_name = Truncated(v)
  BY <1>3 DEF NamesSay
<1>7. v = LastOf(argv, "i", "")
  BY <1>1, <1>6, LastIsLastOf
<1>8. Truncated(v) = "" <=> v = ""
  BY <1>1, <1>6, ArgvTypes, TruncatedAssumption DEF IfNames
<1>9. cfg.app_address = LastOf(argv, "d", "NULL") /\ cfg.app_address # ""
  BY <1>1, <1>3, LastIsLastOf DEF NamesSay
<1> QED
  BY <1>1, <1>2, <1>3, <1>4, <1>5, <1>6, <1>7, <1>8, <1>9

LEMMA TypesRead ==
    ASSUME CfgInv, rest = << >>, NoneEnds(argv, Pos)
    PROVE  /\ cfg.if_name # "" => \E i \in 1 .. Len(argv) :
                 argv[i].opt = "i" /\ cfg.if_name = Truncated(argv[i].val)
           /\ cfg.app_address # "NULL" => \E i \in 1 .. Len(argv) :
                 argv[i].opt = "d" /\ cfg.app_address = argv[i].val
           /\ \A opt \in DOMAIN PortField : cfg[PortField[opt]] \in Int
           /\ cfg.__tx_test \in BOOLEAN
<1>1. argv \in Argvs /\ Len(argv) \in Nat
  BY ArgvTypes DEF CfgInv, RestInv
<1>2. Pos = Len(argv)
  BY <1>1 DEF Pos
<1>3. /\ PortsSay(cfg, argv, Len(argv)) /\ FlagsSay(cfg, argv, Len(argv))
      /\ NamesSay(cfg, argv, Len(argv))
  BY <1>2 DEF CfgInv, ReadInv
<1>4. cfg.if_name # "" => \E i \in 1 .. Len(argv) :
         argv[i].opt = "i" /\ cfg.if_name = Truncated(argv[i].val)
  BY <1>3, TruncatedAssumption DEF NamesSay, IfNames
<1>5. cfg.app_address # "NULL" => \E i \in 1 .. Len(argv) :
         argv[i].opt = "d" /\ cfg.app_address = argv[i].val
  BY <1>3 DEF NamesSay, IsLast
<1>6. \A opt \in DOMAIN PortField : cfg[PortField[opt]] \in Int
  BY <1>3 DEF PortsSay
<1>7. cfg.__tx_test \in BOOLEAN
  BY <1>3, FieldNames DEF FlagsSay
<1> QED
  BY <1>4, <1>5, <1>6, <1>7

\* What is handed on by an accepted configuration.
LEMMA AcceptedTypes ==
    ASSUME CfgInv, pc = "accepted"
    PROVE  /\ cfg.tx_port \in Nat \ {0} /\ cfg.rx_port \in Nat \ {0}
           /\ cfg.app_tx_port \in Nat \ {0} /\ cfg.app_rx_port \in Nat \ {0}
           /\ \E i \in 1 .. Len(argv) : argv[i].opt = "i" /\ cfg.if_name = Truncated(argv[i].val)
           /\ cfg.app_address # "NULL" => \E i \in 1 .. Len(argv) :
                 argv[i].opt = "d" /\ cfg.app_address = argv[i].val
           /\ cfg.__tx_test \in BOOLEAN
<1>1. rest = << >> /\ NoneEnds(argv, Pos) /\ PositivePorts(cfg) /\ cfg.if_name # ""
  BY DEF CfgInv, PcInv, Passes
<1>2. /\ cfg.tx_port \in Int /\ cfg.rx_port \in Int
      /\ cfg.app_tx_port \in Int /\ cfg.app_rx_port \in Int
  BY <1>1, TypesRead, FieldNames
<1>3. /\ cfg.tx_port > 0 /\ cfg.rx_port > 0
      /\ cfg.app_tx_port > 0 /\ cfg.app_rx_port > 0
  BY <1>1 DEF PositivePorts
<1>4. \A p \in Int : p > 0 => p \in Nat \ {0}
  OBVIOUS
<1>5. /\ cfg.tx_port \in Nat \ {0} /\ cfg.rx_port \in Nat \ {0}
      /\ cfg.app_tx_port \in Nat \ {0} /\ cfg.app_rx_port \in Nat \ {0}
  BY <1>2, <1>3, <1>4
<1> QED
  BY <1>1, <1>5, TypesRead

\* Whatever is accepted says what the command line says, however long it is and
\* however often an option is repeated.
THEOREM AcceptedIsAsked == Spec => []ConfigurationIsCommandLine
<1>1. CfgInv => ConfigurationIsCommandLine
  BY AllRead DEF CfgInv, PcInv, ConfigurationIsCommandLine
<1> QED
  BY <1>1, CfgInit, CfgStep, PTL DEF Spec

\* The outcome of the reading is decided by the options alone: by the first that
\* ends it, or else by the last of each kind.
THEOREM OutcomeIsRight == Spec => []OutcomeIsDecided
<1>1. ASSUME CfgInv PROVE OutcomeIsDecided
  <2>0. argv \in Argvs /\ Len(argv) \in Nat
    BY <1>1, ArgvTypes DEF CfgInv, RestInv
  <2>1. ASSUME rest = << >>, NoneEnds(argv, Pos)
        PROVE  Ending(argv) = 0 /\ (Passes(cfg) <=> Acceptable(argv))
    <3>1. Ending(argv) = 0
      BY <1>1, <2>1, AllRead, NoneEndsIsEnding
    <3>2. /\ cfg.tx_port = LastOf(argv, "t", 0) /\ cfg.rx_port = LastOf(argv, "r", 0)
          /\ cfg.app_tx_port = LastOf(argv, "u", 0) /\ cfg.app_rx_port = LastOf(argv, "w", 0)
      <4>1. \A opt \in DOMAIN PortField : cfg[PortField[opt]] = LastOf(argv, opt, 0)
        BY <1>1, <2>1, AllRead
      <4> QED
        BY <4>1, FieldNames
    <3>3. PositivePorts(cfg) <=> \A opt \in DOMAIN PortField : LastOf(argv, opt, 0) > 0
      BY <3>2, FieldNames DEF PositivePorts
    <3> QED
      BY <1>1, <2>1, <3>1, <3>3, AllRead DEF Passes, Acceptable
  <2>2. CASE pc = "accepted"
    BY <1>1, <2>1, <2>2 DEF CfgInv, PcInv, OutcomeIsDecided
  <2>3. CASE pc = "EXIT_SUCCESS"
    <3>1. FirstEnd(argv, Pos) /\ argv[Pos].opt # "d"
      BY <1>1, <2>3 DEF CfgInv, PcInv
    <3> QED
      BY <2>0, <2>3, <3>1, FirstEndIsEnding DEF OutcomeIsDecided
  <2>4. CASE pc = "EXIT_FAILURE"
    <3>1. CASE FirstEnd(argv, Pos) /\ argv[Pos].opt = "d"
      <4>1. Ending(argv) = Pos /\ Pos > 0 /\ Pos # 0
        BY <2>0, <3>1, FirstEndIsEnding DEF FirstEnd
      <4> QED
        BY <2>4, <3>1, <4>1 DEF OutcomeIsDecided, Acceptable
    <3>2. CASE rest = << >> /\ NoneEnds(argv, Pos) /\ ~Passes(cfg)
      BY <2>1, <2>4, <3>2 DEF OutcomeIsDecided
    <3> QED
      BY <1>1, <2>4, <3>1, <3>2 DEF CfgInv, PcInv
  <2> QED
    BY <2>2, <2>3, <2>4 DEF OutcomeIsDecided
<1> QED
  BY <1>1, CfgInit, CfgStep, PTL DEF Spec
=============================================================================

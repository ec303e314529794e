---------------------------- MODULE MC_Sessions ----------------------------
(* How a call gets to a box, SessionDaemon, what a session types there,     *)
(* ShellProtocol, what comes of it, DeviceCalls, and what is read of a box, *)
(* Discovery.  A behaviour exercises one of the four, `part`; the others    *)
(* never start, so the state spaces add up and do not multiply.             *)
EXTENDS SessionDaemon, MC_ShellProtocol, DeviceCalls, Discovery

CONSTANTS jo, pat

\* bgpd fits one row of the first table and two of the second.
DaemonOf == ("bgpd" :> "bgpd") @@ ("sshd" :> "sshd") @@ ("routing:bgpd" :> "bgpd")
            @@ ("standby:bgpd" :> "bgpd") @@ ("infra:sshd" :> "sshd")
ProcessTables == {{"routing:bgpd", "infra:sshd"}, {"routing:bgpd", "standby:bgpd", "infra:sshd"}}

Order(tool, yes) ==
  [tool |-> tool, verb |-> tool, role |-> "ncc", id |-> "decimal", mode |-> "cold", name |-> "", confirm |-> yes,
   lines |-> <<>>, stop |-> FALSE, answers |-> FALSE]
At(o, role, id) == [o EXCEPT !.role = role, !.id = id]
Named(o, name) == [o EXCEPT !.name = name]
Plain == <<Typed("cmd", "1"), Typed("cmd", "2")>>
Raw(lines, stop, answers) ==
  [Order("raw", FALSE) EXCEPT !.lines = lines, !.stop = stop, !.answers = answers]
Worded(tool, verb, name) == [Named(Order(tool, FALSE), name) EXCEPT !.verb = verb]
NoOrder == Order("idle", FALSE)

RestartOrders ==
  {Order(t, y) : t \in {"system", "switchover"}, y \in BOOLEAN}
  \cup {[At(Order("nce", TRUE), r, i) EXCEPT !.mode = m] :
          r \in {"ncc", "ncp", "ncm"}, i \in {"decimal", "shelf"}, m \in {"cold", "warm", "force"}}
  \cup {Named(Order("container", TRUE), n) : n \in {"", "routing-engine"}}
  \cup {Named(Order("process", TRUE), n) : n \in {"", "bgpd", "sshd", "routing:bgpd", "standby:bgpd"}}
OtherOrders ==
  {Named(Order("kill", FALSE), "bgpd"), Order("raw", FALSE)}
  \cup {Worded(t, v, n) : t \in {"show", "run", "clear"}, v \in {"show", "run"},
                          n \in {"", "config", "request", "arp"}}
  \cup {Raw(Plain, s, FALSE) : s \in BOOLEAN}
  \cup {Raw(<<Typed("cmd", "1"), Typed("system", "")>>, TRUE, a) : a \in BOOLEAN}

\* Every call beside one that restarts the box, and beside none.
TwoOrders ==
  {(jo :> a) @@ (pat :> b) : a \in RestartOrders \cup OtherOrders, b \in {Order("system", TRUE), NoOrder}}
NoOrders == (jo :> NoOrder) @@ (pat :> NoOrder)

DcEverySetting == TwoOrders \cup {NoOrders}

\* Every read-only tool on a box that stays up; show system and the probe
\* on one that restarts, fails over, is in recovery or in its installer.
DvRead(tool, lines) ==
  [tool |-> tool, lines |-> lines, where |-> "device", creds |-> TRUE, allow |-> FALSE, locate |-> FALSE,
   scope |-> TRUE, phases |-> {"up"}, changes |-> 0]
DvConfig(n, piped) == DvLine("config", n, piped)
DvShow == DvLine("show", 3, FALSE)
NoRead == DvRead("idle", <<>>)
SystemReads ==
  {[DvRead("system", <<SystemLine>>) EXCEPT !.creds = c, !.where = w] :
     c \in BOOLEAN, w \in {"device", "unknown", "unresolved", "host"}}
  \cup {[DvRead("system", <<SystemLine>>) EXCEPT !.changes = 2, !.phases = Phases]}
Probe == [DvRead("probe", <<SystemLine>>) EXCEPT !.where = "host", !.locate = TRUE]
DvProbes ==
  {[Probe EXCEPT !.phases = Phases, !.allow = TRUE], [Probe EXCEPT !.phases = {"gi"}, !.changes = 1],
   [Probe EXCEPT !.phases = {"recovery"}, !.changes = 2, !.locate = FALSE]}
LineReads ==
  {DvRead(t, <<l>>) : t \in {"show", "show_config", "cmd_help", "cmd_search"} \cup Crawlers,
                    l \in {DvShow, DvLine("tool_name", 1, FALSE), DvLine("quoted", 2, FALSE)}
                         \cup {DvConfig(n, b) : n \in {2, 3, 4}, b \in BOOLEAN}}
  \cup {[DvRead("show_config", <<DvConfig(4, FALSE)>>) EXCEPT !.changes = 2],
        [DvRead("cmd_search", <<DvShow>>) EXCEPT !.scope = FALSE]}
Batched ==
  {DvRead(t, l) : t \in Many, l \in {<<>>, <<DvShow, DvShow>>, <<DvShow, DvConfig(3, FALSE)>>, <<DvConfig(3, FALSE), DvConfig(4, FALSE)>>}}
  \cup {[DvRead("show_many", <<DvShow, DvLine("show", 4, FALSE)>>) EXCEPT !.changes = 2]}
DvEverySetting == {NoRead} \cup SystemReads \cup DvProbes \cup LineReads \cup Batched

TwoControllers == <<"ncc0", "ncc1">>
Neighbor(mgmt, named, rack) == [mgmt |-> mgmt, named |-> named, rack |-> rack]
NeighborTables ==
  {<<>>, <<Neighbor(TRUE, TRUE, 0)>>}
  \cup {<<Neighbor(m, v, 2), Neighbor(FALSE, TRUE, 1), Neighbor(TRUE, TRUE, r)>> : m \in BOOLEAN, v \in BOOLEAN, r \in 1..2}

VARIABLE part

allVars == <<vars, shellVars, dcVars, dvVars, part>>

NoCall == Call("none", <<>>, {})
CallsAndNone == EveryCall \cup {NoCall}

SessionsInit ==
  /\ part \in {"daemon", "shell", "calls", "reads"}
  /\ Init /\ (part # "daemon" => \A c, d \in Clients : version[c] = version[d])
  /\ ShellInit /\ (part = "shell" <=> job # NoCall)
  /\ DcInit /\ (part = "calls" <=> dcJob # NoOrders)
  /\ part # "calls" => dcBox = "up" /\ Cardinality(table) = 2
  /\ DvInit /\ (part = "reads" <=> dvJob # NoRead)
  /\ part # "reads" => dvBox.active = 1

SessionsNext ==
  \/ part = "daemon" /\ Next /\ UNCHANGED <<shellVars, dcVars, dvVars, part>>
  \/ part = "shell" /\ ShellNext /\ UNCHANGED <<vars, dcVars, dvVars, part>>
  \/ part = "calls" /\ DcNext /\ UNCHANGED <<vars, shellVars, dvVars, part>>
  \/ part = "reads" /\ DvNext /\ UNCHANGED <<vars, shellVars, dcVars, part>>
  \/ part # "daemon" /\ UNCHANGED allVars    \* EveryCallReturns finds those that hang

SessionsFairness ==
  /\ \A c \in Clients : WF_vars(Client(c)) /\ WF_vars(Handler(c))
  /\ \A d \in Daemons : WF_vars(Daemon(d))
  /\ ShellFairness
  /\ DcFairness
  /\ DvFairness

SessionsSpec == SessionsInit /\ [][SessionsNext]_allVars /\ SessionsFairness

\* The types of the variables.
TypesOK == TypeOK /\ ShellTypeOK /\ DcTypeOK /\ DvTypeOK

\* What is typed reaches the shell it is for, and what a call returns is the
\* output of its commands and of nothing else.
LinesAndOutputs == LinesReachTheirShell /\ OutputIsTheCommands

\* A channel carries lines to the shell they are for and outputs back to the
\* call they are of, an ok means that all of it happened, and whatever step of
\* a dialogue misses, the call ends where it began.
DialoguesHold == LinesAndOutputs /\ OkMeansDone /\ FirmGround

\* Every call returns to its caller, whatever daemons and boxes do: the
\* client reads the daemon's answer with no deadline (session_daemon.py:228).
EveryCallReturns == []<>(NoCallWaits /\ CallOver /\ (part = "calls" => DcQuiet) /\ DvQuiet)
=============================================================================

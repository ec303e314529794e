----------------------------- MODULE DeviceCalls -----------------------------
(* Operational calls on a box: the restarts of dnos/cli/tools/restart.py,   *)
(* the verbs of run.py and clear.py, the raw lines of raw.py, the answers   *)
(* that runner.py makes of them, and run_sequence of core/session.py, which *)
(* runs the lines of a call on a channel of their own.  A line that         *)
(* restarts the box breaks the connections of every other call.             *)
EXTENDS Naturals, Sequences, FiniteSets

CONSTANTS
  DcCallers,
  DcSettings,   \* what each caller calls: a set of functions on DcCallers
  BaseOf,       \* process name -> the daemon: the bare names map to themselves
  DcTables      \* the process tables of the container, before and after a failover

VARIABLES
  dcJob,        \* which of DcSettings this behaviour runs under
  dc,           \* of each caller: where it is in its call
  chan,         \* of each caller: its channel
  dcBox,        \* "up", "down", or "bare": up, with no configure-style shell
  table,        \* the process table
  dcRan         \* history: the lines the box dcRan, in order

dcVars == <<dcJob, dc, chan, dcBox, table, dcRan>>

Restarts == {"system", "nce", "container", "process", "switchover"}

\* A call is of one of the tools, or of none; a raw call types a list of lines.
ASSUME DcAssumption ==
  \A s \in DcSettings, c \in DcCallers :
    /\ s[c].tool \in Restarts \cup {"kill", "show", "run", "clear", "raw", "idle"}
    /\ s[c].lines \in Seq([does : STRING, name : STRING])

Typed(does, name) == [does |-> does, name |-> name]

\* node_id as _validate_node_id sorts it: "decimal", "shelf" (a0), or "other".
ValidId(role, id) == id = IF role = "ncm" THEN "shelf" ELSE "decimal"

\* The arguments each tool lets through; a name matches its pattern or is "".
NceValid(k) ==
  /\ ValidId(k.role, k.id)
  /\ k.mode = "warm" => k.role # "ncm"
  /\ k.mode = "force" => k.role \in {"ncp", "ncf"}
ContainerValid(k) == ValidId(k.role, k.id) /\ k.name # ""
ProcessValid(k) == k.role # "ncm" /\ ValidId(k.role, k.id) /\ k.name # ""
WordsValid(k) ==
  /\ k.verb = k.tool
  /\ k.name \notin (CASE k.tool = "show" -> {"config"}
                    [] k.tool = "run" -> {"", "start shell", "request"}
                    [] k.tool = "clear" -> {""})
RawValid(k) == k.lines # <<>>

Valid(k) ==
  CASE k.tool = "nce" -> NceValid(k)
    [] k.tool = "container" -> ContainerValid(k)
    [] k.tool = "process" -> ProcessValid(k)
    [] k.tool \in {"show", "run", "clear"} -> WordsValid(k)
    [] k.tool = "raw" -> RawValid(k)
    [] OTHER -> TRUE

\* What a call types.  A restart switches the questions of its channel off.
RestartLines(k, name) == <<Typed("no-confirm", ""), Typed(k.tool, name)>>
KillLine(k) == <<Typed("kill", k.name)>>
WordLine(k) == <<Typed(k.verb, k.name)>>
Lines(k, name) ==
  CASE k.tool \in Restarts -> RestartLines(k, name)
    [] k.tool = "kill" -> KillLine(k)
    [] k.tool \in {"show", "run", "clear"} -> WordLine(k)
    [] OTHER -> k.lines

DcInit ==
  /\ dcJob \in DcSettings
  /\ dc = [c \in DcCallers |->
             [pc |-> IF dcJob[c].tool = "idle" THEN "done" ELSE "call", try |-> 1, at |-> 1,
              name |-> dcJob[c].name, outcomes |-> <<>>, answer |-> ""]]
  /\ chan = [c \in DcCallers |-> [live |-> FALSE, silent |-> FALSE]]
  /\ dcBox \in {"up", "bare"}
  /\ table \in DcTables
  /\ dcRan = <<>>

Answered(c, status) == dc' = [dc EXCEPT ![c].pc = "done", ![c].answer = status]

\* Validation, and the dry run: without confirm no channel is opened.  kill
\* and clear take no confirm.
Submit(c) ==
  LET k == dcJob[c] IN
  /\ dc[c].pc = "call"
  /\ IF ~Valid(k) THEN Answered(c, "invalid")
     ELSE IF k.tool \in Restarts /\ ~k.confirm THEN Answered(c, "dry run")
     ELSE dc' = [dc EXCEPT ![c].pc = IF k.tool = "process" THEN "lookup" ELSE "open"]
  /\ UNCHANGED <<dcJob, chan, dcBox, table, dcRan>>

\* A bare name that ends just one row of the process table.
Resolved(name) ==
  LET hits == {t \in table : t = name \/ BaseOf[t] = name} IN
  IF name = BaseOf[name] /\ Cardinality(hits) = 1 THEN CHOOSE t \in hits : TRUE ELSE name

\* The lookup is a call of its own; whatever stops it leaves the name as it is.
LookUpName(c) ==
  /\ dc[c].pc = "lookup"
  /\ \E read \in {dcBox # "down", FALSE} :
       dc' = [dc EXCEPT ![c].pc = "open", ![c].name = IF read THEN Resolved(@) ELSE @]
  /\ UNCHANGED <<dcJob, chan, dcBox, table, dcRan>>

\* An exception on the channel: the whole sequence again, once.
Raised(c) ==
  IF dc[c].try = 1
  THEN dc' = [dc EXCEPT ![c].pc = "open", ![c].try = 2, ![c].at = 1, ![c].outcomes = <<>>]
  ELSE Answered(c, "error")

\* A pooled transport may be found broken when the shell is invoked, and a
\* fresh channel may show no prompt.
Open(c) ==
  /\ dc[c].pc = "open"
  /\ UNCHANGED <<dcJob, dcBox, table, dcRan>>
  /\ \/ /\ dcBox = "down" /\ UNCHANGED chan
        /\ Answered(c, "connect_error") \/ Raised(c)
     \/ /\ dcBox # "down" /\ Answered(c, "error") /\ UNCHANGED chan
     \/ /\ dcBox # "down"
        /\ chan' = [chan EXCEPT ![c] = [live |-> TRUE, silent |-> FALSE]]
        /\ dc' = [dc EXCEPT ![c].pc = "send"]

Requests(line) == line.does = "run" /\ line.name = "request"
AsksYes(line) == line.does \in Restarts \/ Requests(line)

\* What the box may make of a line: run it, refuse it in words, or wait for
\* an answer to its question.
NoSuchProcess(line) == line.does = "process" /\ line.name \notin table
BoxMakesOf(c, line) ==
  CASE NoSuchProcess(line) -> {"refused"}
    [] AsksYes(line) /\ ~NoSuchProcess(line) /\ ~chan[c].silent -> IF dcJob[c].answers THEN {"ran"} ELSE {"asks"}
    [] line.does = "no-confirm" -> IF dcBox = "bare" THEN {"refused"} ELSE {"ran"}
    [] OTHER -> {"ran", "refused"}

Breaks(line) == line.does \in {"system", "nce", "switchover"} \/ Requests(line)

\* Fault: a reply that does not come is taken for a broken channel.
Over_Retry(c, outcome) ==
  IF outcome = "lost" THEN Raised(c)
  ELSE dc' = [dc EXCEPT ![c].pc = "read", ![c].outcomes = Append(@, outcome)]

Over(c, outcome) == dc' = [dc EXCEPT ![c].pc = "read", ![c].outcomes = Append(@, outcome)]

\* The line is typed.  What breaks the box breaks every channel, its own
\* after its reply or before; a reply that does not come is a timeout, not
\* an exception.
TypeLine(c) ==
  /\ dc[c].pc = "send"
  /\ UNCHANGED <<dcJob, table>>
  /\ IF ~chan[c].live
     THEN Raised(c) /\ UNCHANGED <<chan, dcBox, dcRan>>
     ELSE LET line == Lines(dcJob[c], dc[c].name)[dc[c].at] IN
          \E does \in BoxMakesOf(c, line) :
            /\ dcRan' = IF does = "ran"
                      THEN Append(dcRan, [by |-> c, try |-> dc[c].try, at |-> dc[c].at, line |-> line])
                      ELSE dcRan
            /\ \E outcome \in {IF does = "asks" THEN "lost" ELSE does, "lost"} : Over(c, outcome)
            /\ IF does = "ran" /\ Breaks(line)
               THEN dcBox' = "down" /\ chan' = [d \in DcCallers |-> [chan[d] EXCEPT !.live = FALSE]]
               ELSE /\ UNCHANGED dcBox
                    /\ chan' = [chan EXCEPT ![c].silent = @ \/ (does = "ran" /\ line.does = "no-confirm")]

\* Fault: only the last line's output is searched for an error.
Refusals_LastOnly(k, outcomes) == IF outcomes[Len(outcomes)] = "refused" THEN {Len(outcomes)} ELSE {}

\* The steps whose error the answer shows: raw looks at each, the others at
\* the last.
Refusals(k, outcomes) ==
  {i \in DOMAIN outcomes : outcomes[i] = "refused" /\ (k.tool = "raw" \/ i = Len(outcomes))}

\* The next line, or the answer.  The channel is closed with the answer.
NextLine(c) ==
  LET k == dcJob[c]
      outcomes == dc[c].outcomes
      last == outcomes[Len(outcomes)]
      stop == last = "lost" \/ (k.stop /\ last = "refused") IN
  /\ dc[c].pc = "read"
  /\ UNCHANGED <<dcJob, dcBox, table, dcRan>>
  /\ IF ~stop /\ dc[c].at < Len(Lines(k, dc[c].name))
     THEN dc' = [dc EXCEPT ![c].pc = "send", ![c].at = @ + 1] /\ UNCHANGED chan
     ELSE /\ chan' = [chan EXCEPT ![c] = [live |-> FALSE, silent |-> FALSE]]
          /\ Answered(c, IF last = "lost" THEN "timeout"
                         ELSE IF Refusals(k, outcomes) # {} THEN "error" ELSE "ok")

\* The box comes back; the roles of its controllers change.
ComesBack == /\ dcBox = "down" /\ dcBox' = "up" /\ UNCHANGED <<dcJob, dc, chan, table, dcRan>>
Failover == /\ table' \in DcTables \ {table}
            /\ \E c \in DcCallers : dc[c].pc = "open" /\ dcJob[c].tool = "process"
            /\ UNCHANGED <<dcJob, dc, chan, dcBox, dcRan>>

CallStep(c) == Submit(c) \/ LookUpName(c) \/ Open(c) \/ TypeLine(c) \/ NextLine(c)
DcQuiet == \A c \in DcCallers : dc[c].pc = "done"
DcNext == (\E c \in DcCallers : CallStep(c)) \/ ComesBack \/ Failover
DcSpec == DcInit /\ [][DcNext]_dcVars
DcFairness == \A c \in DcCallers : WF_dcVars(CallStep(c))

DcTypeOK ==
  /\ \A c \in DcCallers :
       /\ dc[c].pc \in {"call", "lookup", "open", "send", "read", "done"}
       /\ dc[c].try \in {1, 2} /\ dc[c].at \in Nat \ {0}
       /\ dc[c].answer \in {"", "invalid", "dry run", "connect_error", "error", "timeout", "ok"}
  /\ chan \in [DcCallers -> [live : BOOLEAN, silent : BOOLEAN]]
  /\ dcBox \in {"up", "down", "bare"} /\ table \in DcTables

Mine(c) == {i \in DOMAIN dcRan : dcRan[i].by = c}
DestructiveBy(c) == {i \in Mine(c) : AsksYes(dcRan[i].line)}

\* A tool that only reads restarts nothing.  A restart the box runs was confirmed by a
\* call with valid arguments, is of the daemon the call named, and happens
\* once, though the sequence is tried twice; an answer other than ok and
\* timeout says that nothing was restarted, and ok that it was.
RestartsAreMeant ==
  /\ \A c \in DcCallers : dcJob[c].tool \in {"show", "run", "clear"} => DestructiveBy(c) = {}
  /\ \A c \in DcCallers : dcJob[c].tool \in Restarts =>
      /\ Cardinality(DestructiveBy(c)) <= 1
      /\ \A i \in DestructiveBy(c) :
           /\ dcJob[c].confirm /\ Valid(dcJob[c])
           /\ dcJob[c].tool = "process" => BaseOf[dcRan[i].line.name] = BaseOf[dcJob[c].name]
      /\ dc[c].answer = "ok" => DestructiveBy(c) # {}
      /\ dc[c].answer \in {"invalid", "dry run", "connect_error", "error"} => DestructiveBy(c) = {}

\* What the answer says of a sequence of lines: ok means that all of them
\* ran in one try, in order; with stop_on_error no line runs behind one of
\* the same try that did not; the last line runs once whatever is retried.
TranscriptIsTrue ==
  \A c \in DcCallers : dcJob[c].tool \in {"raw", "clear", "run"} =>
    /\ dc[c].answer = "ok" =>
         \A n \in DOMAIN Lines(dcJob[c], dcJob[c].name) : \E i \in Mine(c) : dcRan[i].at = n /\ dcRan[i].try = dc[c].try
    /\ \A i \in Mine(c) : dcJob[c].stop /\ dcRan[i].at > 1 =>
         \E j \in Mine(c) : j < i /\ dcRan[j].at = dcRan[i].at - 1 /\ dcRan[j].try = dcRan[i].try
    /\ Cardinality({i \in Mine(c) : dcRan[i].at = Len(Lines(dcJob[c], dcJob[c].name))}) <= 1

\* A call of the operational tools does what its answer says.
CallsDoWhatTheySay == RestartsAreMeant /\ TranscriptIsTrue
=============================================================================

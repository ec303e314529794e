------------------------------ MODULE Discovery ------------------------------
(* Reading a box: the sweep of _open_transport over the controllers of a    *)
(* chassis (core/session.py), the read-only tools of tools/discovery.py,    *)
(* and the probe that registers a box (dnos/core/cli_probe.py), which take  *)
(* what the box prints for what it is.                                      *)
EXTENDS Naturals, Sequences, FiniteSets

CONSTANTS
  DvSettings,     \* the calls
  DvHosts,        \* the controllers of the chassis, in the registry's order
  DvAttempts,     \* QACTL_CONNECT_RETRIES
  MaxDvTroubles,  \* bound: failures of sshd and changes of the box in a call
  DvTables        \* tables of LLDP neighbours: sequences of [mgmt, named, rack]

VARIABLES
  dvJob,          \* which of DvSettings this behaviour runs under
  dv,             \* where the call is
  dvBox,          \* the chassis: its phase, its active controller
  dvShown         \* history: what the box was typed and what it printed

dvVars == <<dvJob, dv, dvBox, dvShown>>

Phases == {"up", "degraded", "recovery", "gi", "booting"}
Controllers == DOMAIN DvHosts

\* A line: its first word or two, how many tokens it has, whether it is piped.
DvLine(verb, tokens, piped) == [verb |-> verb, tokens |-> tokens, piped |-> piped]
SystemLine == DvLine("show", 2, FALSE)
Management == DvLine("management", 3, FALSE)
Neighbors == DvLine("lldp", 3, FALSE)

DvTools == {"idle", "system", "probe", "show", "show_many", "show_config", "show_config_many", "cmd_help", "cmd_search",
            "cli_crawler", "cli_config_crawler"}
Verbs == {"show", "config", "quoted", "tool_name", "management", "lldp"}
DvLineSet == [verb : Verbs, tokens : Nat, piped : BOOLEAN]

\* Of a table, a row is a neighbour's port: whose it is, if it has a name.
Neighbour == [mgmt : BOOLEAN, named : BOOLEAN, rack : Nat]

ASSUME DvAssumption ==
  /\ DvAttempts \in Nat \ {0} /\ MaxDvTroubles \in Nat
  /\ DvHosts \in Seq({DvHosts[i] : i \in DOMAIN DvHosts}) /\ DvHosts # <<>>
  /\ \A t \in DvTables : t \in Seq(Neighbour)
  /\ \A k \in DvSettings :
       /\ k.tool \in DvTools /\ k.lines \in Seq(DvLineSet) /\ k.phases \subseteq Phases
       /\ {k.creds, k.allow} \subseteq BOOLEAN /\ k.changes \in Nat
       /\ k.tool = "system" => k.lines = <<SystemLine>>

\* A name with underscores is one of this program's own commands.
ToolName(line) == line.verb = "tool_name"

LineValid(tool, line) ==
  CASE tool \in {"show", "show_many"} -> line.verb = "show"
    [] tool \in {"show_config", "show_config_many"} -> line.verb = "config"
    [] tool \in {"cmd_help", "cmd_search"} -> line.verb # "quoted"
    [] OTHER -> TRUE

Many == {"show_many", "show_config_many"}
Crawlers == {"cli_crawler", "cli_config_crawler"}   \* the prefix and a "?", never a newline

\* A batch is looked at whole before any of it is typed.
BatchValid(k) == k.lines # <<>> /\ \A i \in DOMAIN k.lines : LineValid(k.tool, k.lines[i])
Searchable(k) == k.tool = "cmd_search" => k.scope
DvValid(k) == BatchValid(k) /\ Searchable(k)

ProbeLines(k) == <<SystemLine, Management>> \o (IF k.locate THEN <<Neighbors>> ELSE <<>>)
DvLines(k) == IF k.tool = "probe" THEN ProbeLines(k) ELSE k.lines

\* The probe is given one host; every other call a device, or a host.
Candidates(k) == IF k.where = "device" THEN DOMAIN DvHosts ELSE {1}

NoReply == [status |-> "none", state |-> "none", hint |-> "none", warned |-> FALSE]
Replied(status, state, hint, warned) ==
  [status |-> status, state |-> state, hint |-> hint, warned |-> warned]

DvInit ==
  /\ dvJob \in DvSettings
  /\ dv = [pc |-> IF dvJob.tool = "idle" THEN "done" ELSE "ask", lines |-> <<>>, step |-> 1, try |-> 1,
           attempt |-> 1, met |-> <<>>, live |-> FALSE, instead |-> FALSE, logged |-> "none", reply |-> NoReply]
  /\ dvBox \in [phase : dvJob.phases, active : Controllers, troubles : {0}, changed : {0}]
  /\ dvShown = <<>>

\* What the parent of a path prints is marked, whatever comes of it.
DvReply(r) == dv' = [dv EXCEPT !.pc = "done", !.reply = [r EXCEPT !.warned = @ \/ dv.instead]]

\* Nothing is typed that was not looked at; help on a name of this program's
\* is answered here.
DvAsk ==
  /\ dv.pc = "ask"
  /\ UNCHANGED <<dvJob, dvBox, dvShown>>
  /\ IF ~DvValid(dvJob) THEN DvReply(Replied("invalid", "none", "none", FALSE))
     ELSE IF dvJob.tool = "cmd_help" /\ ToolName(dvJob.lines[1]) THEN DvReply(Replied("ok", "none", "none", TRUE))
     ELSE IF dvJob.where = "unknown" THEN DvReply(Replied("connect_error", "unreachable", "register", FALSE))
     ELSE dv' = [dv EXCEPT !.pc = "dial", !.lines = DvLines(dvJob)]

\* A timeout, a banner that does not come and a reset pass; a refused
\* connection, rejected credentials and an unknown host do not.
Passing(failure) == failure = "timeout"

\* What a try of one controller may come to.
Outcomes(host) ==
  IF dvJob.where = "unresolved" THEN {"unresolved"}
  ELSE IF host # dvBox.active THEN {"refused", "timeout"}
  ELSE IF dvBox.phase = "booting" THEN {"ok", "refused", "timeout"}
  ELSE IF dvJob.creds THEN {"ok"} ELSE {"rejected"}

\* The mgmt0 and LLDP steps of a probe are best effort: what stops one of
\* them, a lost box included, leaves its field empty.
Optional(k, step) == k.tool = "probe" /\ step > 1

ProbeReply(shown) ==
  Replied(IF shown[1].marks \cap {"name"} # {} \/ dvJob.allow THEN "ok" ELSE "error", "none", "none", FALSE)

\* A box without a name is no device, unless it is allowed: nothing more is
\* asked of it.
NextStep(shown) ==
  IF dv.step < Len(dv.lines) /\ ProbeReply(shown).status = "ok"
  THEN dv' = [dv EXCEPT !.pc = "get", !.step = @ + 1, !.try = 1]
  ELSE DvReply(ProbeReply(shown))

Failed(reply) == IF Optional(dvJob, dv.step) THEN NextStep(dvShown) ELSE DvReply(reply)

\* Fault: a sweep is as transient as its last failure.
Transient_Last(met) == Passing(met[Len(met)])

\* A sweep is worth another if any of its failures passes.
Transient(met) == \E i \in DOMAIN met : Passing(met[i])

\* The error of a sweep that is given up speaks of its last failure only.
GaveUp(met) == Replied("connect_error", "unreachable", IF Passing(met[Len(met)]) THEN "maybe_recovery" ELSE "none", FALSE)

\* _open_transport: one candidate after another, the sweep again when it is
\* worth it, after a sleep in which the controllers may change roles.
DvDial ==
  /\ dv.pc = "dial"
  /\ UNCHANGED <<dvJob, dvShown>>
  /\ \E outcome \in Outcomes(Len(dv.met) + 1) \cup {"timeout"} :
       LET met == Append(dv.met, outcome)
           fault == outcome \notin Outcomes(Len(met)) IN
       /\ fault => dvBox.troubles < MaxDvTroubles
       /\ dvBox' = IF fault THEN [dvBox EXCEPT !.troubles = @ + 1] ELSE dvBox
       /\ IF outcome = "ok"
          THEN dv' = [dv EXCEPT !.pc = "run", !.met = <<>>, !.live = TRUE,
                                !.logged = IF dv.attempt > 1 THEN "recovered" ELSE @]
          ELSE IF Len(met) < Cardinality(Candidates(dvJob)) THEN dv' = [dv EXCEPT !.met = met]
          ELSE IF Transient(met) /\ dv.attempt < DvAttempts
               THEN dv' = [dv EXCEPT !.met = <<>>, !.attempt = @ + 1]
          ELSE IF Optional(dvJob, dv.step) THEN NextStep(dvShown)
          ELSE dv' = [dv EXCEPT !.pc = "done", !.met = met, !.reply = [GaveUp(met) EXCEPT !.warned = dv.instead],
                                !.logged = IF Transient(met) THEN "gave_up" ELSE @]

\* A step of a probe is a call of its own, on the transport of the one before
\* if that is alive; is_alive may not have noticed that it is not.
DvGet ==
  /\ dv.pc = "get"
  /\ UNCHANGED <<dvJob, dvBox, dvShown>>
  /\ \/ dv' = [dv EXCEPT !.pc = "run"]
     \/ ~dv.live /\ dv' = [dv EXCEPT !.pc = "dial", !.attempt = 1, !.met = <<>>]

\* The lines of show system in each phase.  A bare status line proves
\* nothing: the installer prints it, and so does a box that is starting.
Inventory == {"serial_1", "serial_2", "gi_version"}
SystemPrints(phase) ==
  CASE phase = "up" ->
         {{"name", "type", "version", "status_running", "serial_1", "serial_2"} \cup more : more \in {{}, {"active_ncc"}}}
    [] phase = "degraded" -> {{"name", "type", "version", "status_qualified", "serial_1"}}
    [] phase = "recovery" -> {{"status_recovery", "version"}, {"name", "type", "status_running", "recovery_mode"}}
    [] phase = "gi" -> {{"status_running", "active_ncc", "serial_1", "gi_version"}, {"status_running", "gi_version"}}
    [] phase = "booting" -> {{"status_running"}, {}}

Printed(said, marks) == [said |-> said, marks |-> marks, rows |-> <<>>]
PrintsBesides(line) ==
  CASE dvJob.tool \in {"system", "probe"} -> {Printed("ok", m) : m \in SystemPrints(dvBox.phase)} \cup {Printed("refused", {})}
    [] dvJob.tool \in Crawlers -> {Printed("children", {})}
    [] dvJob.tool = "cmd_help" -> {Printed("ok", m) : m \in {{}, {"partial_match"}}}
    [] OTHER -> {Printed(s, {}) : s \in {"ok", "refused"} \cup (IF line.verb = "config" THEN {"incomplete"} ELSE {})}
Prints(line) ==
  CASE line.verb = "management" -> {Printed("ok", m) : m \in {{"mgmt0"}, {}}}
    [] line.verb = "lldp" -> {[Printed("ok", {}) EXCEPT !.rows = t] : t \in DvTables}
    [] OTHER -> PrintsBesides(line)

\* detect_error: a refusal and an incomplete command are errors.
IsError(said) == said \in {"refused", "incomplete"}

\* Fault: the status line alone says that the box runs.
Mode_ByStatus(marks) == IF "status_running" \in marks THEN "operational" ELSE "unknown"

Mode(marks) ==
  IF marks \cap {"type", "version"} # {} THEN "operational"
  ELSE IF marks \cap {"active_ncc", "gi_version"} # {} THEN "gi" ELSE "unknown"

State(marks) ==
  IF marks \cap {"status_recovery", "recovery_mode"} # {} THEN "recovery"
  ELSE IF Mode(marks) = "gi" THEN "gi"
  ELSE IF Mode(marks) = "operational" /\ "status_running" \in marks THEN "running"
  ELSE IF Mode(marks) = "operational" /\ "status_qualified" \in marks THEN "running_degraded" ELSE "unknown"

SystemName(marks) == IF "name" \in marks THEN "named" ELSE "none"
ExpectedRole(marks) == IF "type" \in marks THEN "CL" ELSE "none"
Mgmt0(marks) == IF "mgmt0" \in marks THEN "address" ELSE "none"
NccSerials(marks) == marks \cap {"serial_1", "serial_2"}
GiInventory(marks) == IF "gi_version" \in marks THEN NccSerials(marks) ELSE {}

\* Rows without a neighbour's name are none.
LldpRows(table) == {n \in DOMAIN table : table[n].named}

Least(S) == CHOOSE x \in S : \A y \in S : x <= y

\* The first management neighbour and the leaves; a rack is a number, 0 is a
\* name without one.
MgmtRows(table) == {n \in LldpRows(table) : table[n].mgmt}
MgmtRack(table) == IF MgmtRows(table) = {} THEN 0 ELSE table[Least(MgmtRows(table))].rack
LeafRacks(table) == {table[n].rack : n \in LldpRows(table) \ MgmtRows(table)} \ {0}
LeafRack(table) == IF LeafRacks(table) = {} THEN 0 ELSE Least(LeafRacks(table))
Location(table) ==
  [rack |-> IF MgmtRack(table) # 0 THEN MgmtRack(table) ELSE LeafRack(table),
   warned |-> Cardinality(LeafRacks(table)) > 1 \/ (MgmtRack(table) # 0 /\ LeafRack(table) \notin {0, MgmtRack(table)})]

\* What a probe makes of its outputs; the first is show system's.
Outputs(shown, verb) == {i \in DOMAIN shown : shown[i].line.verb = verb}
DeviceProbe(shown) ==
  LET first == shown[1].marks IN
  [name |-> SystemName(first), role |-> ExpectedRole(first), serials |-> NccSerials(first), mode |-> Mode(first),
   mgmt0 |-> {Mgmt0(shown[i].marks) : i \in Outputs(shown, "management")} \ {"none"},
   locations |-> {Location(shown[i].rows) : i \in Outputs(shown, "lldp")}]

\* The path without its last token, unless that is the whole configuration.
HasParent(line) == ~line.piped /\ line.tokens >= 4
Parent(line) == [line EXCEPT !.tokens = @ - 1]

\* What show system says of the box, and what help says of its document.
Annotated(marks) == Replied("ok", State(marks), IF State(marks) = "recovery" THEN "restart" ELSE "none",
                            State(marks) = "recovery" \/ Mode(marks) = "gi")
HelpReply(marks) == Replied("ok", "none", "none", "partial_match" \in marks)

OneReply(entry) ==
  IF ~entry.hit THEN Replied("timeout", "none", "none", FALSE)
  ELSE IF IsError(entry.said)
       THEN Replied("error", "none", IF entry.said = "incomplete" /\ ~dv.instead THEN "path" ELSE "syntax", dv.instead)
  ELSE CASE dvJob.tool = "system" -> Annotated(entry.marks)
         [] dvJob.tool = "cmd_help" -> HelpReply(entry.marks)
         [] OTHER -> Replied("ok", "none", "none", dv.instead)

\* A batch reads on after an error, and stops at a prompt that does not come.
BatchReply(shown) ==
  LET run == {i \in DOMAIN shown : shown[i].try = dv.try} IN
  IF \E i \in run : ~shown[i].hit THEN Replied("timeout", "none", "none", FALSE)
  ELSE IF \E i \in run : IsError(shown[i].said) THEN Replied("error", "none", "syntax", FALSE)
  ELSE Replied("ok", "none", "none", FALSE)

\* show_config reads the parent of a path that lacks its last token, once.
StepUp(entry) == dvJob.tool = "show_config" /\ entry.hit /\ entry.said = "incomplete" /\ ~dv.instead /\ HasParent(entry.line)

AfterLine(shown, entry) ==
  CASE dvJob.tool = "probe" -> NextStep(shown)
    [] dvJob.tool \in Many -> IF entry.hit /\ dv.step < Len(dv.lines)
                              THEN dv' = [dv EXCEPT !.step = @ + 1]
                              ELSE DvReply(BatchReply(shown))
    [] OTHER -> IF StepUp(entry)
                THEN dv' = [dv EXCEPT !.lines = <<Parent(entry.line)>>, !.pc = "get", !.try = 1, !.instead = TRUE]
                ELSE DvReply(OneReply(entry))

\* A line typed on a connection that is gone raises: the line again on a new
\* one, a batch from its start, once.
DvRaise ==
  /\ dv.pc = "run" /\ ~dv.live
  /\ UNCHANGED <<dvJob, dvBox, dvShown>>
  /\ IF dv.try = 1
     THEN dv' = [dv EXCEPT !.pc = "dial", !.try = 2, !.attempt = 1, !.met = <<>>, !.step = IF dvJob.tool \in Many THEN 1 ELSE @]
     ELSE Failed(Replied("error", "none", "none", FALSE))

\* A prompt that does not come within the timeout cuts the output short, at
\* the latest before the inventory that ends it.
DvRun ==
  /\ dv.pc = "run" /\ dv.live
  /\ UNCHANGED <<dvJob, dvBox>>
  /\ \E p \in Prints(dv.lines[dv.step]) :
     \E read \in {[p EXCEPT !.marks = @ \ Inventory], Printed(p.said, {}), p}, hit \in BOOLEAN :
       LET entry == [line |-> dv.lines[dv.step], try |-> dv.try, said |-> p.said, hit |-> hit,
                     marks |-> read.marks, rows |-> read.rows, phase |-> dvBox.phase] IN
       /\ hit => read = p
       /\ dvShown' = Append(dvShown, entry)
       /\ AfterLine(dvShown', entry)

Becomes(phase) ==
  CASE phase \in {"up", "degraded"} -> {"up", "degraded", "recovery", "booting"}
    [] phase = "booting" -> Phases
    [] OTHER -> {phase, "booting"}

\* The box changes its phase, or its active controller, and its connections
\* break.
DvChanges ==
  /\ dv.pc \notin {"ask", "done"} /\ dvBox.troubles < MaxDvTroubles /\ dvBox.changed < dvJob.changes
  /\ \E phase \in Becomes(dvBox.phase), active \in Controllers :
       /\ (phase = dvBox.phase) # (active = dvBox.active)
       /\ dvBox' = [phase |-> phase, active |-> active, troubles |-> dvBox.troubles + 1, changed |-> dvBox.changed + 1]
  /\ dv' = [dv EXCEPT !.live = FALSE]
  /\ UNCHANGED <<dvJob, dvShown>>

DvStep == DvAsk \/ DvDial \/ DvGet \/ DvRaise \/ DvRun
DvNext == DvStep \/ DvChanges
DvQuiet == dv.pc = "done"
DvFairness == WF_dvVars(DvStep)
DvSpec == DvInit /\ [][DvNext]_dvVars

DvTypeOK ==
  /\ dv.pc \in {"ask", "dial", "get", "run", "done"}
  /\ dv.try \in {1, 2} /\ dv.attempt \in 1..DvAttempts /\ Len(dv.met) <= Len(DvHosts)
  /\ dv.reply.state \in {"none", "running", "running_degraded", "recovery", "gi", "unknown", "unreachable"}
  /\ dvBox \in [phase : Phases, active : Controllers, troubles : 0..MaxDvTroubles, changed : 0..MaxDvTroubles]

\* A box that stays up, with the right credentials and a controller that the
\* call knows, is reached unless sshd fails as many connections as there are
\* sweeps, though the other controller refuses after each failure.  A read
\* that is answered unreachable has read nothing.
Reached ==
  dv.reply.status = "connect_error" =>
    /\ \/ dvBox.changed > 0 \/ dvBox.phase = "booting" \/ ~dvJob.creds \/ dvBox.troubles >= DvAttempts
       \/ dvJob.where \in {"unknown", "unresolved"} \/ dvBox.active \notin Candidates(dvJob)
    /\ dvShown = <<>> \/ dvJob.tool \in {"probe"} \cup Many \/ dv.instead

\* What runs is what was asked, line for line of the last try; a path that
\* lacks its last token is the one exception, and its parent is marked, is no
\* more than a token shorter and is never the whole configuration.  No line
\* of a call that is refused is typed, nor one of this program's own names.
ReadsWhatWasAsked ==
  /\ \A i \in DOMAIN dvShown :
       \/ dvShown[i].line \in {DvLines(dvJob)[n] : n \in DOMAIN DvLines(dvJob)} /\ LineValid(dvJob.tool, dvShown[i].line)
       \/ /\ dvJob.tool = "show_config" /\ dv.instead
          /\ dvShown[i].line.tokens = dvJob.lines[1].tokens - 1 /\ dvShown[i].line.tokens >= 3
          /\ \E j \in 1..(i - 1) : dvShown[j].line = dvJob.lines[1] /\ dvShown[j].said = "incomplete"
  /\ dv.reply.status = "invalid" => dvShown = <<>>
  /\ dv.reply.status = "ok" /\ dvJob.tool \in Many =>
       \E n \in 0..Len(dvShown) :
         /\ \A i \in DOMAIN dvShown : dvShown[i].try = dv.try <=> i > n
         /\ [i \in 1..(Len(dvShown) - n) |-> dvShown[n + i].line] = dvJob.lines
  /\ dv.reply.status = "ok" /\ dvShown # <<>> /\ dvJob.tool = "show_config" =>
       dv.reply.warned = (dvShown[Len(dvShown)].line # dvJob.lines[1])

\* A state is the state of the box when it answered: an installer's status
\* line, a box in recovery or one that is starting is never told as running.
PhaseOf(state) ==
  CASE state = "running" -> {"up"} [] state = "running_degraded" -> {"degraded"} [] state = "gi" -> {"gi"}
    [] state = "recovery" -> {"recovery"} [] state = "unknown" -> {"booting"} [] OTHER -> Phases
StateIsTrue ==
  dvJob.tool = "system" /\ dv.reply.status = "ok" =>
    LET last == dvShown[Len(dvShown)] IN
    /\ last.phase \in PhaseOf(dv.reply.state)
    /\ dv.reply.warned = (last.phase \in {"recovery", "gi"})

\* A probe fails for its first command only.  What it says of a box is the
\* box's when it answered, even of an output that was cut short; its rack
\* is the one of all its neighbours, or it warns.
ProbeIsTrue ==
  dvJob.tool = "probe" /\ dvShown # <<>> =>
    LET first == dvShown[1]
        probe == DeviceProbe(dvShown) IN
    /\ dv.reply.status \in {"error", "connect_error"} => probe.name = "none" /\ ~dvJob.allow
    /\ probe.mode = "gi" \/ GiInventory(first.marks) # {} => first.phase = "gi"
    /\ probe.mode = "operational" => first.phase \in {"up", "degraded", "recovery"}
    /\ probe.role # "none" => probe.name # "none"
    /\ first.hit /\ first.said = "ok" /\ first.phase = "up" => probe.serials = {"serial_1", "serial_2"}
    /\ probe.mgmt0 # {} => \E i \in Outputs(dvShown, "management") : "mgmt0" \in dvShown[i].marks
    /\ \A i \in Outputs(dvShown, "lldp") :
         LET table == dvShown[i].rows
             counted == {n \in DOMAIN table :
                           /\ table[n].named /\ table[n].rack # 0
                           /\ \A m \in 1..(n - 1) : ~(table[m].named /\ table[m].mgmt /\ table[n].mgmt)} IN
         \A location \in probe.locations :
           /\ ~location.warned => \A n \in counted : table[n].rack = location.rack
           /\ counted = {} <=> location.rack = 0

ReadsAreTrue == Reached /\ ReadsWhatWasAsked /\ StateIsTrue /\ ProbeIsTrue
=============================================================================

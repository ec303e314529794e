--------------------------- MODULE ConfigCandidate ---------------------------
(***************************************************************************)
(* The configure-mode tools (edit_config, edit_config_check and _compare,   *)
(* load_override_factory_default, rollback_config, restore_device and the   *)
(* template deploys) on the one candidate configuration that all sessions   *)
(* of a device share: qactl/dnos/cli/tools/edit.py, backup.py, templates.py *)
(* over core/configure_commit.py, edit_helpers.py, locks.py and             *)
(* run_sequence_pw of core/session.py.                                      *)
(*                                                                         *)
(* Commands reach the device one by one, so that calls under different     *)
(* locks interleave; a reply may be a refusal, may not come in time, or    *)
(* may be lost with the transport, whether or not the device acted.        *)
(***************************************************************************)
EXTENDS Naturals, Sequences, Functions

CONSTANTS Clients, Batch, Golden, RollbackId, HistMax, Before,
          Outsider,
          Locks,       \* threading.Lock objects that device_lock hands out
          LockOf,      \* the one a client takes: its process's, for its key
          Nobody,
          Settings,    \* what a run lets happen, see SettingsOK
          MaxOutside   \* bound: commits from outside qactl

OpNames == {"edit", "check", "compare", "lofd", "rollback", "restore"}
FaultNames == {"reject", "invalid", "timeout", "break", "outsider"}

\* A setting: the tools each client uses, the faults that may happen, and
\* (a bound) the calls of each client.
SettingsOK ==
  \A s \in Settings : /\ s.ops \in [Clients -> SUBSET OpNames]
                       /\ s.faults \subseteq FaultNames
                       /\ s.calls \in Nat

ASSUME CandidateAssumption ==
  /\ SettingsOK
  /\ LockOf \in [Clients -> Locks]
  /\ Nobody \notin Clients /\ Outsider \notin Clients
  /\ RollbackId \in 1..49 /\ MaxOutside \in Nat
  /\ HistMax \in Nat /\ Len(Before) \in 1..HistMax
  /\ Before \in Seq(SUBSET UNION Range(Before))
  /\ \A c \in Clients : Batch[c] \in Seq(Range(Batch[c]))

VARIABLES
  setting,   \* which of Settings this behaviour runs under
  dev,       \* the device: candidate, commit history, whether the candidate
             \* was changed, and whether it is in sync with what runs
  lock,      \* holder of each device lock
  pc,        \* "idle", "wait" for the lock, "run", or "cleanup" (rollback 0)
  op, at, attempt,    \* the call's tool, next command, and transport try
  flaw,      \* some reply of this try was a refusal or a failed check
  verdict,   \* what the last call returned
  goal,      \* history: what the call should leave running if it says ok
  landed,    \* history: a commit of this call took effect
  budget

vars == <<setting, dev, lock, pc, op, at, attempt, flaw, verdict, goal, landed, budget>>

\* The tools a client calls in some setting.
MayCall == [c \in Clients |-> UNION {s.ops[c] : s \in Settings}]

Promise == INSTANCE ConfigPromise WITH hist <- dev.hist, Ops <- MayCall

\* Where every reply arrives, qactl keeps the promise of ConfigPromise.
Answering == setting.faults \cap {"timeout", "break"} = {}

\* What it is held to: the history there, and nothing elsewhere.
Claimed == IF Answering THEN dev.hist ELSE Promise!InitHist

Claim == INSTANCE ConfigPromise WITH hist <- Claimed, Ops <- MayCall

Ops == setting.ops
Faults == setting.faults
Running == dev.hist[1].conf
Verdicts == {"none", "ok", "error", "conflict", "aborted", "timeout", "lost"}

Init ==
  /\ setting \in Settings
  /\ dev = [cand |-> Before[1], dirty |-> FALSE, sync |-> TRUE,
            hist |-> Promise!InitHist]
  /\ lock = [l \in Locks |-> Nobody]
  /\ pc = [c \in Clients |-> "idle"]
  /\ op = [c \in Clients |-> "check"]
  /\ at = [c \in Clients |-> 1]
  /\ attempt = [c \in Clients |-> 1]
  /\ flaw = [c \in Clients |-> FALSE]
  /\ verdict = [c \in Clients |-> "none"]
  /\ goal = [c \in Clients |-> {}]
  /\ landed = [c \in Clients |-> FALSE]
  /\ budget = [c \in Clients \cup {Outsider} |->
                 IF c = Outsider THEN MaxOutside ELSE setting.calls]

-----------------------------------------------------------------------------
(* The commands a call sends, and what the device does with each.          *)

Stage(s)   == [do |-> "stage", stmt |-> s]
Load(conf) == [do |-> "load", conf |-> conf]
Cmd(name)  == [do |-> name]

\* Fault: every statement is committed on its own.
Staging_CommitsEach(c) == <<Stage(Batch[c][1]), Cmd("commit")>> \o
  [i \in 1 .. Len(Batch[c]) - 1 |-> Stage(Batch[c][i + 1])]

\* Fault: the last statement of the batch is not sent.
Staging_DropsLast(c) == [i \in 1 .. Len(Batch[c]) - 1 |-> Stage(Batch[c][i])]

Staging(c) == [i \in DOMAIN Batch[c] |-> Stage(Batch[c][i])]

\* `configure`, `top`, the download and `set cli-no-confirm` leave the
\* candidate alone and are folded into their neighbours; so is `show config
\* compare`.
EditSteps(c)    == Staging(c) \o <<Cmd("commit")>>
CheckSteps(c)   == Staging(c) \o <<Cmd("check"), Cmd("discard")>>
CompareSteps(c) == Staging(c) \o <<Cmd("discard")>>
FactorySteps    == <<Load({}), Cmd("commit")>>
RollbackSteps   == <<Cmd("revert"), Cmd("commit")>>
RestoreSteps(c) == <<Load(Golden)>> \o Staging(c) \o <<Cmd("commit")>>

Program(c) ==
  IF pc[c] = "cleanup" THEN <<Cmd("discard")>>
  ELSE CASE op[c] = "edit"     -> EditSteps(c)
         [] op[c] = "check"    -> CheckSteps(c)
         [] op[c] = "compare"  -> CompareSteps(c)
         [] op[c] = "lofd"     -> FactorySteps
         [] op[c] = "rollback" -> RollbackSteps
         [] op[c] = "restore"  -> RestoreSteps(c)

Reply(r, d) == [reply |-> r, dev |-> d]
Refusal(f, r) == IF f \in Faults THEN {Reply(r, dev)} ELSE {}

Changed(conf) == [dev EXCEPT !.cand = conf, !.dirty = TRUE]
Committed(c) == [cand |-> dev.cand, dirty |-> FALSE, sync |-> TRUE,
                 hist |-> Promise!Push(dev.hist, dev.cand, c)]

\* Fault: the rebase prompt is answered with commit.
CommitReplies_Rebases(c) ==
  IF dev.cand = Running THEN {Reply("no_change", dev)}
  ELSE {Reply("committed", Committed(c))} \cup Refusal("invalid", "invalid")

\* The rebase prompt of a stale candidate is answered with abort.
CommitReplies(c) ==
  IF ~dev.sync THEN {Reply("conflict", dev)}
  ELSE IF dev.cand = Running THEN {Reply("no_change", dev)}
  ELSE {Reply("committed", Committed(c))} \cup Refusal("invalid", "invalid")

\* The replies the device may give to a command of c, with its new state.
Replies(c, cmd) ==
  CASE cmd.do = "stage" ->
         {Reply("done", Changed(dev.cand \cup {cmd.stmt}))}
           \cup Refusal("reject", "rejected")
    [] cmd.do = "load" ->
         {Reply("done", Changed(cmd.conf))}
           \cup Refusal("reject", "rejected")
    [] cmd.do = "revert" ->
         IF RollbackId < Len(dev.hist)
         THEN {Reply("done", Changed(dev.hist[RollbackId + 1].conf))}
         ELSE {Reply("rejected", dev)}
    [] cmd.do = "discard" ->
         {Reply("done", [dev EXCEPT !.cand = Running, !.dirty = FALSE, !.sync = TRUE])}
    [] cmd.do = "check" ->
         {Reply(IF dev.cand = Running THEN "no_change" ELSE "done", dev)}
           \cup Refusal("invalid", "invalid")
    [] cmd.do = "commit" -> CommitReplies(c)

-----------------------------------------------------------------------------
(* A call: its lock, its commands, its verdict and its cleanup.            *)

Start(c, o) ==
  /\ pc[c] = "idle" /\ budget[c] > 0
  /\ budget' = [budget EXCEPT ![c] = @ - 1]
  /\ op' = [op EXCEPT ![c] = o]
  /\ pc' = [pc EXCEPT ![c] = "wait"]
  /\ UNCHANGED <<dev, lock, at, attempt, flaw, verdict, goal, landed>>

\* Fault: the call does not wait for the device lock.
Acquire_Unlocked(c) ==
  /\ pc[c] = "wait"
  /\ lock' = [lock EXCEPT ![LockOf[c]] = c]
  /\ pc' = [pc EXCEPT ![c] = "run"]
  /\ at' = [at EXCEPT ![c] = 1]
  /\ attempt' = [attempt EXCEPT ![c] = 1]
  /\ flaw' = [flaw EXCEPT ![c] = FALSE]
  /\ verdict' = [verdict EXCEPT ![c] = "none"]
  /\ goal' = [goal EXCEPT ![c] = Promise!Result(dev.hist, c, op[c])]
  /\ landed' = [landed EXCEPT ![c] = FALSE]
  /\ UNCHANGED <<dev, op, budget>>

Acquire(c) ==
  /\ pc[c] = "wait" /\ lock[LockOf[c]] = Nobody
  /\ lock' = [lock EXCEPT ![LockOf[c]] = c]
  /\ pc' = [pc EXCEPT ![c] = "run"]
  /\ at' = [at EXCEPT ![c] = 1]
  /\ attempt' = [attempt EXCEPT ![c] = 1]
  /\ flaw' = [flaw EXCEPT ![c] = FALSE]
  /\ verdict' = [verdict EXCEPT ![c] = "none"]
  /\ goal' = [goal EXCEPT ![c] = Promise!Result(dev.hist, c, op[c])]
  /\ landed' = [landed EXCEPT ![c] = FALSE]
  /\ UNCHANGED <<dev, op, budget>>

\* The status of a call whose last command was a commit.
ApplyVerdict(end) ==
  CASE end = "committed" -> "ok"
    [] end = "conflict"  -> "conflict"
    [] OTHER             -> "error"

EditVerdict(end) == IF end = "rejected" THEN "aborted" ELSE ApplyVerdict(end)

\* A restore also reads the replies before its commit.
RestoreVerdict(end, flawed) == IF flawed THEN "error" ELSE ApplyVerdict(end)

\* A dry run ends with rollback 0, whatever its replies were.
DryVerdict(flawed) == IF flawed THEN "error" ELSE "ok"

\* Fault: the tool answers with the way its sequence ended.
Judge_Raw(c, end, flawed) == end

Judge(c, end, flawed) ==
  IF end \in {"timeout", "lost"} THEN end
  ELSE CASE op[c] = "edit"                  -> EditVerdict(end)
         [] op[c] \in {"check", "compare"}  -> DryVerdict(flawed)
         [] op[c] = "restore"               -> RestoreVerdict(end, flawed)
         [] op[c] \in {"lofd", "rollback"}  -> ApplyVerdict(end)

\* Fault: the abort answered to the rebase prompt is taken for a cleanup.
CleansUp_NotConflict(c, v) == op[c] = "edit" /\ v \notin {"ok", "lost", "conflict"}

\* abort_on_failure: only edit_config and the template deploys clean up, and
\* not after an exception (drive_configure_commit then returned None).
CleansUp(c, v) == op[c] = "edit" /\ v \notin {"ok", "lost"}

\* Fault: the cleanup is itself cleaned up after.
End_CleansAgain(c, end, flawed) ==
  LET v == IF pc[c] = "cleanup" THEN verdict[c] ELSE Judge(c, end, flawed)
      more == CleansUp(c, v)
  IN /\ verdict' = [verdict EXCEPT ![c] = v]
     /\ pc' = [pc EXCEPT ![c] = IF more THEN "cleanup" ELSE "idle"]
     /\ lock' = IF more THEN lock ELSE [lock EXCEPT ![LockOf[c]] = Nobody]
     /\ at' = [at EXCEPT ![c] = 1]
     /\ attempt' = [attempt EXCEPT ![c] = 1]

\* The sequence of c ended with `end`: answer, or clean the candidate first.
End(c, end, flawed) ==
  LET v == IF pc[c] = "cleanup" THEN verdict[c] ELSE Judge(c, end, flawed)
      more == pc[c] = "run" /\ CleansUp(c, v)
  IN /\ verdict' = [verdict EXCEPT ![c] = v]
     /\ pc' = [pc EXCEPT ![c] = IF more THEN "cleanup" ELSE "idle"]
     /\ lock' = IF more THEN lock ELSE [lock EXCEPT ![LockOf[c]] = Nobody]
     /\ at' = [at EXCEPT ![c] = 1]
     /\ attempt' = [attempt EXCEPT ![c] = 1]

\* The device goes to state d on a command of c.
DeviceGoes(c, d) ==
  /\ dev' = d
  /\ landed' = [landed EXCEPT ![c] = @ \/ d.hist # dev.hist]

\* Fault: a rejected statement does not end the sequence.
Stops_Never(c, r) == FALSE

\* stop_on_rejected_statement cuts an edit short; nothing else is cut short.
Stops(c, r) ==
  r = "rejected" /\ op[c] = "edit" /\ pc[c] = "run"

\* What an answer counts for.  Of the dry runs, edit_config's read all their
\* replies; scale_deploy's are ok, with a warning, when the check passes on
\* what the device took.
Flaws(c, r) ==
  IF r \notin {"rejected", "invalid", "no_change"} THEN {flaw[c]}
  ELSE IF r = "rejected" /\ op[c] = "check" THEN {flaw[c], TRUE} ELSE {TRUE}

\* A command is answered: on to the next one, or the sequence ends.
Exec(c) ==
  /\ pc[c] \in {"run", "cleanup"}
  /\ \E o \in Replies(c, Program(c)[at[c]]) : \E f \in Flaws(c, o.reply) :
       /\ DeviceGoes(c, o.dev)
       /\ flaw' = [flaw EXCEPT ![c] = f]
       /\ IF Stops(c, o.reply) \/ at[c] = Len(Program(c))
          THEN End(c, o.reply, f)
          ELSE /\ at' = [at EXCEPT ![c] = @ + 1]
               /\ UNCHANGED <<lock, pc, attempt, verdict>>
  /\ UNCHANGED <<op, goal, budget>>

\* The device acts, or not, on a command whose reply nobody sees.
ActsUnseen(c) ==
  \E d \in {dev} \cup {o.dev : o \in Replies(c, Program(c)[at[c]])} : DeviceGoes(c, d)

\* No prompt within the timeout: hit_prompt is False and the sequence ends.
Timeout(c) ==
  /\ "timeout" \in Faults /\ pc[c] \in {"run", "cleanup"}
  /\ ActsUnseen(c)
  /\ End(c, "timeout", flaw[c])
  /\ UNCHANGED <<op, flaw, goal, budget>>

\* The transport breaks: the first time run_sequence_pw starts the whole
\* sequence again on a new channel, the second time it raises.
Break(c) ==
  /\ "break" \in Faults /\ pc[c] \in {"run", "cleanup"}
  /\ ActsUnseen(c)
  /\ flaw' = [flaw EXCEPT ![c] = FALSE]
  /\ IF attempt[c] = 1
     THEN /\ attempt' = [attempt EXCEPT ![c] = 2]
          /\ at' = [at EXCEPT ![c] = 1]
          /\ UNCHANGED <<lock, pc, verdict>>
     ELSE End(c, "lost", FALSE)
  /\ UNCHANGED <<op, goal, budget>>

\* ConnectError: no transport for this try.
Refused(c) ==
  /\ "break" \in Faults /\ pc[c] \in {"run", "cleanup"} /\ at[c] = 1
  /\ End(c, "lost", FALSE)
  /\ UNCHANGED <<dev, op, flaw, goal, landed, budget>>

\* Somebody commits outside qactl: a clean candidate follows the running
\* configuration, a dirty one is out of sync with it.
OutsideCommit(conf) ==
  /\ "outsider" \in Faults /\ budget[Outsider] > 0 /\ conf # Running
  /\ budget' = [budget EXCEPT ![Outsider] = @ - 1]
  /\ dev' = [cand |-> IF dev.dirty THEN dev.cand ELSE conf,
             dirty |-> dev.dirty, sync |-> ~dev.dirty,
             hist |-> Promise!Push(dev.hist, conf, Outsider)]
  /\ UNCHANGED <<lock, pc, op, at, attempt, flaw, verdict, goal, landed>>

Step(c) == Acquire(c) \/ Exec(c) \/ Timeout(c) \/ Break(c) \/ Refused(c)

Stopped == \A c \in Clients : pc[c] = "idle" /\ budget[c] = 0

Next ==
  \/ /\ \/ \E c \in Clients : (\E o \in Ops[c] : Start(c, o)) \/ Step(c)
        \/ \E conf \in SUBSET Promise!Statements : OutsideCommit(conf)
     /\ UNCHANGED setting
  \/ Stopped /\ UNCHANGED vars

Spec == Init /\ [][Next]_vars

\* Commands have timeouts, so a call in progress goes on.
FairSpec == Spec /\ \A c \in Clients : WF_vars(Step(c) /\ UNCHANGED setting)

-----------------------------------------------------------------------------
Configs == SUBSET Promise!Statements
Returns(c) == pc[c] \in {"run", "cleanup"} /\ pc'[c] = "idle"

\* The types of the variables.
TypeOK ==
  /\ dev.cand \in Configs /\ dev.dirty \in BOOLEAN /\ dev.sync \in BOOLEAN
  /\ Len(dev.hist) \in 1..HistMax
  /\ \A i \in DOMAIN dev.hist : /\ dev.hist[i].conf \in Configs
                                /\ dev.hist[i].by \in Clients \cup {Outsider}
  /\ lock \in [Locks -> Clients \cup {Nobody}]
  /\ pc \in [Clients -> {"idle", "wait", "run", "cleanup"}]
  /\ op \in [Clients -> OpNames]
  /\ attempt \in [Clients -> {1, 2}] /\ at \in [Clients -> Nat \ {0}]
  /\ verdict \in [Clients -> Verdicts]
  /\ goal \in [Clients -> Configs]
  /\ flaw \in [Clients -> BOOLEAN] /\ landed \in [Clients -> BOOLEAN]
  /\ budget \in [Clients \cup {Outsider} -> Nat]

\* Where every reply arrives, every commit is the whole effect of one call on the configuration that was
\* running: no half batch, nothing another call had staged, no dry run.
CommitsAreWhole == Claim!Spec

\* Where every reply arrives, the shared candidate holds nothing uncommitted
\* between calls: whoever comes next does not inherit statements from a call
\* that failed.
CleanWhenFree ==
  Answering /\ (\A l \in Locks : lock[l] = Nobody)
    => dev.cand = Running

\* A call that answers ok leaves running what it was asked for: the batch, the
\* factory default, the backup, the earlier commit, or (a dry run) no change,
\* where no reply is lost or refused and nobody else commits; and an edit its
\* whole batch, whatever timed out or broke before: "no partial config can
\* land" (edit.py:193).
CliOkDelivers ==
  [][\A c \in Clients : Returns(c) /\ verdict'[c] = "ok" =>
       /\ Faults = {} => Running' = goal[c]
       /\ op[c] = "edit" => Range(Batch[c]) \subseteq Running']_vars

\* An edit adds to what runs at that moment and undoes nobody's commit: the
\* rebase prompt of a stale candidate is answered with abort (edit.py:201).
EditKeepsRunning ==
  [][\A c \in Clients : dev'.hist # dev.hist /\ dev'.hist[1].by = c /\ op[c] = "edit"
       => Running \subseteq Running']_vars

\* batch_abort_errors: "the commit was never sent - the running config is
\* unchanged (all-or-nothing)" (edit_helpers.py:224).
AbortedUntouched ==
  \A c \in Clients : verdict[c] = "aborted" => ~landed[c]

\* It is true where every reply arrives.
AbortedWhereAnswered == Answering => AbortedUntouched

\* edit.py:462: rollback 0 "drops the staged statements from the shared
\* candidate so the next operator doesn't inherit them. A dry-run really is a
\* dry-run": what a client only ever checked never runs.
DryRunStaysDry ==
  \A c \in Clients : Ops[c] \subseteq {"check", "compare"} =>
    \A i \in DOMAIN dev.hist : dev.hist[i].conf \cap Range(Batch[c]) = {}

\* What qactl leaves in a candidate that is shared with everybody: nothing
\* between its calls, and nothing of a batch it answered as aborted has run.
CandidateHolds == CleanWhenFree /\ AbortedWhereAnswered

\* One process, or one daemon of the key: all callers take the same lock.
OneLock == \A c, d \in Clients : LockOf[c] = LockOf[d]

\* What fails cleans up after itself: edits do, and dry runs end with rollback
\* 0.  A factory default, rollback or restore that is refused leaves what it
\* loaded in the candidate.
CleanersOnly ==
  \A s \in Settings : s.faults # {} => \A c \in Clients : s.ops[c] \subseteq {"edit", "check", "compare"}

\* No call goes on.
NoCall == \A c \in Clients : pc[c] = "idle"
=============================================================================

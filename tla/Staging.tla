-------------------------------- MODULE Staging --------------------------------
(* What request_system_tar_load and request_system_pre_check do to a box, from *)
(* their arguments to the verdict of the job (tools/tarload.py): which images  *)
(* of a build are loaded, what the sequence makes of the answers, and from     *)
(* which pre-check task the verdict is read.  The calls follow one another:    *)
(* who may start one, and what others see of it, is TarLoadJobs.               *)
EXTENDS Naturals, SequencesExt

CONSTANTS SgSite,      \* per build and component, its artifact: a URL whose file
                       \* is "named" after the version, or "odd"; "missing"; or
                       \* "broken" (an HTTP error, or no URL)
          SgSettings   \* the calls, the box they find, what may go wrong, and
                       \* the number of pre-checks of others, with those of before

ASSUME StagingAssumption == \A s \in SgSettings :
  /\ s.mode \in {"deployed", "gi"}
  /\ s.faults \subseteq {"artifact", "probe", "late", "drop", "error", "download"}
  /\ s.others \in Nat
  /\ \A k \in DOMAIN s.orders : s.orders[k].build \in DOMAIN SgSite

VARIABLES
  sgOf,       \* the setting
  sgCall,     \* the call that is under way
  sgTold,     \* what the calls have answered, with what they had done
  sgStack,    \* `show system stack`: the target version of each component
  sgFiles,    \* files the box has registered for download
  sgPulling,  \* the download that runs
  sgTasks     \* the pre-checks of the box

sgBoxVars == <<sgStack, sgFiles, sgPulling, sgTasks>>
sgVars == <<sgOf, sgCall, sgTold, sgBoxVars>>

\* _COMPONENT_ORDER
SgComponents == <<"base_os", "dnos", "gi">>
SgParts == ToSet(SgComponents)

\* The version of a component that is not staged, and no download.
SgAbsent == "-"
SgNothing == [part |-> "none", build |-> SgAbsent]

\* What each component may be, if nobody loads anything.
SgUntouched ==
  [c \in SgParts |-> {sgStack[c]} \cup {b \in {sgPulling.build} : sgPulling.part = c}]

\* `show system target-stack pre-check`: the last task that is rendered; a task
\* may be there by its id only.
SgShown ==
  LET rendered == {i \in DOMAIN sgTasks : sgTasks[i].at # "queued"}
  IN CHOOSE i \in rendered \cup {0} : \A j \in rendered : i >= j

NoCallAfter(n) ==
  [nr |-> n, pc |-> "idle", plan |-> <<>>, at |-> 1, try |-> 1, steps |-> <<>>, snap |-> 0,
   outcome |-> "ok", task |-> 0, before |-> <<>>, since |-> 0]

NextCall == [NoCallAfter(sgCall.nr + 1) EXCEPT !.before = SgUntouched, !.since = SgShown]

SgInit ==
  /\ sgOf \in SgSettings
  /\ sgStack = sgOf.box.stack /\ sgFiles = sgOf.box.files /\ sgPulling = sgOf.box.pulling
  /\ sgTasks = sgOf.box.tasks
  /\ sgCall = NoCallAfter(0)
  /\ sgTold = <<>>

Order == sgOf.orders[sgCall.nr]
SgMay(fault) == fault \in sgOf.faults

\* The job, or the call itself, comes to its end.
SgTell(call, state, pre) ==
  /\ sgTold' = Append(sgTold, [state |-> state, pre |-> pre, call |-> call,
                               after |-> sgStack, upTo |-> Len(sgTasks)])
  /\ sgCall' = NoCallAfter(call.nr)

SgGoto(pc) == sgCall' = [sgCall EXCEPT !.pc = pc]

-----------------------------------------------------------------------------
(* The kickoff.                                                            *)

\* _normalise_components: no list means all; a list names components only.
Malformed(o) == o.comps # {"all"} /\ (o.comps = {} \/ ~(o.comps \subseteq SgParts))

\* Whatever is listed is required; without a list the base OS may be missing.
Wanted(o) == IF o.comps = {"all"} THEN SgParts ELSE o.comps
Required(o) == IF o.comps = {"all"} THEN {"dnos", "gi"} ELSE o.comps

\* Bad arguments, then the dry run, both before any I/O.
BeginLoad(o) ==
  /\ o.tool = "load"
  /\ IF ~o.args \/ Malformed(o) THEN SgTell(NextCall, "refused", "none")
     ELSE IF ~o.confirm THEN SgTell(NextCall, "dry run", "none")
     ELSE sgCall' = [NextCall EXCEPT !.pc = "fetch"] /\ UNCHANGED sgTold

\* The pre-check tool takes no components and asks for no confirmation.
BeginPreCheck(o) ==
  /\ o.tool = "precheck"
  /\ IF o.args THEN sgCall' = [NextCall EXCEPT !.pc = "probe"] /\ UNCHANGED sgTold
     ELSE SgTell(NextCall, "refused", "none")

SgBegin ==
  /\ sgCall.pc = "idle" /\ sgCall.nr < Len(sgOf.orders)
  /\ LET o == sgOf.orders[sgCall.nr + 1] IN BeginLoad(o) \/ BeginPreCheck(o)
  /\ UNCHANGED <<sgOf, sgBoxVars>>

\* _fetch_jenkins_artifact: 404 and an empty file are no error, what is not
\* the URL of a tar is one.
Published(o, c) == SgSite[o.build][c] \in {"named", "odd"}
Unreadable(o, c) == SgSite[o.build][c] = "broken"

Fetch ==
  /\ sgCall.pc = "fetch"
  /\ \/ /\ \A c \in Wanted(Order) : ~Unreadable(Order, c)
        /\ \A c \in Required(Order) : Published(Order, c)
        /\ SgGoto("probe") /\ UNCHANGED sgTold
     \/ /\ \/ SgMay("artifact")
           \/ \E c \in Wanted(Order) : Unreadable(Order, c)
           \/ \E c \in Required(Order) : ~Published(Order, c)
        /\ SgTell(sgCall, "refused", "none")
  /\ UNCHANGED <<sgOf, sgBoxVars>>

\* Fault: the task id is not looked up before the kickoff.
Plan_NoSnapshot(o) ==
  LET checks == o.check /\ sgOf.mode = "deployed"
  IN (IF sgOf.mode = "deployed" THEN <<"quiet">> ELSE <<>>)
     \o SelectSeq(SgComponents, LAMBDA c : c \in Wanted(o) /\ Published(o, c))
     \o (IF checks THEN <<"check">> ELSE <<>>)

\* The commands of a load: `set cli-no-confirm` ("quiet") on a deployed box,
\* the last pre-check task ("show"), the images in their order, the pre-check.
Plan(o) ==
  LET checks == o.check /\ sgOf.mode = "deployed"
  IN (IF sgOf.mode = "deployed" THEN <<"quiet">> ELSE <<>>)
     \o (IF checks THEN <<"show">> ELSE <<>>)
     \o SelectSeq(SgComponents, LAMBDA c : c \in Wanted(o) /\ Published(o, c))
     \o (IF checks THEN <<"check">> ELSE <<>>)

\* `show system` says whether DNOS is deployed; no answer, no load.
ProbeLoad ==
  /\ sgCall.pc = "probe" /\ Order.tool = "load"
  /\ \/ sgCall' = [sgCall EXCEPT !.pc = "run", !.plan = Plan(Order)] /\ UNCHANGED sgTold
     \/ SgMay("probe") /\ SgTell(sgCall, "refused", "none")
  /\ UNCHANGED <<sgOf, sgBoxVars>>

ProbePreCheck ==
  /\ sgCall.pc = "probe" /\ Order.tool = "precheck"
  /\ \/ /\ sgOf.mode = "deployed"
        /\ sgCall' = [sgCall EXCEPT !.pc = "run", !.plan = <<"quiet", "show", "check">>]
        /\ UNCHANGED sgTold
     \/ sgOf.mode = "gi" /\ SgTell(sgCall, "refused", "none")
     \/ SgMay("probe") /\ SgTell(sgCall, "refused", "none")
  /\ UNCHANGED <<sgOf, sgBoxVars>>

-----------------------------------------------------------------------------
(* The sequence of the worker, one command after the other on one channel. *)

Cmd == sgCall.plan[sgCall.at]
Sending(cmds) == sgCall.pc = "run" /\ Cmd \in cmds

\* The stop predicate: an error of the set-up, and "already registered", end
\* nothing.
Stops(cmd, r) == r = "error" /\ cmd # "quiet"

\* The command is answered: on to the next one, or the sequence is over.
SgAnswered(call, r) ==
  LET over == r = "timeout" \/ Stops(Cmd, r) \/ call.at = Len(call.plan)
  IN sgCall' = [call EXCEPT !.steps = @ @@ (Cmd :> r), !.at = IF over THEN @ ELSE @ + 1,
                            !.pc = IF over THEN "sum" ELSE "run"]

\* Answers to a command that leaves the box as it is.
Replies == {"ok"} \cup {r \in {"error"} : SgMay("error")} \cup {r \in {"timeout"} : SgMay("late")}

SendSetUp ==
  /\ Sending({"quiet"})
  /\ \E r \in Replies : SgAnswered(sgCall, r)
  /\ UNCHANGED <<sgOf, sgTold, sgBoxVars>>

SendShow ==
  /\ Sending({"show"})
  /\ \E r \in Replies : SgAnswered([sgCall EXCEPT !.snap = SgShown], r)
  /\ UNCHANGED <<sgOf, sgTold, sgBoxVars>>

File == [part |-> Cmd, build |-> Order.build]

\* A file is downloaded once, and one at a time.
SendImage ==
  /\ Sending(SgParts)
  /\ \/ File \in sgFiles /\ SgAnswered(sgCall, "registered") /\ UNCHANGED sgBoxVars
     \/ /\ File \notin sgFiles /\ (sgPulling # SgNothing \/ SgMay("error"))
        /\ SgAnswered(sgCall, "error") /\ UNCHANGED sgBoxVars
     \/ /\ File \notin sgFiles /\ sgPulling = SgNothing
        /\ sgFiles' = sgFiles \cup {File} /\ sgPulling' = File
        /\ SgGoto("wait") /\ UNCHANGED <<sgStack, sgTasks>>
  /\ UNCHANGED <<sgOf, sgTold>>

\* A download ends: staged, or broken, with or without its registration left.
PullEnds(end) ==
  /\ end \in {"staged"} \cup {e \in {"left", "forgotten"} : SgMay("download")}
  /\ sgStack' = IF end = "staged" THEN [sgStack EXCEPT ![sgPulling.part] = sgPulling.build]
                ELSE sgStack
  /\ sgFiles' = IF end = "forgotten" THEN sgFiles \ {sgPulling} ELSE sgFiles
  /\ sgPulling' = SgNothing
  /\ UNCHANGED sgTasks

OwnPull == sgCall.pc = "wait" /\ Cmd \in SgParts

ImageReply ==
  /\ OwnPull
  /\ \E end \in {"staged", "left", "forgotten"} :
       PullEnds(end) /\ SgAnswered(sgCall, IF end = "staged" THEN "ok" ELSE "error")
  /\ UNCHANGED <<sgOf, sgTold>>

NewTask(by) == [by |-> by, stack |-> sgStack, at |-> "queued"]

SendCheck ==
  /\ Sending({"check"})
  /\ \/ SgMay("error") /\ SgAnswered(sgCall, "error") /\ UNCHANGED sgBoxVars
     \/ /\ sgTasks' = Append(sgTasks, NewTask(sgCall.nr))
        /\ SgGoto("wait") /\ UNCHANGED <<sgStack, sgFiles, sgPulling>>
  /\ UNCHANGED <<sgOf, sgTold>>

CheckReply ==
  /\ sgCall.pc = "wait" /\ Cmd = "check"
  /\ SgAnswered(sgCall, "ok")
  /\ UNCHANGED <<sgOf, sgTold, sgBoxVars>>

\* No prompt within step_timeout; what the command began goes on.
StepLate ==
  /\ sgCall.pc = "wait" /\ SgMay("late")
  /\ SgAnswered(sgCall, "timeout")
  /\ UNCHANGED <<sgOf, sgTold, sgBoxVars>>

\* The transport breaks: run_sequence sends everything again, once; if that
\* breaks too, or there is no connection, the job ends.
SgDrop ==
  /\ sgCall.pc \in {"run", "wait"} /\ SgMay("drop")
  /\ \/ /\ sgCall.try = 1
        /\ sgCall' = [sgCall EXCEPT !.pc = "run", !.at = 1, !.try = 2, !.steps = <<>>, !.snap = 0]
        /\ UNCHANGED sgTold
     \/ SgTell(sgCall, "error", "none")
  /\ UNCHANGED <<sgOf, sgBoxVars>>

-----------------------------------------------------------------------------
(* The verdict.                                                            *)

Answers(r) == {cmd \in DOMAIN sgCall.steps \ {"quiet", "show"} : sgCall.steps[cmd] = r}

SgBlame(how) == IF sgCall.outcome = "ok" THEN how ELSE sgCall.outcome

\* The steps are summed up; the two of the set-up are not among them.
SumUp ==
  /\ sgCall.pc = "sum"
  /\ sgCall' = [sgCall EXCEPT
       !.outcome = IF Answers("timeout") # {} THEN "timeout"
                   ELSE IF Answers("error") # {} THEN "error" ELSE "ok",
       !.pc = IF Answers("registered") # {} THEN "verify" ELSE "post"]
  /\ UNCHANGED <<sgOf, sgTold, sgBoxVars>>

\* Fault: any version in the target column is taken for the one asked for.
Proved_AnyVersion(c) == sgStack[c] # SgAbsent

\* _verify_already_registered, for one image: its version is in the target
\* column, or something is, if the name of the file tells no version.
Proved(c) ==
  IF SgSite[Order.build][c] = "named" THEN sgStack[c] = Order.build ELSE sgStack[c] # SgAbsent

ProveRegistered ==
  /\ sgCall.pc = "verify"
  /\ \E seen \in {TRUE} \cup {s \in {FALSE} : SgMay("probe")} :
       LET good == seen /\ \A c \in Answers("registered") : Proved(c)
       IN sgCall' = [sgCall EXCEPT !.pc = "post", !.outcome = IF good THEN @ ELSE SgBlame("error")]
  /\ UNCHANGED <<sgOf, sgTold, sgBoxVars>>

Final(outcome) == IF outcome = "ok" THEN "done" ELSE outcome

\* Is there a pre-check to wait for?
PostCheck ==
  /\ sgCall.pc = "post"
  /\ IF Order.check /\ sgOf.mode = "deployed" /\ "check" \in Answers("ok")
     THEN SgGoto("poll") /\ UNCHANGED sgTold
     ELSE SgTell(sgCall, Final(sgCall.outcome),
                 IF ~Order.check THEN "none" ELSE IF sgOf.mode = "gi" THEN "skipped_gi"
                 ELSE IF "check" \in DOMAIN sgCall.steps THEN "none" ELSE "skipped")
  /\ UNCHANGED <<sgOf, sgBoxVars>>

\* A task id other than the one of the snapshot.
Fresh(t) == t # 0 /\ t # sgCall.snap

Polled(pre, how, t) == SgTell([sgCall EXCEPT !.task = t], Final(SgBlame(how)), pre)

\* _poll_tar_pre_check: the first look that shows a fresh task which does not
\* run (or has no status yet) is the verdict; a look that fails is an error.
Look ==
  /\ sgCall.pc = "poll"
  /\ \/ LET t == SgShown IN
        /\ Fresh(t) /\ sgTasks[t].at # "running"
        /\ IF sgTasks[t].at = "succeeded" THEN Polled("passed", "ok", t)
           ELSE Polled("failed", "error", t)
     \/ SgMay("probe") /\ Polled("error", "error", 0)
  /\ UNCHANGED <<sgOf, sgBoxVars>>

PollDeadline ==
  /\ sgCall.pc = "poll"
  /\ Polled("timeout", "timeout", 0)
  /\ UNCHANGED <<sgOf, sgBoxVars>>

-----------------------------------------------------------------------------
(* The box, and others on it.                                              *)

SgPullEnds ==
  /\ sgPulling # SgNothing /\ ~OwnPull
  /\ \E end \in {"staged", "left", "forgotten"} : PullEnds(end)
  /\ UNCHANGED <<sgOf, sgCall, sgTold>>

\* How a pre-check goes on: it is rendered with its id, then with its status.
After(at) == CASE at = "queued" -> {"bare", "running"} [] at = "bare" -> {"running"}
               [] at = "running" -> {"succeeded", "failed"} [] OTHER -> {}

TaskGoesOn ==
  /\ \E i \in DOMAIN sgTasks : \E s \in After(sgTasks[i].at) : sgTasks' = [sgTasks EXCEPT ![i].at = s]
  /\ UNCHANGED <<sgOf, sgCall, sgTold, sgStack, sgFiles, sgPulling>>

Others == {i \in DOMAIN sgTasks : sgTasks[i].by = 0}

OtherCheck ==
  /\ Cardinality(Others) < sgOf.others
  /\ sgTasks' = Append(sgTasks, NewTask(0))
  /\ UNCHANGED <<sgOf, sgCall, sgTold, sgStack, sgFiles, sgPulling>>

SgQuiet == sgCall.pc = "idle" /\ sgCall.nr = Len(sgOf.orders)

SgStep ==
  \/ SgBegin \/ Fetch \/ ProbeLoad \/ ProbePreCheck
  \/ SendSetUp \/ SendShow \/ SendImage \/ ImageReply \/ SendCheck \/ CheckReply
  \/ StepLate \/ SgDrop \/ SumUp \/ ProveRegistered \/ PostCheck \/ Look \/ PollDeadline

SgNext == SgStep \/ SgPullEnds \/ TaskGoesOn \/ OtherCheck

\* A worker goes on: every command and the poll have a deadline, and a download
\* that is waited for ends before step_timeout or at it.
SgFairness == WF_sgVars(SgStep)

-----------------------------------------------------------------------------
SgVersions == DOMAIN SgSite \cup {SgAbsent, "old"}

\* The types of the variables.
SgTypeOK ==
  /\ sgCall.nr \in 0..Len(sgOf.orders)
  /\ sgCall.pc \in {"idle", "fetch", "probe", "run", "wait", "sum", "verify", "post", "poll"}
  /\ sgCall.outcome \in {"ok", "error", "timeout"} /\ sgCall.try \in {1, 2}
  /\ DOMAIN sgCall.steps \subseteq SgParts \cup {"quiet", "show", "check"}
  /\ Range(sgCall.steps) \subseteq {"ok", "registered", "error", "timeout"}
  /\ \A t \in ToSet(sgTold) :
       /\ t.state \in {"refused", "dry run", "done", "error", "timeout"}
       /\ t.pre \in {"none", "skipped", "skipped_gi", "passed", "failed", "error", "timeout"}
  /\ sgStack \in [SgParts -> SgVersions]
  /\ sgFiles \subseteq [part : SgParts, build : SgVersions]
  /\ sgPulling \in sgFiles \cup {SgNothing}
  /\ \A i \in DOMAIN sgTasks : sgTasks[i].at \in {"queued", "bare", "running", "succeeded", "failed"}

\* The images a call has sent, and how they were answered.
SentImages(t) == DOMAIN t.call.steps \cap SgParts
\* None was registered already, or downloaded for somebody else.
Alone(t) == \A c \in SentImages(t) :
  t.call.steps[c] # "registered" /\ Cardinality(t.call.before[c]) = 1

NothingSent(t) == DOMAIN t.call.steps \subseteq {"quiet", "show"}

\* A job that is done and has sent anything but its set-up has sent all of it,
\* and its pre-check has passed.  It has what it sent in the target stack, in the version of
\* its build (if the file's name tells one), also when a file was registered by
\* an earlier call, or by its own first try; the components it was not asked
\* for are as they were.  A download of somebody else that still runs when the
\* call begins is out of its hands.
StagedAsTold == \A k \in DOMAIN sgTold : LET t == sgTold[k]  o == sgOf.orders[t.call.nr] IN
  /\ t.state = "done" /\ ~NothingSent(t) =>
       /\ DOMAIN t.call.steps = ToSet(t.call.plan)
       /\ o.check /\ sgOf.mode = "deployed" => t.pre = "passed"
  /\ t.state = "done" => \A c \in SentImages(t) : Cardinality(t.call.before[c]) = 1 =>
       IF SgSite[o.build][c] = "named" THEN t.after[c] = o.build ELSE t.after[c] # SgAbsent
  /\ \A c \in SgParts \ ToSet(t.call.plan) : t.after[c] \in t.call.before[c]

\* "passed" is read from a pre-check that was not there before and succeeded;
\* if no other pre-check begins meanwhile it is the call's own, and if no file
\* was registered already or on its way, it has seen all images of the call.
VerdictIsOurs == \A k \in DOMAIN sgTold : LET t == sgTold[k] IN t.pre = "passed" =>
  /\ t.call.task > t.call.since /\ sgTasks[t.call.task].at = "succeeded"
  /\ (\A i \in t.call.since + 1 .. t.upTo : sgTasks[i].by = t.call.nr) =>
       /\ sgTasks[t.call.task].by = t.call.nr
       /\ Alone(t) =>
            \A c \in SentImages(t) : sgTasks[t.call.task].stack[c] = sgOf.orders[t.call.nr].build

\* "status: ok iff every step ran cleanly AND, when pre-check was requested AND
\* the box is deployed, Pre-check result == Succeeded" (tarload.py:963).
OkIsWhole == \A k \in DOMAIN sgTold : LET t == sgTold[k]  o == sgOf.orders[t.call.nr] IN
  t.state = "done" =>
    /\ ToSet(t.call.plan) = DOMAIN t.call.steps
    /\ o.check /\ sgOf.mode = "deployed" => t.pre = "passed"
=============================================================================

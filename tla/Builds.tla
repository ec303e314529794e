-------------------------------- MODULE Builds --------------------------------
(***************************************************************************)
(* `qactl jenkins`: trigger, watch, stop and artifacts of jenkins/tools.py,  *)
(* the front of jenkins/cli.py with its detached watch, and the REST client  *)
(* of jenkins/client.py.  Jenkins queues what is triggered, makes a build of *)
(* it or cancels it, and forgets the queued item; other people use it too.   *)
(* A watch polls the item and then the build, and tells Slack.               *)
(***************************************************************************)
EXTENDS Naturals, Sequences

CONSTANTS
  BdCallers,   \* the calls
  BdSettings   \* what a run lets happen, see BdSettingsOK

BdFaults == {"http", "refuse", "lose", "no location", "mute", "unsure", "no spawn"}
BdTools == {"trigger", "trigger_raw", "watch", "stop", "artifacts"}

\* A setting: what each call is, the faults, and (bounds) how many links a
\* build archives and how often other people trigger, cancel or stop a build.
\* An order with `own` comes with credentials the environment does not have.
BdSettingsOK == \A s \in BdSettings :
  /\ DOMAIN s.orders \subseteq BdCallers /\ s.faults \subseteq BdFaults /\ {s.others, s.links} \subseteq Nat
  /\ \A c \in DOMAIN s.orders :
       s.orders[c].tool \in BdTools /\ s.orders[c].by \in {"item", "number", "nothing"} /\ s.orders[c].of \in Nat

ASSUME BdAssumption == BdSettingsOK

VARIABLES
  bdSetting,  \* which of BdSettings this behaviour runs under
  items,      \* the queue of Jenkins; an item that has left names its build
  builds,     \* the builds, by number
  bdCall,     \* of each call: see BdTypeOK
  bdHits,     \* history: of each call, what it queued, cancelled or stopped
  others      \* what other people have done so far

bdVars == <<bdSetting, items, builds, bdCall, bdHits, others>>

Ordered(c) == bdSetting.orders[c]
BdFault(f) == f \in bdSetting.faults

\* There is a build already, whose other parameter somebody had changed.
BdInit ==
  /\ bdSetting \in BdSettings
  /\ items = <<>>
  /\ builds = <<[done |-> TRUE, result |-> "SUCCESS", links |-> bdSetting.links,
                 params |-> [flag |-> "no", other |-> "kept"]]>>
  /\ bdCall = [c \in DOMAIN bdSetting.orders |->
       [pc |-> "idle", item |-> 0, number |-> 0, params |-> [flag |-> "no", other |-> "default"], late |-> FALSE,
        detached |-> FALSE, told |-> "none", found |-> "none", posts |-> <<>>, warned |-> FALSE,
        listed |-> 0, links |-> <<>>]]
  /\ bdHits = [c \in DOMAIN bdSetting.orders |-> <<>>]
  /\ others = 0

BdMoves(c, next) == bdCall' = [bdCall EXCEPT ![c] = next]

\* The call is over; if it is a detached watch, its user was told before.
Ends(c, v) ==
  [bdCall[c] EXCEPT !.pc = "over", !.found = v, !.told = IF bdCall[c].detached THEN @ ELSE v]

JenkinsStays == UNCHANGED <<bdSetting, items, builds, bdHits, others>>

(***************************************************************************)
(* Triggering                                                               *)
(***************************************************************************)
\* confirm_or_exit: --yes will do; on a terminal the user is asked, and
\* without one the call is refused and never waits for an answer.
Confirmed(c) == Ordered(c).gate \in {"--yes", "asked, yes"}
Refused(c) == Ends(c, IF Ordered(c).gate = "asked, no" THEN "aborted by user" ELSE "confirmation_required")

TriggerChecked(c) ==
  IF ~Confirmed(c) THEN Refused(c)
  ELSE [bdCall[c] EXCEPT !.pc = IF Ordered(c).inherit THEN "inherit" ELSE "post"]

StopChecked(c) ==
  IF Ordered(c).by = "nothing" THEN Ends(c, "bad_argument")
  ELSE IF ~Confirmed(c) THEN Refused(c)
  ELSE [bdCall[c] EXCEPT !.pc = "stop"]

\* A watch by number goes to the build at once.
WatchChecked(c) ==
  IF Ordered(c).by = "nothing" THEN Ends(c, "error")
  ELSE IF Ordered(c).by = "item" THEN [bdCall[c] EXCEPT !.pc = "item", !.item = Ordered(c).of]
  ELSE [bdCall[c] EXCEPT !.pc = "build", !.number = Ordered(c).of]

Checked(c) ==
  CASE Ordered(c).tool \in {"trigger", "trigger_raw"} -> TriggerChecked(c)
    [] Ordered(c).tool = "stop" -> StopChecked(c)
    [] Ordered(c).tool = "watch" -> WatchChecked(c)
    [] OTHER -> [bdCall[c] EXCEPT !.pc = "meta"]

BdBegin(c) == bdCall[c].pc = "idle" /\ BdMoves(c, Checked(c)) /\ JenkinsStays

\* Fault: what is inherited wins over the flags of this call.
Params_InheritedLast(c, inherited) ==
  [flag |-> inherited.flag, other |-> IF Ordered(c).extra THEN "extra" ELSE inherited.other]

\* build_cheetah_params: the defaults, what is inherited, the flags of this
\* call, which are all given every time, and the parameters it names itself.
Params(c, inherited) ==
  [flag |-> Ordered(c).flag,
   other |-> IF Ordered(c).extra THEN "extra" ELSE inherited.other]

\* The parameters of the last build; without them the defaults will do.
Inherit(c) ==
  /\ bdCall[c].pc = "inherit"
  /\ \/ BdMoves(c, [bdCall[c] EXCEPT !.pc = "post", !.params = builds[Len(builds)].params])
     \/ BdFault("http") /\ BdMoves(c, [bdCall[c] EXCEPT !.pc = "post", !.warned = TRUE])
  /\ JenkinsStays

\* The command line leaves a watch behind a trigger that does not wait.
LeavesWatch(c) == Ordered(c).tool = "trigger" /\ Ordered(c).notify /\ ~Ordered(c).wait

\* Without --wait the user has the queued item.
Answered(c, i) ==
  IF Ordered(c).wait
  THEN IF i = 0 THEN Ends(c, "error") ELSE [bdCall[c] EXCEPT !.pc = "item", !.item = i]
  ELSE IF LeavesWatch(c) THEN [bdCall[c] EXCEPT !.pc = "detach", !.item = i, !.told = "ok"]
  ELSE [Ends(c, "ok") EXCEPT !.item = i]

\* Jenkins: a request like one that waits already is the same item.
Coalesced(p) == {i \in DOMAIN items : items[i].state = "waiting" /\ items[i].params = p}
ItemOf(p) == IF Coalesced(p) # {} THEN CHOOSE i \in Coalesced(p) : TRUE ELSE Len(items) + 1
Hits(c, kind, n) == bdHits' = [bdHits EXCEPT ![c] = Append(@, [kind |-> kind, n |-> n])]
Queued(c, p) ==
  /\ items' = IF Coalesced(p) # {} THEN items ELSE Append(items, [state |-> "waiting", build |-> 0, params |-> p])
  /\ Hits(c, "item", ItemOf(p))

\* The POST: Jenkins takes it and says where the item is, or does not say, or
\* its answer is lost; or it refuses.
Post(c) ==
  LET p == Params(c, bdCall[c].params) IN
  /\ bdCall[c].pc = "post"
  /\ \/ /\ Queued(c, p)
        /\ \/ BdMoves(c, Answered(c, ItemOf(p)))
           \/ BdFault("no location") /\ BdMoves(c, Answered(c, 0))
           \/ BdFault("lose") /\ BdMoves(c, Ends(c, "error"))
     \/ /\ BdFault("refuse") /\ BdMoves(c, Ends(c, "error"))
        /\ UNCHANGED <<items, bdHits>>
  /\ UNCHANGED <<bdSetting, builds, others>>

\* _spawn_detached_watch: the child takes its credentials from the
\* environment, whatever this call was given.
Detach(c) ==
  /\ bdCall[c].pc = "detach"
  /\ IF bdCall[c].item = 0 THEN BdMoves(c, [Ends(c, "ok") EXCEPT !.warned = TRUE])
     ELSE \/ BdFault("no spawn") /\ BdMoves(c, [Ends(c, "ok") EXCEPT !.warned = TRUE])
          \/ BdMoves(c, IF Ordered(c).own THEN [Ends(c, "ok") EXCEPT !.detached = TRUE, !.found = "bad_argument"]
                        ELSE [bdCall[c] EXCEPT !.pc = "item", !.detached = TRUE])
  /\ JenkinsStays

(***************************************************************************)
(* Watching                                                                 *)
(***************************************************************************)
\* slack_notify.post fails when it delivers nothing, and also when only its
\* answer is lost; it never raises.
Delivered(call, text) ==
  {[call EXCEPT !.posts = Append(@, text)]}
       \cup (IF BdFault("mute") THEN {[call EXCEPT !.warned = TRUE]} ELSE {})
       \cup (IF BdFault("unsure") THEN {[call EXCEPT !.posts = Append(@, text), !.warned = TRUE]} ELSE {})

\* What a message may come to; a failure is a warning.
Posted(call, c, text) == IF Ordered(c).notify THEN Delivered(call, text) ELSE {call}

WatchEnds(c, v, text) == \E next \in Posted(Ends(c, v), c, text) : BdMoves(c, next)

\* A GET that fails ends the watch, with a message to its caller only.
Raises(c) == BdMoves(c, Ends(c, "error"))

\* An item Jenkins never had is one it has forgotten.
StateOf(i) == IF i \in DOMAIN items THEN items[i].state ELSE "forgotten"

\* wait_for_build_number; the time for the build starts when it has begun.
AwaitItem(c) ==
  LET i == bdCall[c].item IN
  /\ bdCall[c].pc = "item"
  /\ IF bdCall[c].late THEN WatchEnds(c, "not started", "not started")
     ELSE \/ StateOf(i) = "cancelled" /\ WatchEnds(c, "aborted", "not started")
          \/ /\ StateOf(i) = "left"
             /\ \E next \in Posted([bdCall[c] EXCEPT !.pc = "build", !.number = items[i].build], c, "started") :
                  BdMoves(c, next)
          \/ (StateOf(i) = "forgotten" \/ BdFault("http")) /\ Raises(c)
  /\ JenkinsStays

\* Fault: a build with a result is taken for finished.
Finished_Early(n) == builds[n].result # "none"

Finished(n) == builds[n].done /\ builds[n].result # "none"

Gone(n) == n \notin DOMAIN builds

\* wait_for_build_result.
AwaitBuild(c) ==
  LET n == bdCall[c].number IN
  /\ bdCall[c].pc = "build"
  /\ \/ bdCall[c].late /\ WatchEnds(c, "still running", "still running")
     \/ /\ ~bdCall[c].late /\ ~Gone(n) /\ Finished(n)
        /\ IF builds[n].result = "SUCCESS" THEN WatchEnds(c, "ok", "success") ELSE WatchEnds(c, "failed", "failure")
     \/ ~bdCall[c].late /\ (Gone(n) \/ BdFault("http")) /\ Raises(c)
  /\ JenkinsStays

\* The time of a wait is over; another begins with the build.
BdDeadline(c) ==
  /\ bdCall[c].pc \in {"item", "build"} /\ ~bdCall[c].late
  /\ BdMoves(c, [bdCall[c] EXCEPT !.late = TRUE]) /\ JenkinsStays

(***************************************************************************)
(* Stopping, and the links of a build                                       *)
(***************************************************************************)
\* What the POST does in Jenkins: an item that waits is cancelled, a build
\* that runs is aborted, and anything else stays as it is.
Waits(i) == i \in DOMAIN items /\ items[i].state = "waiting"
Runs(n) == n \in DOMAIN builds /\ ~builds[n].done
Cancel(i) == Waits(i) /\ items' = [items EXCEPT ![i].state = "cancelled"] /\ UNCHANGED builds
Abort(n) ==
  /\ Runs(n) /\ UNCHANGED items
  /\ builds' = [builds EXCEPT ![n].done = TRUE, ![n].result = "ABORTED"]

CanHit(by, n) == IF by = "item" THEN Waits(n) ELSE Runs(n)

\* jenkins_stop: the answer of Jenkins is passed on as a status code, and the
\* call is ok whatever it is.
Stop(c) ==
  /\ bdCall[c].pc = "stop"
  /\ \/ /\ IF Ordered(c).by = "item" THEN Cancel(Ordered(c).of) ELSE Abort(Ordered(c).of)
        /\ Hits(c, Ordered(c).by, Ordered(c).of)
     \/ /\ BdFault("refuse") \/ BdFault("lose") \/ ~CanHit(Ordered(c).by, Ordered(c).of)
        /\ UNCHANGED <<items, builds, bdHits>>
  /\ \E v \in {"ok"} \cup IF BdFault("lose") THEN {"error"} ELSE {} : BdMoves(c, Ends(c, v))
  /\ UNCHANGED <<bdSetting, others>>

\* get_build_artifacts: the build that is asked for, or the last one.
Meta(c) ==
  LET n == IF Ordered(c).by = "number" THEN Ordered(c).of ELSE Len(builds) IN
  /\ bdCall[c].pc = "meta"
  /\ IF n \in DOMAIN builds
     THEN \/ BdMoves(c, [bdCall[c] EXCEPT !.pc = "links", !.number = n, !.listed = builds[n].links])
          \/ BdFault("http") /\ BdMoves(c, Ends(c, "error"))
     ELSE BdMoves(c, Ends(c, "error"))
  /\ JenkinsStays

\* Fault: the links are read from the last build again.
ReadFrom_Last(c) == Len(builds)

\* Each file is read at the address of the build that was looked up.
ReadFrom(c) == bdCall[c].number

\* The files that were listed are read in turn, and one that fails is a
\* warning; without any link there is a warning too.
Links(c) ==
  LET call == bdCall[c]
      read == Len(call.links)
      n == ReadFrom(c) IN
  /\ call.pc = "links"
  /\ IF read = call.listed
     THEN BdMoves(c, [Ends(c, "ok") EXCEPT !.warned = @ \/ \A i \in DOMAIN call.links : call.links[i] = 0])
     ELSE \/ BdMoves(c, [call EXCEPT !.links = Append(@, n)])
          \/ BdFault("http") /\ BdMoves(c, [call EXCEPT !.links = Append(@, 0), !.warned = TRUE])
  /\ JenkinsStays

BdCaller(c) ==
  \/ BdBegin(c) \/ Inherit(c) \/ Post(c) \/ Detach(c) \/ AwaitItem(c) \/ AwaitBuild(c)
  \/ BdDeadline(c) \/ Stop(c) \/ Meta(c) \/ Links(c)

(***************************************************************************)
(* Jenkins, and the other people who use it                                 *)
(***************************************************************************)
NewBuild(p) == [done |-> FALSE, result |-> "none", links |-> 0, params |-> p]

\* An item leaves the queue as a build.
Leave(i) ==
  /\ items[i].state = "waiting"
  /\ items' = [items EXCEPT ![i].state = "left", ![i].build = Len(builds) + 1]
  /\ builds' = Append(builds, NewBuild(items[i].params))

ForgetItem(i) ==
  /\ items[i].state = "left" /\ UNCHANGED builds
  /\ items' = [items EXCEPT ![i].state = "forgotten"]

\* A build archives a link, comes to a result, and is done some time later;
\* until then a success may turn into a failure.
Progress(n) ==
  /\ ~builds[n].done /\ UNCHANGED items
  /\ \/ builds[n].links < bdSetting.links /\ builds' = [builds EXCEPT ![n].links = @ + 1]
     \/ /\ builds[n].result = "none"
        /\ \E r \in {"SUCCESS", "FAILURE"} : builds' = [builds EXCEPT ![n].result = r]
     \/ /\ builds[n].result # "none"
        /\ \E r \in {builds[n].result, "FAILURE"} : builds' = [builds EXCEPT ![n].result = r, ![n].done = TRUE]

Jenkins ==
  /\ \/ \E i \in DOMAIN items : Leave(i) \/ ForgetItem(i)
     \/ \E n \in DOMAIN builds : Progress(n)
  /\ UNCHANGED <<bdSetting, bdCall, bdHits, others>>

OtherPeople ==
  /\ others < bdSetting.others /\ others' = others + 1
  /\ \/ builds' = Append(builds, NewBuild([flag |-> "no", other |-> "default"])) /\ UNCHANGED items
     \/ \E i \in DOMAIN items : Cancel(i)
     \/ \E n \in DOMAIN builds : Abort(n)
  /\ UNCHANGED <<bdSetting, bdCall, bdHits>>

BdNext == Jenkins \/ OtherPeople \/ \E c \in DOMAIN bdCall : BdCaller(c)

BdSpec == BdInit /\ [][BdNext]_bdVars

BdFairness == \A c \in BdCallers : WF_bdVars(c \in DOMAIN bdCall /\ BdCaller(c))

-----------------------------------------------------------------------------
BdTypeOK ==
  /\ \A i \in DOMAIN items : items[i].state \in {"waiting", "left", "cancelled", "forgotten"} /\ items[i].build \in Nat
  /\ \A n \in DOMAIN builds :
       /\ builds[n].result \in {"none", "SUCCESS", "FAILURE", "ABORTED"} /\ builds[n].links \in 0 .. bdSetting.links
       /\ builds[n].done => builds[n].result # "none"
  /\ \A c \in DOMAIN bdCall :
       /\ bdCall[c].pc \in {"idle", "inherit", "post", "detach", "item", "build", "stop", "meta", "links", "over"}
       /\ {bdCall[c].item, bdCall[c].number, bdCall[c].listed} \subseteq Nat
       /\ {bdCall[c].late, bdCall[c].detached, bdCall[c].warned} \subseteq BOOLEAN
       /\ (bdCall[c].pc = "over") = (bdCall[c].found # "none")

Watched(c) == bdCall[c].number # 0 /\ Ordered(c).tool \in {"trigger", "trigger_raw", "watch"}

\* A watch follows the build its item became, and says of it what is so.
WatchIsTrue(c) ==
  LET n == bdCall[c].number IN
  /\ Watched(c) /\ bdCall[c].found = "ok" => builds[n].done /\ builds[n].result = "SUCCESS"
  /\ bdCall[c].found = "failed" => builds[n].done /\ builds[n].result # "SUCCESS"
  /\ bdCall[c].found = "aborted" => items[bdCall[c].item].state = "cancelled"
  /\ Watched(c) /\ bdCall[c].item # 0 => items[bdCall[c].item].build = n

\* The messages that belong to a call: that its build has started, and what
\* became of it.
TextOf(v) ==
  CASE v = "ok" -> <<"success">> [] v = "failed" -> <<"failure">> [] v = "still running" -> <<v>>
    [] v \in {"not started", "aborted"} -> <<"not started">> [] OTHER -> <<>>
Started(c) == IF bdCall[c].item # 0 /\ bdCall[c].number # 0 THEN <<"started">> ELSE <<>>
Outcome(c) == IF Watched(c) \/ bdCall[c].found # "ok" THEN TextOf(bdCall[c].found) ELSE <<>>

\* Slack is told those, each once and in order; one that is missing was a
\* warning, which only an answer of ok carries.
SlackIsTold(c) ==
  /\ ~Ordered(c).notify => bdCall[c].posts = <<>>
  /\ Ordered(c).notify =>
       \E m \in {<<>>, Started(c)}, n \in {<<>>, Outcome(c)} :
         bdCall[c].posts = m \o n /\ (bdCall[c].warned \/ (m = Started(c) /\ n = Outcome(c)))

\* A call queues one item with the flags it was given, and with what a build
\* had or the default of the rest, or stops the one thing it names, and only
\* after confirm.
ActsAsAsked(c) ==
  /\ bdHits[c] # <<>> => Ordered(c).gate \in {"--yes", "asked, yes"} /\ Len(bdHits[c]) = 1
  /\ \A k \in DOMAIN bdHits[c] :
       LET hit == bdHits[c][k]
           p == items[hit.n].params IN
       IF Ordered(c).tool = "stop" THEN hit = [kind |-> Ordered(c).by, n |-> Ordered(c).of]
       ELSE /\ p.flag = Ordered(c).flag
            /\ IF Ordered(c).extra THEN p.other = "extra"
               ELSE p.other = "default" \/ (Ordered(c).inherit /\ \E n \in DOMAIN builds : p.other = builds[n].params.other)
  /\ Ordered(c).tool \in {"trigger", "trigger_raw"} /\ bdCall[c].told = "ok" => bdHits[c] # <<>>

\* The links of an answer are of the one build it names, and without a
\* warning they are all it had.
LinksAreOne(c) ==
  /\ \A i \in DOMAIN bdCall[c].links : bdCall[c].links[i] \in {0, bdCall[c].number}
  /\ Ordered(c).tool = "artifacts" /\ bdCall[c].found = "ok" /\ ~bdCall[c].warned =>
       Len(bdCall[c].links) = bdCall[c].listed /\ bdCall[c].listed > 0

\* What `qactl jenkins` does and says of builds is so, whatever Jenkins, Slack
\* and other people do meanwhile (jenkins/tools.py, jenkins/client.py).
BuildsAreTold ==
  \A c \in DOMAIN bdCall : WatchIsTrue(c) /\ SlackIsTold(c) /\ ActsAsAsked(c) /\ LinksAreOne(c)

BdQuiet == \A c \in DOMAIN bdCall : bdCall[c].pc = "over"
=============================================================================

----------------------------- MODULE TarLoadJobs -----------------------------
(***************************************************************************)
(* Tar-load and pre-check jobs on one device: tools/tarload.py over         *)
(* core/jobs.py (the JobRegistry of one process) and core/job_store.py (one *)
(* JSON envelope per job, shared by all processes).                         *)
(*                                                                         *)
(* A job is kicked off in the MCP server (its worker is a thread there), in *)
(* a blocking CLI process (which is the worker), or by `--no-wait` (a       *)
(* forked child is the worker).  Status readers and later kickoffs judge a *)
(* job they did not start by its envelope and the pid in it.                *)
(***************************************************************************)
EXTENDS Naturals, Sequences, FiniteSets

CONSTANTS Jobs,      \* kickoff requests
          Readers,   \* processes that run `tar-load show` once
          Images,    \* tar files of the build
          PreCheck,  \* the command that starts a pre-check
          Requests,  \* for a job, the fronts it may come from, with the
                     \* commands it sends: loads, then a pre-check if asked for
          Server,    \* the pid of the MCP server
          None

ASSUME TarLoadAssumption ==
  /\ \A j \in Jobs : \A q \in Requests[j] :
       /\ q.front \in {"server", "block", "detach"}
       /\ q.plan \in Seq(Images \cup {PreCheck}) \ {<<>>}
       /\ q.front = "detach" => q.plan[1] # PreCheck
  /\ Server \notin Jobs /\ None \notin Jobs \cup Images \cup {Server}
  /\ PreCheck \notin Images
  /\ Readers \cap Jobs = {}

Active   == {"loading", "precheck"}
Terminal == {"done", "error", "timeout"}

\* The JSON file of a job: its state, the pid of its worker, and whether every
\* command was sent.
Envelopes == [job : Jobs, state : Active \cup Terminal, pid : Jobs \cup {Server},
              whole : BOOLEAN]

ASSUME NoneIsNoEnvelope == None \notin Envelopes

VARIABLES
  front, plan,              \* the request: where it runs and its commands
  kick,      \* where its kickoff, or a reader, stands
  work,      \* where its worker stands
  at, attempt,              \* next command, and the try of run_sequence
  flagged,   \* images the device called "already registered"
  outcome,   \* overall_status of the worker
  seen,      \* the envelope a kickoff or a reader has read
  slot,      \* registry._active of the server for this device
  up,        \* the server process runs
  store,     \* the envelopes on disk
  newest,    \* the job whose file was written last
  image,     \* the device: "absent", "registered" or "staged", per image
  download   \* the image the device is downloading

askVars  == <<front, plan>>
workVars == <<work, at, attempt, flagged, outcome>>
diskVars == <<store, newest>>
boxVars  == <<image, download>>
vars == <<front, plan, kick, work, at, attempt, flagged, outcome,
          seen, slot, up, store, newest, image, download>>

\* The pid recorded for a job: the server's, the blocking CLI process's or the
\* forked child's.
Pid(j) == IF front[j] = "server" THEN Server ELSE j

Working(j) == work[j] \notin {"none", "over"}

\* _pid_alive; pids are not recycled.
PidAlive(p) == IF p = Server THEN up ELSE Working(p)

AllSent(j) == at[j] > Len(plan[j])

\* A done envelope lists the commands that were not sent as "skipped".
Envelope(j, s) ==
  [job |-> j, state |-> s, pid |-> Pid(j), whole |-> s = "done" /\ AllSent(j)]

Init ==
  /\ front = [j \in Jobs |-> "block"]
  /\ plan = [j \in Jobs |-> <<>>]
  /\ kick = [x \in Jobs \cup Readers |-> "idle"]
  /\ work = [j \in Jobs |-> "none"]
  /\ at = [j \in Jobs |-> 1]
  /\ attempt = [j \in Jobs |-> 1]
  /\ flagged = [j \in Jobs |-> {}]
  /\ outcome = [j \in Jobs |-> "ok"]
  /\ seen = [x \in Jobs \cup Readers |-> None]
  /\ slot = None /\ up = TRUE
  /\ store = [j \in Jobs |-> None]
  /\ newest = None
  /\ image = [i \in Images |-> "absent"]
  /\ download = None

-----------------------------------------------------------------------------
(* The envelope store.                                                     *)

\* job_store.save: an atomic replace, which makes the file the newest.
Save(e) ==
  /\ store' = [store EXCEPT ![e.job] = e]
  /\ newest' = e.job

\* latest_for_device
Latest == IF newest = None THEN None ELSE store[newest]

Unfinished(e) == e # None /\ e.state \in Active

\* _mark_orphaned: whatever the reader has read, as an error.
MarkOrphaned(e) == Save([e EXCEPT !.state = "error"])

-----------------------------------------------------------------------------
(* request_system_tar_load and request_system_pre_check.                   *)

InCall == {"read", "judge", "launch", "snapshot"}

\* The tools of the server run one at a time, on its event-loop thread.
ServerFree == \A j \in Jobs : front[j] = "server" => kick[j] \notin InCall

\* Fault: the registry is not asked for the active job.
CheckMemory_Skips(j, q) ==
  /\ kick[j] = "idle"
  /\ q.front = "server" => up /\ ServerFree
  /\ front' = [front EXCEPT ![j] = q.front]
  /\ plan' = [plan EXCEPT ![j] = q.plan]
  /\ kick' = [kick EXCEPT ![j] = "read"]
  /\ UNCHANGED <<workVars, seen, slot, up, diskVars, boxVars>>

\* The claim, first half: active_for_device of this process's registry.
CheckMemory(j, q) ==
  /\ kick[j] = "idle"
  /\ q.front = "server" => up /\ ServerFree
  /\ front' = [front EXCEPT ![j] = q.front]
  /\ plan' = [plan EXCEPT ![j] = q.plan]
  /\ kick' = [kick EXCEPT ![j] =
                IF q.front = "server" /\ slot # None THEN "refused" ELSE "read"]
  /\ UNCHANGED <<workVars, seen, slot, up, diskVars, boxVars>>

ReadLatest(j) ==
  /\ kick[j] = "read"
  /\ seen' = [seen EXCEPT ![j] = Latest]
  /\ kick' = [kick EXCEPT ![j] = "judge"]
  /\ UNCHANGED <<askVars, workVars, slot, up, diskVars, boxVars>>

\* The second half, _persisted_active_conflict: another live process is
\* loading, or the envelope it has read is stale and is marked.  The job is
\* registered; a message to Slack follows before anything of it is on disk.
JudgeLatest(j) ==
  LET e == seen[j] IN
  /\ kick[j] = "judge"
  /\ seen' = [seen EXCEPT ![j] = None]
  /\ IF Unfinished(e) /\ e.pid # Pid(j) /\ PidAlive(e.pid)
     THEN kick' = [kick EXCEPT ![j] = "refused"] /\ UNCHANGED <<slot, diskVars>>
     ELSE /\ kick' = [kick EXCEPT ![j] = "launch"]
          /\ slot' = IF front[j] = "server" THEN j ELSE slot
          /\ IF Unfinished(e) THEN MarkOrphaned(e) ELSE UNCHANGED diskVars
  /\ UNCHANGED <<askVars, workVars, up, boxVars>>

\* Start the worker thread, or fork a child that waits on the pipe.
Launch(j) ==
  /\ kick[j] = "launch"
  /\ kick' = [kick EXCEPT ![j] = IF front[j] = "detach" THEN "snapshot" ELSE "over"]
  /\ work' = [work EXCEPT ![j] = "start"]
  /\ UNCHANGED <<askVars, at, attempt, flagged, outcome, seen, slot, up, diskVars,
                 boxVars>>

\* The parent saves its view of the job, then closes the pipe.
Snapshot(j) ==
  /\ kick[j] = "snapshot"
  /\ Save(Envelope(j, "loading"))
  /\ kick' = [kick EXCEPT ![j] = "over"]
  /\ UNCHANGED <<askVars, workVars, seen, slot, up, boxVars>>

-----------------------------------------------------------------------------
(* _tar_load_worker.                                                       *)

\* The local variables of the workers S are gone.
Forget(S) ==
  /\ at' = [j \in Jobs |-> IF j \in S THEN 1 ELSE at[j]]
  /\ attempt' = [j \in Jobs |-> IF j \in S THEN 1 ELSE attempt[j]]
  /\ flagged' = [j \in Jobs |-> IF j \in S THEN {} ELSE flagged[j]]
  /\ outcome' = [j \in Jobs |-> IF j \in S THEN "ok" ELSE outcome[j]]

WorkGoto(j, l) == work' = [work EXCEPT ![j] = l]

\* Fault: the child does not wait for the pipe.
Woken_Always(j) == TRUE

\* The child of a fork waits until its parent closes the pipe or is gone.
Woken(j) == kick[j] # "snapshot"

\* Fault: the envelope is first saved with the first reply.
SaveStart_Late(j) ==
  /\ work[j] = "start" /\ Woken(j)
  /\ WorkGoto(j, "drive")
  /\ UNCHANGED <<askVars, kick, at, attempt, flagged, outcome, seen, slot, up,
                 diskVars, boxVars>>

SaveStart(j) ==
  /\ work[j] = "start" /\ Woken(j)
  /\ Save(Envelope(j, "loading"))
  /\ WorkGoto(j, "drive")
  /\ UNCHANGED <<askVars, kick, at, attempt, flagged, outcome, seen, slot, up,
                 boxVars>>

\* The command to send; those of the set-up (no questions, and the snapshot of
\* the last pre-check task) come first and are no steps of the job.
Command(j) == plan[j][at[j]]

\* The stop predicate saves the progress and goes on after a clean step, or
\* ends the sequence.
StepClean(j) ==
  /\ at' = [at EXCEPT ![j] = @ + 1]
  /\ WorkGoto(j, IF at[j] = Len(plan[j]) THEN "verify" ELSE "drive")
  /\ Save(Envelope(j, "loading"))
  /\ UNCHANGED outcome

StepFails(j) ==
  /\ outcome' = [outcome EXCEPT ![j] = "error"]
  /\ WorkGoto(j, "verify")
  /\ Save(Envelope(j, "loading"))
  /\ UNCHANGED at

\* A command of the set-up times out, or the snapshot reports an error: the
\* sequence is over, which counts as no failure.
SetUpFails(j) ==
  /\ work[j] = "drive" /\ at[j] = 1
  /\ WorkGoto(j, "verify")
  /\ UNCHANGED <<askVars, kick, at, attempt, flagged, outcome, seen, slot, up, diskVars,
                 boxVars>>

\* `target-stack load`: the device starts the download, ...
LoadStarts(j) ==
  /\ work[j] = "drive" /\ Command(j) # PreCheck
  /\ image[Command(j)] = "absent" /\ download = None
  /\ image' = [image EXCEPT ![Command(j)] = "registered"]
  /\ download' = Command(j)
  /\ WorkGoto(j, "wait")
  /\ UNCHANGED <<askVars, kick, at, attempt, flagged, outcome, seen, slot, up, diskVars>>

\* ... knows the file already, ...
LoadKnown(j) ==
  /\ work[j] = "drive" /\ Command(j) # PreCheck
  /\ image[Command(j)] # "absent"
  /\ flagged' = [flagged EXCEPT ![j] = @ \cup {Command(j)}]
  /\ StepClean(j)
  /\ UNCHANGED <<askVars, kick, attempt, seen, slot, up, boxVars>>

\* ... or is busy with another one.
LoadBusy(j) ==
  /\ work[j] = "drive" /\ Command(j) # PreCheck
  /\ image[Command(j)] = "absent" /\ download # None
  /\ StepFails(j)
  /\ UNCHANGED <<askVars, kick, attempt, flagged, seen, slot, up, boxVars>>

SendLoad(j) == LoadStarts(j) \/ LoadKnown(j) \/ LoadBusy(j)

\* The reply to a load that was started.
LoadReply(j) ==
  /\ work[j] = "wait" /\ download # Command(j)
  /\ IF image[Command(j)] = "staged" THEN StepClean(j) ELSE StepFails(j)
  /\ UNCHANGED <<askVars, kick, attempt, flagged, seen, slot, up, boxVars>>

SendPreCheck(j) ==
  /\ work[j] = "drive" /\ Command(j) = PreCheck
  /\ StepClean(j) \/ StepFails(j)
  /\ UNCHANGED <<askVars, kick, attempt, flagged, seen, slot, up, boxVars>>

\* No prompt within step_timeout: the sequence ends, the download may go on.
StepTimeout(j) ==
  /\ work[j] = "wait" \/ (work[j] = "drive" /\ Command(j) = PreCheck)
  /\ outcome' = [outcome EXCEPT ![j] = "timeout"]
  /\ WorkGoto(j, "verify")
  /\ UNCHANGED <<askVars, kick, at, attempt, flagged, seen, slot, up, diskVars,
                 boxVars>>

\* The transport breaks: run_sequence starts over, ...
StartOver(j) ==
  /\ work[j] \in {"drive", "wait"} /\ attempt[j] = 1
  /\ attempt' = [attempt EXCEPT ![j] = 2]
  /\ at' = [at EXCEPT ![j] = 1]
  /\ flagged' = [flagged EXCEPT ![j] = {}]
  /\ WorkGoto(j, "drive")
  /\ UNCHANGED <<askVars, kick, outcome, seen, slot, up, diskVars, boxVars>>

\* ... and raises the second time.  A ConnectError raises at once.
GiveUp(j) ==
  /\ work[j] \in {"drive", "wait"}
  /\ attempt[j] = 2 \/ (work[j] = "drive" /\ at[j] = 1)
  /\ outcome' = [outcome EXCEPT ![j] = "error"]
  /\ flagged' = [flagged EXCEPT ![j] = {}]
  /\ WorkGoto(j, "finish")
  /\ UNCHANGED <<askVars, kick, at, attempt, seen, slot, up, diskVars, boxVars>>

Break(j) == StartOver(j) \/ GiveUp(j)

\* Fault: "already registered" is taken for staged.
Verified_Trusts(j) == TRUE

\* _verify_already_registered: a registration alone proves nothing, `show
\* system stack` has to list the image.
Verified(j) == \A i \in flagged[j] : image[i] = "staged"

Blame(j, how) == IF outcome[j] = "ok" THEN how ELSE outcome[j]

\* A probe that fails leaves a flagged image unverified.
Verify(j) ==
  /\ work[j] = "verify"
  /\ \/ Verified(j) /\ UNCHANGED outcome
     \/ flagged[j] # {} /\ outcome' = [outcome EXCEPT ![j] = Blame(j, "error")]
  /\ IF AllSent(j) /\ plan[j][Len(plan[j])] = PreCheck
     THEN /\ WorkGoto(j, "poll")
          /\ Save(Envelope(j, "precheck"))
     ELSE /\ WorkGoto(j, "finish")
          /\ UNCHANGED diskVars
  /\ UNCHANGED <<askVars, kick, at, attempt, flagged, seen, slot, up, boxVars>>

\* _poll_tar_pre_check ends with a verdict, an error or at its deadline.
PollEnds(j) ==
  /\ work[j] = "poll"
  /\ \E v \in {"ok", "error", "timeout"} :
       outcome' = [outcome EXCEPT ![j] = Blame(j, v)]
  /\ WorkGoto(j, "finish")
  /\ UNCHANGED <<askVars, kick, at, attempt, flagged, seen, slot, up, diskVars,
                 boxVars>>

\* Fault: the device slot is only released after a clean run.
Finish_KeepsSlot(j) ==
  /\ work[j] = "finish"
  /\ slot' = IF slot = j /\ outcome[j] = "ok" THEN None ELSE slot
  /\ WorkGoto(j, "save")
  /\ UNCHANGED <<askVars, kick, at, attempt, flagged, outcome, seen, up, diskVars,
                 boxVars>>

\* registry.finish: the state in memory is terminal, the slot is free.
Finish(j) ==
  /\ work[j] = "finish"
  /\ slot' = IF slot = j THEN None ELSE slot
  /\ WorkGoto(j, "save")
  /\ UNCHANGED <<askVars, kick, at, attempt, flagged, outcome, seen, up, diskVars,
                 boxVars>>

\* Fault: the outcome is saved as the state.
SaveTerminal_Raw(j) ==
  /\ work[j] = "save"
  /\ Save(Envelope(j, outcome[j]))
  /\ WorkGoto(j, "over")
  /\ Forget({j})
  /\ UNCHANGED <<askVars, kick, seen, slot, up, boxVars>>

\* The terminal envelope; then the thread, or its process, ends.
SaveTerminal(j) ==
  /\ work[j] = "save"
  /\ Save(Envelope(j, IF outcome[j] = "ok" THEN "done" ELSE outcome[j]))
  /\ WorkGoto(j, "over")
  /\ Forget({j})
  /\ UNCHANGED <<askVars, kick, seen, slot, up, boxVars>>

-----------------------------------------------------------------------------
(* get_tar_load_job in another process, by job id or for the latest one.   *)

Show(r) ==
  /\ kick[r] = "idle"
  /\ \E e \in {store[j] : j \in Jobs} :
       seen' = [seen EXCEPT ![r] = e]
  /\ kick' = [kick EXCEPT ![r] = "judge"]
  /\ UNCHANGED <<askVars, workVars, slot, up, diskVars, boxVars>>

Answer(r) ==
  LET e == seen[r] IN
  /\ kick[r] = "judge"
  /\ IF Unfinished(e) /\ ~PidAlive(e.pid) THEN MarkOrphaned(e) ELSE UNCHANGED diskVars
  /\ seen' = [seen EXCEPT ![r] = None]
  /\ kick' = [kick EXCEPT ![r] = "over"]
  /\ UNCHANGED <<askVars, workVars, slot, up, boxVars>>

-----------------------------------------------------------------------------
(* Processes are killed, and the device goes on by itself.                 *)

\* The kickoffs S end where they are, and the workers S.
KillCalls(S) ==
  /\ kick' = [x \in Jobs \cup Readers |->
                IF x \in S /\ kick[x] \in InCall THEN "over" ELSE kick[x]]
  /\ seen' = [x \in Jobs \cup Readers |-> IF x \in S THEN None ELSE seen[x]]
KillWorkers(S) ==
  /\ work' = [j \in Jobs |-> IF j \in S /\ Working(j) THEN "over" ELSE work[j]]
  /\ Forget(S)

KillServer ==
  /\ up
  /\ up' = FALSE /\ slot' = None
  /\ LET S == {j \in Jobs : front[j] = "server"} IN KillCalls(S) /\ KillWorkers(S)
  /\ UNCHANGED <<askVars, diskVars, boxVars>>

KillBlocking(j) ==
  /\ front[j] = "block" /\ (kick[j] \in InCall \/ Working(j))
  /\ KillCalls({j}) /\ KillWorkers({j})
  /\ UNCHANGED <<askVars, slot, up, diskVars, boxVars>>

\* A detached worker outlives the process that forked it.
KillParent(j) ==
  /\ front[j] = "detach" /\ kick[j] \in InCall
  /\ KillCalls({j})
  /\ UNCHANGED <<askVars, workVars, slot, up, diskVars, boxVars>>

KillChild(j) ==
  /\ front[j] = "detach" /\ Working(j)
  /\ KillWorkers({j})
  /\ UNCHANGED <<askVars, kick, seen, slot, up, diskVars, boxVars>>

\* The download ends: staged, or failed with or without its registration left.
DownloadEnds ==
  /\ download # None
  /\ \E s \in {"staged", "registered", "absent"} :
       image' = [image EXCEPT ![download] = s]
  /\ download' = None
  /\ UNCHANGED <<askVars, workVars, kick, seen, slot, up, diskVars>>

-----------------------------------------------------------------------------
Kickoff(j) == ReadLatest(j) \/ JudgeLatest(j) \/ Launch(j) \/ Snapshot(j)

Worker(j) ==
  \/ SaveStart(j) \/ SetUpFails(j) \/ SendLoad(j) \/ LoadReply(j) \/ SendPreCheck(j)
  \/ StepTimeout(j) \/ Break(j) \/ Verify(j) \/ PollEnds(j)
  \/ Finish(j) \/ SaveTerminal(j)

Kill == KillServer \/ \E j \in Jobs : KillBlocking(j) \/ KillParent(j) \/ KillChild(j)

Stopped == /\ \A x \in Jobs \cup Readers :
                kick[x] \in {"over", "refused"} \/ (kick[x] = "idle" /\ x \in Jobs /\ ~up)
           /\ \A j \in Jobs : ~Working(j)

Next ==
  \/ \E j \in Jobs : (\E q \in Requests[j] : CheckMemory(j, q)) \/ Kickoff(j) \/ Worker(j)
  \/ \E r \in Readers : Show(r) \/ Answer(r)
  \/ Kill \/ DownloadEnds
  \/ Stopped /\ UNCHANGED vars

Spec == Init /\ [][Next]_vars

\* A kickoff and a worker that are not killed go on: every command, poll and
\* download they wait for has a deadline.
TarLoadFairness == \A j \in Jobs : WF_vars(Kickoff(j)) /\ WF_vars(Worker(j))

-----------------------------------------------------------------------------
\* The types of the variables.
TypeOK ==
  /\ front \in [Jobs -> {"server", "block", "detach"}]
  /\ plan \in [Jobs -> Seq(Images \cup {PreCheck})]
  /\ kick \in [Jobs \cup Readers -> InCall \cup {"idle", "over", "refused"}]
  /\ work \in [Jobs -> {"none", "start", "drive", "wait", "verify", "poll",
                        "finish", "save", "over"}]
  /\ at \in [Jobs -> Nat \ {0}] /\ attempt \in [Jobs -> {1, 2}]
  /\ flagged \in [Jobs -> SUBSET Images]
  /\ outcome \in [Jobs -> {"ok", "error", "timeout"}]
  /\ seen \in [Jobs \cup Readers -> Envelopes \cup {None}]
  /\ slot \in Jobs \cup {None} /\ up \in BOOLEAN
  /\ store \in [Jobs -> Envelopes \cup {None}]
  /\ \A j \in Jobs : store[j] # None => store[j].job = j
  /\ newest \in Jobs \cup {None}
  /\ image \in [Images -> {"absent", "registered", "staged"}]
  /\ download \in Images \cup {None}

Driving(j) == work[j] \in {"drive", "wait", "verify", "poll"}

\* "Enforces one active job per device at a time" (jobs.py:65): no two jobs of
\* the server drive the device at once.
ServerOneLoad == \A i, j \in Jobs :
  (Driving(i) /\ Driving(j) /\ front[i] = "server" /\ front[j] = "server") => i = j

\* A worker that drives the device is on disk as unfinished and alive, whoever
\* reads, marks or kicks off at the time: others can find out about it.
LiveIsVisible == \A j \in Jobs :
  Driving(j) => Unfinished(store[j]) /\ store[j].pid = Pid(j)

Rank(e) == IF e = None THEN 0 ELSE IF e.state = "loading" THEN 1
           ELSE IF e.state = "precheck" THEN 2 ELSE 3

\* What is on disk of a job never goes back, from finished to loading or from
\* pre-check to loading: parent, child and readers write one file in order.
NeverRegresses == [][\A j \in Jobs : Rank(store'[j]) >= Rank(store[j])]_vars

\* A job that is "done" on disk, with no command skipped, has every image it
\* was asked for staged, after retries, other people's downloads and stale
\* registrations.  (One whose set-up failed is done too: Staging!OkIsWhole.)
DoneIsStaged == \A j \in Jobs :
  (store[j] # None /\ store[j].state = "done" /\ store[j].whole) =>
    \A n \in DOMAIN plan[j] : plan[j][n] # PreCheck => image[plan[j][n]] = "staged"

\* _mark_orphaned: "Flip a persisted non-terminal envelope whose worker process
\* died" (tarload.py:485): a job that was "done" on disk stays so.
DoneStays == [][\A j \in Jobs :
  (store[j] # None /\ store[j].state = "done") => store'[j].state = "done"]_vars
=============================================================================

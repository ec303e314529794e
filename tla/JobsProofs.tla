------------------------------ MODULE JobsProofs ------------------------------
(***************************************************************************)
(* What the jobs beside the tar loads promise, for any number of jobs,      *)
(* devices and captures, any schedule and any number of deaths: that        *)
(* `orc show` tells the truth (Orchestrator), that a tech-support which is   *)
(* done is its own and fresh (TechSupport), that a capture which is ok has   *)
(* landed what it took (Capture), and that what is done and said of builds   *)
(* of Jenkins is so (Builds).                                               *)
(***************************************************************************)
EXTENDS Orchestrator, TechSupport, Capture, Builds, SequenceTheorems, TLAPS

-----------------------------------------------------------------------------
(* Orchestrator.                                                           *)

OrcPhases == {"wait", "mark", "build", "built", "unbuilt", "device", "load", "loaded",
              "pre_check", "ended", "raised", "killed"}

OrcSteps == {"none", "build", "load", "pre_check", "done"}

OrcTyped ==
  /\ order \in [detach : BOOLEAN, build : BOOLEAN]
  /\ launcher \in 0..Len(OrcDevices) + 1
  /\ worker \in [pc : OrcPhases \cup {"unborn"}, i : Devs, pid : BOOLEAN, kills : 0..OrcKills]
  /\ dicts \in [Devs -> [status : {"running", "ok", "error"}, phase : OrcSteps]]
  /\ records \in [Devs -> [status : {"none", "running", "ok", "error"}, phase : OrcSteps,
                           pid : BOOLEAN]]

\* The parent writes its records while the worker waits, or is dead.
ParentFirst ==
  /\ launcher = 0 => worker.pc = "unborn"
  /\ worker.pc = "unborn" => launcher = 0
  /\ launcher \in {0} \cup Devs => \A d \in Devs : dicts[d].status = "running"
  /\ launcher \in Devs => order.detach /\ worker.pc \in {"wait", "killed"}

\* A record is the driver's own view; with the worker's pid if it is a fork.
RecordsFollow ==
  /\ \A d \in Devs : records[d].status \in {"none", dicts[d].status}
  /\ order.detach => \A d \in Devs : records[d].status = "running" => records[d].pid
  /\ order.detach /\ worker.pc \notin {"unborn", "wait", "killed"} => worker.pid

Settled(d) == dicts[d].status \in {"ok", "error"} /\ records[d].status = dicts[d].status

\* The devices are settled one after the other.
InTurn ==
  /\ worker.pc \in {"device", "load", "loaded", "pre_check", "unbuilt"} =>
       \A d \in Devs : d < worker.i => Settled(d)
  /\ worker.pc = "ended" => \A d \in Devs : Settled(d)

OrcInv == OrcTyped /\ ParentFirst /\ RecordsFollow /\ InTurn

\* A run has a device: _launch refuses one without.
LEMMA Fleet == /\ Len(OrcDevices) \in Nat \ {0} /\ Devs = 1..Len(OrcDevices) /\ 1 \in Devs
               /\ OrcKills \in Nat
BY OrchestratorAssumption DEF OrchestratorAssumption, Devs

\* The invariant holds before the call.
LEMMA OrcInitInv == ASSUME OrcInit PROVE OrcInv
<1> USE Fleet DEF OrcInit
<1>1. OrcTyped
  <2>1. worker \in [pc : OrcPhases \cup {"unborn"}, i : Devs, pid : BOOLEAN, kills : 0..OrcKills]
    BY DEF OrcPhases
  <2>2. Planned \in OrcSteps
    BY DEF Planned, OrcSteps
  <2>3. dicts \in [Devs -> [status : {"running", "ok", "error"}, phase : OrcSteps]]
    BY <2>2
  <2>4. records \in [Devs -> [status : {"none", "running", "ok", "error"}, phase : OrcSteps,
                              pid : BOOLEAN]]
    BY DEF NoRecord, OrcSteps
  <2>5. order \in [detach : BOOLEAN, build : BOOLEAN] /\ launcher \in 0..Len(OrcDevices) + 1
    BY OrchestratorAssumption DEF OrchestratorAssumption
  <2> QED
    BY <2>1, <2>3, <2>4, <2>5 DEF OrcTyped
<1>2. worker.pc = "unborn" /\ launcher = 0 /\ launcher \notin Devs
  BY DEF OrcInit
<1>3. \A d \in Devs : dicts[d].status = "running" /\ records[d].status = "none"
  BY DEF NoRecord
<1>4. ParentFirst /\ RecordsFollow /\ InTurn
  BY <1>2, <1>3 DEF ParentFirst, RecordsFollow, InTurn
<1> QED
  BY <1>1, <1>4 DEF OrcInv

\* A step of the driver that writes one record and goes on to the device i.
LEMMA PersistStep ==
  ASSUME OrcInv, NEW s \in {"running", "ok", "error"}, NEW f \in OrcSteps,
         NEW pc \in OrcPhases \ {"wait", "killed"}, NEW i \in Devs,
         Persist(worker.i, Job(s, f)), Go(pc, i), UNCHANGED <<order, launcher>>,
         worker.pc \notin {"unborn", "wait", "killed"},
         pc \in {"device", "load", "loaded", "pre_check", "unbuilt"} =>
           \A d \in Devs : d < i => IF d = worker.i THEN s # "running" ELSE Settled(d),
         pc = "ended" =>
           \A d \in Devs : IF d = worker.i THEN s # "running" ELSE Settled(d)
  PROVE  OrcInv'
<1> DEFINE w == worker.i
<1>1. w \in Devs /\ worker.pid \in BOOLEAN
  BY DEF OrcInv, OrcTyped
<1>2. /\ dicts' = [dicts EXCEPT ![w] = [status |-> s, phase |-> f]]
      /\ records' = [records EXCEPT ![w] = [status |-> s, phase |-> f, pid |-> worker.pid]]
  BY DEF Persist, Job
<1>3. /\ dicts'[w].status = s /\ records'[w].status = s /\ records'[w].pid = worker.pid
      /\ \A d \in Devs \ {w} : dicts'[d] = dicts[d] /\ records'[d] = records[d]
  BY <1>1, <1>2 DEF OrcInv, OrcTyped
<1>4. worker'.pc = pc /\ worker'.i = i /\ worker'.pid = worker.pid /\ worker'.kills = worker.kills
  BY DEF Go, OrcInv, OrcTyped
<1> HIDE DEF w
<1>5. OrcTyped'
  <2>1. worker' \in [pc : OrcPhases \cup {"unborn"}, i : Devs, pid : BOOLEAN, kills : 0..OrcKills]
    BY DEF Go, OrcInv, OrcTyped
  <2>2. dicts' \in [Devs -> [status : {"running", "ok", "error"}, phase : OrcSteps]]
    BY <1>1, <1>2 DEF OrcInv, OrcTyped
  <2>3. records' \in [Devs -> [status : {"none", "running", "ok", "error"}, phase : OrcSteps,
                               pid : BOOLEAN]]
    BY <1>1, <1>2 DEF OrcInv, OrcTyped
  <2> QED
    BY <2>1, <2>2, <2>3 DEF OrcInv, OrcTyped
<1>6. ParentFirst'
  BY <1>4 DEF OrcInv, ParentFirst, OrcPhases
<1>7. RecordsFollow'
  BY <1>1, <1>3, <1>4 DEF OrcInv, RecordsFollow
<1>8. InTurn'
  <2>1. ASSUME NEW d \in Devs, IF d = w THEN s # "running" ELSE Settled(d)
        PROVE  Settled(d)'
    BY <1>1, <1>3, <2>1 DEF Settled
  <2> QED
    BY <1>4, <2>1 DEF InTurn, w
<1> QED
  BY <1>5, <1>6, <1>7, <1>8 DEF OrcInv

\* Every step of caller, driver and kill keeps the invariant.
LEMMA OrcStepInv == ASSUME OrcInv, [OrcNext]_orcVars PROVE OrcInv'
<1> USE Fleet DEF OrcInv
<1>1. CASE OrcLaunch
  <2>1. /\ worker'.pc \in {"wait", "mark"} /\ worker'.i = 1 /\ worker'.pid = worker.pid
        /\ order.detach = (worker'.pc = "wait")
        /\ launcher' = IF order.detach THEN 1 ELSE Len(OrcDevices) + 1
        /\ worker' \in [pc : OrcPhases \cup {"unborn"}, i : Devs, pid : BOOLEAN, kills : 0..OrcKills]
        /\ order' = order /\ dicts' = dicts /\ records' = records
    BY <1>1 DEF OrcLaunch, Go, OrcTyped, OrcPhases, Devs
  <2>2. OrcTyped'
    BY <2>1 DEF OrcTyped
  <2>3. ParentFirst' /\ RecordsFollow' /\ InTurn'
    BY <1>1, <2>1 DEF OrcLaunch, ParentFirst, RecordsFollow, InTurn, Devs, OrcTyped
  <2> QED
    BY <2>2, <2>3
<1>2. CASE FirstRecord
  <2>1. /\ records' \in [Devs -> [status : {"none", "running", "ok", "error"}, phase : OrcSteps,
                                  pid : BOOLEAN]]
        /\ records'[launcher].status = "running" /\ records'[launcher].pid
        /\ \A d \in Devs \ {launcher} : records'[d] = records[d]
    BY <1>2 DEF FirstRecord, OrcTyped, Planned, OrcSteps
  <2>2. /\ launcher \in Devs /\ launcher' = launcher + 1 /\ launcher' \in 1..Len(OrcDevices) + 1
        /\ order' = order /\ worker' = worker /\ dicts' = dicts
    BY <1>2 DEF FirstRecord, Devs
  <2>3. OrcTyped'
    BY <2>1, <2>2 DEF OrcTyped
  <2>4. ParentFirst'
    BY <2>2 DEF ParentFirst, Devs
  <2>5. RecordsFollow' /\ InTurn'
    BY <2>1, <2>2 DEF ParentFirst, RecordsFollow, InTurn
  <2> QED
    BY <2>3, <2>4, <2>5
<1>3. CASE Begin
  <2>1. /\ worker'.pc = "mark" /\ worker'.pid = TRUE /\ worker'.i = worker.i
        /\ worker' \in [pc : OrcPhases \cup {"unborn"}, i : Devs, pid : BOOLEAN, kills : 0..OrcKills]
        /\ order' = order /\ launcher' = launcher /\ dicts' = dicts /\ records' = records
        /\ worker.pc = "wait" /\ launcher \notin Devs
    BY <1>3 DEF Begin, Released, OrcTyped, OrcPhases
  <2>2. OrcTyped'
    BY <2>1 DEF OrcTyped
  <2>3. ParentFirst' /\ RecordsFollow' /\ InTurn'
    BY <2>1 DEF ParentFirst, RecordsFollow, InTurn, OrcTyped, Devs
  <2> QED
    BY <2>2, <2>3
\* The driver goes to another place and writes nothing.
<1>4. ASSUME NEW pc \in {"device", "built", "unbuilt", "raised"}, Go(pc, 1),
             UNCHANGED <<order, launcher, dicts, records>>,
             worker.pc \in {"mark", "build"}
      PROVE  OrcInv'
  <2>1. /\ worker'.pc = pc /\ worker'.i = 1 /\ worker'.pid = worker.pid
        /\ worker' \in [pc : OrcPhases \cup {"unborn"}, i : Devs, pid : BOOLEAN, kills : 0..OrcKills]
    BY <1>4 DEF Go, OrcTyped, OrcPhases, Devs
  <2>2. OrcTyped'
    BY <1>4, <2>1 DEF OrcTyped
  <2>3. ParentFirst' /\ RecordsFollow' /\ InTurn'
    BY <1>4, <2>1 DEF ParentFirst, RecordsFollow, InTurn, OrcTyped, Devs, Settled
  <2> QED
    BY <2>2, <2>3
<1>5. worker.i \in 1..Len(OrcDevices)
  BY DEF OrcTyped, Devs
<1>6. CASE Mark
  <2>1. CASE ~order.build
    BY <1>4, <1>6, <2>1 DEF Mark
  <2>2. CASE order.build
    <3>1. worker.pc = "mark" /\ Persist(worker.i, Job("running", "build")) /\ UNCHANGED <<order, launcher>>
      BY <1>6, <2>2 DEF Mark
    <3>2. PICK pc \in {"build", "mark"}, i \in Devs : Go(pc, i)
      BY <1>5, <1>6, <2>2 DEF Mark
    <3> QED
      BY <3>1, <3>2, PersistStep DEF OrcPhases, OrcSteps
  <2> QED
    BY <2>1, <2>2
<1>7. CASE Build
  <2>1. PICK pc \in {"built", "unbuilt", "raised"} : Go(pc, 1)
    BY <1>7 DEF Build
  <2>2. worker.pc = "build" /\ UNCHANGED <<order, launcher, dicts, records>>
    BY <1>7 DEF Build
  <2> QED
    BY <1>4, <2>1, <2>2
<1>8. CASE Built
  <2>1. CASE worker.pc = "built"
    <3>1. Persist(worker.i, Job("running", "build")) /\ UNCHANGED <<order, launcher>>
      BY <1>8, <2>1 DEF Built
    <3>2. (Go("built", worker.i + 1) /\ worker.i + 1 \in Devs) \/ Go("device", 1)
      BY <1>5, <1>8, <2>1 DEF Built
    <3>3. \A d \in Devs : ~(d < 1)
      OBVIOUS
    <3>4. CASE Go("device", 1)
      BY <2>1, <3>1, <3>3, <3>4, PersistStep DEF OrcPhases, OrcSteps
    <3>5. CASE Go("built", worker.i + 1) /\ worker.i + 1 \in Devs
      BY <2>1, <3>1, <3>5, PersistStep DEF OrcPhases, OrcSteps
    <3> QED
      BY <3>2, <3>4, <3>5
  <2>2. CASE worker.pc = "unbuilt"
    <3>1. Persist(worker.i, Job("error", "build")) /\ UNCHANGED <<order, launcher>>
      BY <1>8, <2>2 DEF Built
    <3>2. \/ worker.i < Len(OrcDevices) /\ Go("unbuilt", worker.i + 1) /\ worker.i + 1 \in Devs
          \/ worker.i = Len(OrcDevices) /\ Go("ended", 1)
      BY <1>5, <1>8, <2>2 DEF Built
    <3>3. \A d \in Devs : d < worker.i => Settled(d)
      BY <2>2 DEF InTurn
    <3>4. CASE worker.i < Len(OrcDevices) /\ Go("unbuilt", worker.i + 1) /\ worker.i + 1 \in Devs
      <4>1. \A d \in Devs : d < worker.i + 1 => IF d = worker.i THEN "error" # "running" ELSE Settled(d)
        BY <1>5, <3>3
      <4> QED
        BY <2>2, <3>1, <3>4, <4>1, PersistStep DEF OrcPhases, OrcSteps
    <3>5. CASE worker.i = Len(OrcDevices) /\ Go("ended", 1)
      <4>1. \A d \in Devs : IF d = worker.i THEN "error" # "running" ELSE Settled(d)
        BY <1>5, <3>3, <3>5
      <4> QED
        BY <2>2, <3>1, <3>5, <4>1, PersistStep DEF OrcPhases, OrcSteps
    <3> QED
      BY <3>2, <3>4, <3>5
  <2> QED
    BY <1>8, <2>1, <2>2 DEF Built
<1>9. ASSUME NEW s \in {"ok", "error"}, NextDevice(s), worker.pc \in {"load", "pre_check"},
             UNCHANGED <<order, launcher>>
      PROVE  OrcInv'
  <2>1. PICK f \in OrcSteps : Persist(worker.i, Job(s, f))
    <3>1. (IF s = "ok" THEN "done" ELSE worker.pc) \in OrcSteps
      BY <1>9 DEF OrcSteps
    <3> QED
      BY <1>9, <3>1 DEF NextDevice
  <2>2. \A d \in Devs : d < worker.i => Settled(d)
    BY <1>9 DEF InTurn
  <2>3. CASE worker.i = Len(OrcDevices)
    <3>1. Go("ended", worker.i)
      BY <1>9, <2>3 DEF NextDevice
    <3>2. \A d \in Devs : IF d = worker.i THEN s # "running" ELSE Settled(d)
      BY <1>5, <2>2, <2>3
    <3> QED
      BY <1>5, <1>9, <2>1, <3>1, <3>2, PersistStep DEF OrcPhases, OrcSteps
  <2>4. CASE worker.i # Len(OrcDevices)
    <3>1. Go("device", worker.i + 1) /\ worker.i + 1 \in Devs
      BY <1>5, <1>9, <2>4 DEF NextDevice
    <3>2. \A d \in Devs : d < worker.i + 1 => IF d = worker.i THEN s # "running" ELSE Settled(d)
      BY <1>5, <2>2
    <3> QED
      BY <1>9, <2>1, <3>1, <3>2, PersistStep DEF OrcPhases, OrcSteps
  <2> QED
    BY <2>3, <2>4
<1>10. CASE Device
  <2>1. ASSUME NEW pc \in {"load", "loaded", "pre_check"}, NEW f \in OrcSteps,
               Persist(worker.i, Job("running", f)), Go(pc, worker.i),
               worker.pc \in {"device", "load", "loaded"}, UNCHANGED <<order, launcher>>
        PROVE  OrcInv'
    <3>1. \A d \in Devs : d < worker.i => IF d = worker.i THEN "running" # "running" ELSE Settled(d)
      BY <1>5, <2>1 DEF InTurn
    <3> QED
      BY <1>5, <2>1, <3>1, PersistStep DEF OrcPhases, OrcSteps
  <2>2. UNCHANGED <<order, launcher>>
    BY <1>10 DEF Device
  <2>3. CASE worker.pc = "device" /\ Persist(worker.i, Job("running", "load")) /\ Go("load", worker.i)
    BY <2>1, <2>2, <2>3 DEF OrcSteps
  <2>4. CASE worker.pc = "load" /\ Persist(worker.i, Job("running", "load")) /\ Go("loaded", worker.i)
    BY <2>1, <2>2, <2>4 DEF OrcSteps
  <2>5. CASE worker.pc = "loaded" /\ Persist(worker.i, Job("running", "pre_check")) /\ Go("pre_check", worker.i)
    BY <2>1, <2>2, <2>5 DEF OrcSteps
  <2>6. CASE worker.pc = "pre_check" /\ NextDevice("ok")
    BY <1>9, <2>2, <2>6
  <2>7. CASE worker.pc \in {"load", "pre_check"} /\ NextDevice("error")
    BY <1>9, <2>2, <2>7
  <2> QED
    BY <1>10, <2>3, <2>4, <2>5, <2>6, <2>7 DEF Device
<1>11. CASE KillOrc
  <2>1. /\ worker' \in [pc : OrcPhases \cup {"unborn"}, i : Devs, pid : BOOLEAN, kills : 0..OrcKills]
        /\ worker'.pid = worker.pid /\ worker'.i = worker.i
    <3>1. worker.kills + 1 \in 0..OrcKills
      BY <1>11 DEF KillOrc, OrcTyped
    <3>2. \/ worker' = [worker EXCEPT !.kills = worker.kills + 1]
          \/ worker' = [worker EXCEPT !.pc = "killed", !.kills = worker.kills + 1]
      BY <1>11 DEF KillOrc
    <3> QED
      BY <3>1, <3>2 DEF OrcTyped, OrcPhases
  <2>2. \/ worker'.pc = worker.pc /\ launcher \in Devs /\ launcher' = Len(OrcDevices) + 1
        \/ worker'.pc = "killed" /\ launcher' = launcher /\ worker.pc # "unborn"
    BY <1>11 DEF KillOrc, OrcTyped, WorkerAlive
  <2>3. order' = order /\ dicts' = dicts /\ records' = records
    BY <1>11 DEF KillOrc
  <2>4. OrcTyped'
    BY <2>1, <2>2, <2>3 DEF OrcTyped
  <2>5. ParentFirst'
    BY <2>2, <2>3 DEF ParentFirst
  <2>6. RecordsFollow'
    BY <2>1, <2>2, <2>3 DEF RecordsFollow
  <2>7. InTurn'
    BY <2>1, <2>2, <2>3 DEF InTurn, Settled
  <2> QED
    BY <2>4, <2>5, <2>6, <2>7
<1>12. CASE UNCHANGED orcVars
  BY <1>12
  DEF orcVars, OrcTyped, ParentFirst, RecordsFollow, InTurn, Settled
<1> QED
  BY <1>1, <1>2, <1>3, <1>6, <1>7, <1>8, <1>10, <1>11, <1>12 DEF OrcNext, Drive

\* Records follow the driver, and the devices are settled in turn, in every
\* reachable state of a run (_drive, _persist, _spawn_detached).
THEOREM OrcInvariance == OrcSpec => []OrcInv
BY OrcInitInv, OrcStepInv, PTL DEF OrcSpec

\* `orc show` of any process tells the truth of every device, whenever it is
\* asked and whoever has been killed.
THEOREM ShownIsTrue == OrcSpec => []ShowIsTrue
<1>1. OrcInv => ShowIsTrue
  BY DEF OrcInv, OrcTyped, RecordsFollow, InTurn, Settled, ShowIsTrue, OrcShow, WorkerAlive
<1> QED
  BY <1>1, OrcInvariance, PTL

-----------------------------------------------------------------------------
(* TechSupport.                                                            *)

TsPcs == {"new", "kick", "refused", "killed"} \cup TsActive \cup TsTerminal
TsCalled == TsNames \cup {TsNone}

TsRecord == [pc : TsPcs, name : TsCalled, first : Nat, polls : 0..MaxPolls, failures : Nat,
             source : Nat]

TsTyped ==
  /\ ts \in [TsJobs -> TsRecord]
  /\ \A j \in TsJobs : ts[j].failures < MaxProbeFailures
  /\ tsSlot \in [TsProcs -> TsJobs \cup {TsNone}]
  /\ bundles \in Seq(TsCalled)
  /\ box \in [busy : 0..Len(bundles), kept : 0..Len(bundles), broken : BOOLEAN]
  /\ tsArchive \in [TsJobs -> Nat]

\* A process has an active job of its own in its slot.
SlotsOwn ==
  \A p \in TsProcs : tsSlot[p] # TsNone =>
    ts[tsSlot[p]].pc \in TsActive /\ TsProcessOf[tsSlot[p]] = p

\* What the device keeps or generates was begun for a job that waits, or after it.
WaitsForFresh(j) ==
  ts[j].pc = "generating" =>
    /\ box.kept = 0 \/ box.kept >= ts[j].first
    /\ box.busy = 0 \/ box.busy >= ts[j].first

\* Generation g bears the job's name, or one that holds it, and is not from
\* before the job.
Own(j, g) == g \in ts[j].first..Len(bundles) /\ HoldsName(bundles[g], ts[j].name)

FreshJob(j) ==
  /\ ts[j].pc \in TsActive \cup {"done"} => ts[j].first \in 1..Len(bundles)
  /\ WaitsForFresh(j)
  /\ ts[j].pc = "uploading" => Own(j, ts[j].source)
  /\ ts[j].pc = "done" => Own(j, tsArchive[j])

TsInv == TsTyped /\ SlotsOwn /\ \A j \in TsJobs : FreshJob(j)

\* The bounds are numbers, and no job is the empty slot.
LEMMA TsBounds == /\ TsNone \notin TsJobs /\ MaxPolls \in Nat /\ MaxPolls >= 1
                  /\ MaxProbeFailures \in Nat /\ MaxProbeFailures >= 1
BY TechSupportAssumption DEF TechSupportAssumption

\* The invariant holds before the first call.
LEMMA TsInitInv == ASSUME TsInit PROVE TsInv
<1>1. TsTyped
  <2>1. bundles \in Seq(TsCalled) /\ Len(bundles) = 0
    BY DEF TsInit
  <2> QED
    BY <2>1, TsBounds DEF TsInit, TsTyped, TsRecord, TsPcs, TsCalled
<1>2. SlotsOwn /\ \A j \in TsJobs : FreshJob(j)
  BY DEF TsInit, SlotsOwn, FreshJob, WaitsForFresh, TsActive
<1> QED
  BY <1>1, <1>2 DEF TsInv

\* A generation is added behind the others, and the box keeps none.
LEMMA TakeGrows ==
  ASSUME TsInv, NEW n \in TsCalled, Take(n)
  PROVE  /\ bundles' \in Seq(TsCalled) /\ Len(bundles') = Len(bundles) + 1 /\ Len(bundles) \in Nat
         /\ \A g \in 1..Len(bundles) : bundles'[g] = bundles[g]
         /\ box' = [busy |-> Len(bundles) + 1, kept |-> 0, broken |-> FALSE]
         /\ box' \in [busy : 0..Len(bundles'), kept : 0..Len(bundles'), broken : BOOLEAN]
<1>1. bundles \in Seq(TsCalled) /\ Len(bundles) \in Nat
  BY DEF TsInv, TsTyped
<1>2. bundles' = Append(bundles, n)
  BY DEF Take
<1>3. bundles' \in Seq(TsCalled) /\ Len(bundles') = Len(bundles) + 1
  BY <1>1, <1>2
<1>4. \A g \in 1..Len(bundles) : bundles'[g] = bundles[g]
  BY <1>1, <1>2
<1>5. box' = [busy |-> Len(bundles) + 1, kept |-> 0, broken |-> FALSE]
  BY DEF Take
<1> QED
  BY <1>1, <1>3, <1>4, <1>5

\* A job that does not move is as fresh as it was when others do.
LEMMA FreshStays ==
  ASSUME TsInv, NEW k \in TsJobs, UNCHANGED <<ts[k], tsArchive[k]>>,
         \/ \E n \in TsCalled : Take(n)
         \/ UNCHANGED <<box, bundles>>
         \/ UNCHANGED bundles /\ box'.kept \in {0, box.busy, box.kept} /\ box'.busy = 0
  PROVE  FreshJob(k)'
<1> DEFINE t == ts[k]
<1>1. t.first \in Nat /\ t.source \in Nat /\ tsArchive[k] \in Nat /\ Len(bundles) \in Nat
  BY DEF TsInv, TsTyped, TsRecord
<1>2. FreshJob(k)
  BY DEF TsInv
<1>3. CASE UNCHANGED <<box, bundles>>
  BY <1>2, <1>3 DEF FreshJob, WaitsForFresh, Own
<1>4. CASE UNCHANGED bundles /\ box'.kept \in {0, box.busy, box.kept} /\ box'.busy = 0
  BY <1>2, <1>4 DEF FreshJob, WaitsForFresh, Own
<1>5. CASE \E n \in TsCalled : Take(n)
  <2>1. /\ Len(bundles') = Len(bundles) + 1
        /\ \A g \in 1..Len(bundles) : bundles'[g] = bundles[g]
        /\ box'.busy = Len(bundles) + 1 /\ box'.kept = 0
    BY <1>5, TakeGrows
  <2>2. t.pc \in TsActive \cup {"done"} => t.first \in 1..Len(bundles)
    BY <1>2 DEF FreshJob
  <2>3. ASSUME NEW g \in Nat, Own(k, g), t.first >= 1
        PROVE  Own(k, g)'
    BY <1>1, <2>1, <2>3 DEF Own
  <2>4. FreshJob(k)!1'
    BY <1>1, <2>1, <2>2
  <2>5. WaitsForFresh(k)'
    BY <1>1, <2>1, <2>2 DEF WaitsForFresh, TsActive
  <2>6. FreshJob(k)!3'
    BY <1>1, <1>2, <2>2, <2>3 DEF FreshJob, TsActive
  <2>7. FreshJob(k)!4'
    BY <1>1, <1>2, <2>2, <2>3 DEF FreshJob, TsActive
  <2> QED
    BY <2>4, <2>5, <2>6, <2>7 DEF FreshJob
<1> QED
  BY <1>3, <1>4, <1>5

\* A job j moves to r; the slots keep to their jobs.
LEMMA JobMoves ==
  ASSUME TsInv, NEW j \in TsJobs,
         NEW r \in TsRecord,
         ts' = [ts EXCEPT ![j] = r], r.failures < MaxProbeFailures,
         \/ r.pc \in TsActive /\ ts[j].pc \in TsActive /\ tsSlot' = tsSlot
         \/ ts[j].pc \notin TsActive /\ tsSlot' = tsSlot
         \/ ts[j].pc \notin TsActive /\ r.pc \in TsActive
            /\ tsSlot' = [tsSlot EXCEPT ![TsProcessOf[j]] = j]
         \/ tsSlot' = [p \in TsProcs |-> IF tsSlot[p] = j THEN TsNone ELSE tsSlot[p]],
         tsArchive' \in [TsJobs -> Nat],
         \A k \in TsJobs \ {j} : tsArchive'[k] = tsArchive[k],
         (\E n \in TsCalled : Take(n)) \/ UNCHANGED <<box, bundles>>,
         FreshJob(j)'
  PROVE  TsInv'
<1>1. ts'[j] = r /\ \A k \in TsJobs \ {j} : ts'[k] = ts[k]
  BY DEF TsInv, TsTyped
<1>2. \A k \in TsJobs : FreshJob(k)'
  <2>1. ASSUME NEW k \in TsJobs, k # j PROVE FreshJob(k)'
    BY <1>1, <2>1, FreshStays
  <2> QED
    BY <2>1
<1>3. /\ bundles' \in Seq(TsCalled)
      /\ box' \in [busy : 0..Len(bundles'), kept : 0..Len(bundles'), broken : BOOLEAN]
  BY TakeGrows DEF TsInv, TsTyped
<1>4. TsProcessOf[j] \in TsProcs
  BY DEF TsProcs
<1>5. tsSlot' \in [TsProcs -> TsJobs \cup {TsNone}]
  BY <1>4 DEF TsInv, TsTyped
<1>6. TsTyped'
  <2>1. ts' \in [TsJobs -> TsRecord]
    BY DEF TsInv, TsTyped
  <2>2. \A k \in TsJobs : ts'[k].failures < MaxProbeFailures
    BY <1>1 DEF TsInv, TsTyped
  <2> QED
    BY <1>3, <1>5, <2>1, <2>2 DEF TsTyped
<1>7. SlotsOwn'
  <2> SUFFICES ASSUME NEW p \in TsProcs, tsSlot'[p] # TsNone
               PROVE  ts'[tsSlot'[p]].pc \in TsActive /\ TsProcessOf[tsSlot'[p]] = p
    BY DEF SlotsOwn
  <2>1. tsSlot[p] # TsNone =>
          tsSlot[p] \in TsJobs /\ ts[tsSlot[p]].pc \in TsActive /\ TsProcessOf[tsSlot[p]] = p
    BY DEF TsInv, TsTyped, SlotsOwn
  <2>2. tsSlot \in [TsProcs -> TsJobs \cup {TsNone}]
    BY DEF TsInv, TsTyped
  <2>3. CASE tsSlot' = tsSlot
    BY <1>1, <2>1, <2>3
  <2>4. CASE r.pc \in TsActive /\ tsSlot' = [tsSlot EXCEPT ![TsProcessOf[j]] = j]
    BY <1>1, <1>4, <2>1, <2>2, <2>4
  <2>5. CASE tsSlot' = [q \in TsProcs |-> IF tsSlot[q] = j THEN TsNone ELSE tsSlot[q]]
    BY <1>1, <2>1, <2>5
  <2> QED
    BY <2>3, <2>4, <2>5
<1> QED
  BY <1>2, <1>6, <1>7 DEF TsInv

\* Every step of job, device, other people and kill keeps the invariant.
LEMMA TsStepInv == ASSUME TsInv, [TsNext]_tsVars PROVE TsInv'
<1> USE DEF TsInv
<1> USE TsBounds
<1>1. ASSUME NEW k \in TsJobs
      PROVE  /\ ts[k] \in TsRecord
             /\ ts[k].pc \in TsPcs /\ ts[k].name \in TsCalled /\ ts[k].first \in Nat
             /\ ts[k].polls \in 0..MaxPolls /\ ts[k].failures \in Nat /\ ts[k].source \in Nat
             /\ ts[k].failures < MaxProbeFailures
  BY DEF TsTyped, TsRecord
<1>2. CASE Generate
  <2>1. /\ UNCHANGED <<ts, tsSlot, bundles, tsArchive>>
        /\ box' \in [busy : 0..Len(bundles), kept : 0..Len(bundles), broken : BOOLEAN]
        /\ box'.kept \in {0, box.busy, box.kept} /\ box'.busy = 0
    <3>1. /\ box \in [busy : 0..Len(bundles), kept : 0..Len(bundles), broken : BOOLEAN]
          /\ Len(bundles) \in Nat
      BY DEF TsTyped
    <3>2. UNCHANGED <<ts, tsSlot, bundles, tsArchive>>
      BY <1>2 DEF Generate
    <3>3. CASE box' = [box EXCEPT !.busy = 0, !.kept = box.busy]
      <4>0. box.busy \in 0..Len(bundles) /\ box.kept \in 0..Len(bundles) /\ 0 \in 0..Len(bundles)
        BY <3>1
      <4>1. box' \in [busy : 0..Len(bundles), kept : 0..Len(bundles), broken : BOOLEAN]
        BY <3>1, <3>3, <4>0
      <4>2. box'.busy = 0
        BY <3>1, <3>3
      <4>3. box'.kept = box.busy
        BY <3>1, <3>3
      <4> QED
        BY <3>2, <4>1, <4>2, <4>3
    <3>4. CASE box' = [box EXCEPT !.busy = 0, !.broken = TRUE]
      <4>0. box.busy \in 0..Len(bundles) /\ box.kept \in 0..Len(bundles) /\ 0 \in 0..Len(bundles)
        BY <3>1
      <4>1. box' \in [busy : 0..Len(bundles), kept : 0..Len(bundles), broken : BOOLEAN]
        BY <3>1, <3>4, <4>0
      <4>2. box'.busy = 0
        BY <3>1, <3>4
      <4>3. box'.kept = box.kept
        BY <3>1, <3>4
      <4> QED
        BY <3>2, <4>1, <4>2, <4>3
    <3> QED
      BY <1>2, <3>3, <3>4 DEF Generate
  <2>2. \A k \in TsJobs : FreshJob(k)'
    BY <2>1, FreshStays
  <2> QED
    BY <2>1, <2>2 DEF TsTyped, SlotsOwn
<1>3. ASSUME NEW n \in TsNames, Other(n) PROVE TsInv'
  <2>1. n \in TsCalled /\ Take(n) /\ UNCHANGED <<ts, tsSlot, tsArchive>>
    BY <1>3 DEF Other, TsCalled
  <2>2. \A k \in TsJobs : FreshJob(k)'
    BY <2>1, FreshStays
  <2>3. /\ bundles' \in Seq(TsCalled)
        /\ box' \in [busy : 0..Len(bundles'), kept : 0..Len(bundles'), broken : BOOLEAN]
    BY <2>1, TakeGrows
  <2> QED
    BY <2>1, <2>2, <2>3 DEF TsTyped, SlotsOwn
<1>4. ASSUME NEW n \in TsNames, NEW j \in TsJobs, CheckSlot(j, n) PROVE TsInv'
  <2>1. PICK pc \in {"kick", "refused"} : ts' = [ts EXCEPT ![j].pc = pc, ![j].name = n]
    BY <1>4 DEF CheckSlot
  <2> DEFINE r == [ts[j] EXCEPT !.pc = pc, !.name = n]
  <2>2. ts' = [ts EXCEPT ![j] = r]
    BY <2>1 DEF TsTyped
  <2>3. /\ r \in TsRecord
        /\ r.pc = pc /\ r.failures < MaxProbeFailures
    BY <1>1 DEF TsRecord, TsPcs, TsCalled
  <2>4. ts[j].pc \notin TsActive /\ UNCHANGED <<tsSlot, box, bundles, tsArchive>>
    BY <1>4 DEF CheckSlot, TsActive
  <2> HIDE DEF r
  <2>5. FreshJob(j)'
    BY <2>2, <2>3 DEF FreshJob, WaitsForFresh, TsActive, TsTyped
  <2> QED
    BY <2>2, <2>3, <2>4, <2>5, JobMoves DEF TsTyped
\* A job ends, or goes on, and the device is as it was.
<1>5. ASSUME NEW j \in TsJobs, ts[j].pc \in {"kick", "generating", "uploading"},
             NEW pc \in {"refused", "done", "error", "timeout"},
             \/ ts[j].pc = "kick" /\ pc = "refused" /\ NotRegistered(j)
             \/ ts[j].pc # "kick" /\ pc # "refused" /\ TsFinish(j, pc),
             (\E n \in TsCalled : Take(n)) \/ UNCHANGED <<box, bundles>>,
             \/ UNCHANGED tsArchive /\ pc # "done"
             \/ /\ tsArchive' = [tsArchive EXCEPT ![j] = ts[j].source]
                /\ ts[j].pc = "uploading" /\ UNCHANGED <<box, bundles>>
      PROVE  TsInv'
  <2> DEFINE r == [ts[j] EXCEPT !.pc = pc]
  <2>1. ts' = [ts EXCEPT ![j] = r]
    BY <1>5 DEF TsTyped, NotRegistered, TsFinish
  <2>2. /\ r \in TsRecord
        /\ r.pc = pc /\ r.failures < MaxProbeFailures
        /\ r.first = ts[j].first /\ r.name = ts[j].name
    BY <1>1 DEF TsRecord, TsPcs, TsTerminal
  <2>3. ts'[j] = r
    BY <2>1 DEF TsTyped
  <2> HIDE DEF r
  <2>4. \/ ts[j].pc \notin TsActive /\ tsSlot' = tsSlot
        \/ tsSlot' = [p \in TsProcs |-> IF tsSlot[p] = j THEN TsNone ELSE tsSlot[p]]
    BY <1>5 DEF NotRegistered, TsFinish, TsActive
  <2>5. /\ tsArchive' \in [TsJobs -> Nat]
        /\ \A k \in TsJobs \ {j} : tsArchive'[k] = tsArchive[k]
    BY <1>1, <1>5 DEF TsTyped
  <2>6. FreshJob(j)'
    <3>1. CASE pc # "done"
      BY <2>2, <2>3, <3>1 DEF FreshJob, WaitsForFresh, TsActive
    <3>2. CASE pc = "done"
      <4>1. Own(j, ts[j].source) /\ ts[j].first \in 1..Len(bundles)
        BY <1>5, <3>2 DEF FreshJob, TsActive
      <4>2. tsArchive'[j] = ts[j].source /\ UNCHANGED bundles
        BY <1>5, <3>2 DEF TsTyped
      <4> QED
        BY <2>2, <2>3, <3>2, <4>1, <4>2 DEF FreshJob, WaitsForFresh, TsActive, Own
    <3> QED
      BY <3>1, <3>2
  <2> QED
    BY <1>5, <2>1, <2>2, <2>4, <2>5, <2>6, JobMoves
<1>6. ASSUME NEW j \in TsJobs, KickOff(j) PROVE TsInv'
  <2>1. ts[j].pc = "kick" /\ UNCHANGED tsArchive
    BY <1>6 DEF KickOff
  <2>2. CASE NotRegistered(j) /\ ((\E n \in TsCalled : Take(n)) \/ UNCHANGED <<box, bundles>>)
    BY <1>5, <2>1, <2>2
  <2>3. CASE Take(ts[j].name) /\ Registers(j, Len(bundles) + 1)
    <3> DEFINE r == [ts[j] EXCEPT !.pc = "generating", !.first = Len(bundles) + 1]
    <3>1. /\ Len(bundles') = Len(bundles) + 1 /\ Len(bundles) \in Nat
          /\ box' = [busy |-> Len(bundles) + 1, kept |-> 0, broken |-> FALSE]
      BY <1>1, <2>3, TakeGrows
    <3>2. /\ ts' = [ts EXCEPT ![j] = r]
          /\ tsSlot' = [tsSlot EXCEPT ![TsProcessOf[j]] = j]
      BY <2>3 DEF Registers, TsTyped
    <3>3. /\ r \in TsRecord
          /\ r.pc = "generating" /\ r.first = Len(bundles) + 1 /\ r.failures < MaxProbeFailures
      <4>1. ts[j] \in TsRecord /\ Len(bundles) + 1 \in Nat /\ "generating" \in TsPcs
        BY <1>1, <3>1 DEF TsPcs, TsActive
      <4> QED
        BY <1>1, <4>1 DEF TsRecord
    <3> HIDE DEF r
    <3>4. ts'[j] = r
      BY <3>2 DEF TsTyped
    <3>5. FreshJob(j)'
      BY <3>1, <3>3, <3>4 DEF FreshJob, WaitsForFresh, TsActive
    <3>6. ts[j].pc \notin TsActive /\ r.pc \in TsActive /\ tsArchive' \in [TsJobs -> Nat]
      BY <2>1, <3>3 DEF TsActive, TsTyped
    <3> QED
      BY <1>1, <2>1, <2>3, <3>2, <3>3, <3>5, <3>6, JobMoves
  <2> QED
    BY <1>1, <1>6, <2>2, <2>3 DEF KickOff
<1>7. ASSUME NEW j \in TsJobs, Poll(j) PROVE TsInv'
  <2>1. /\ ts[j].pc = "generating" /\ UNCHANGED <<box, bundles, tsArchive>>
        /\ ts[j].polls + 1 \in 0..MaxPolls
    BY <1>1, <1>7 DEF Poll
  <2>2. CASE TsFinish(j, "error")
    BY <1>5, <2>1, <2>2
  <2>3. ASSUME NEW f \in Nat, f < MaxProbeFailures, UNCHANGED tsSlot,
               ts' = [ts EXCEPT ![j].failures = f, ![j].polls = ts[j].polls + 1]
        PROVE  TsInv'
    <3> DEFINE r == [ts[j] EXCEPT !.failures = f, !.polls = ts[j].polls + 1]
    <3>1. ts' = [ts EXCEPT ![j] = r]
      BY <2>3 DEF TsTyped
    <3>2. /\ r \in TsRecord
          /\ r.pc = "generating" /\ r.first = ts[j].first /\ r.failures < MaxProbeFailures
      BY <1>1, <2>1, <2>3 DEF TsRecord
    <3> HIDE DEF r
    <3>3. ts'[j] = r
      BY <3>1 DEF TsTyped
    <3>4. FreshJob(j)'
      BY <2>1, <3>2, <3>3 DEF FreshJob, WaitsForFresh
    <3> QED
      BY <2>1, <2>3, <3>1, <3>2, <3>4, JobMoves DEF TsTyped, TsActive
  <2>4. CASE ProbeFailed(j)
    <3>1. CASE ts[j].failures + 1 >= MaxProbeFailures
      BY <2>2, <2>4, <3>1 DEF ProbeFailed
    <3>2. CASE ~(ts[j].failures + 1 >= MaxProbeFailures)
      <4>1. /\ ts' = [ts EXCEPT ![j].failures = ts[j].failures + 1, ![j].polls = ts[j].polls + 1]
            /\ UNCHANGED tsSlot
        BY <2>4, <3>2 DEF ProbeFailed, TsTyped
      <4>2. ts[j].failures + 1 \in Nat /\ ts[j].failures + 1 < MaxProbeFailures
        BY <1>1, <3>2
      <4> QED
        BY <2>3, <4>1, <4>2
    <3> QED
      BY <3>1, <3>2
  <2>5. CASE /\ ts' = [ts EXCEPT ![j].failures = 0, ![j].polls = @ + 1]
             /\ UNCHANGED tsSlot
    <3>1. ts' = [ts EXCEPT ![j].failures = 0, ![j].polls = ts[j].polls + 1]
      BY <2>5 DEF TsTyped
    <3>2. 0 \in Nat /\ 0 < MaxProbeFailures
      OBVIOUS
    <3> QED
      BY <2>3, <2>5, <3>1, <3>2, Zenon
  <2>6. CASE /\ box.kept # 0 /\ Marked(j, box.kept) /\ UNCHANGED tsSlot
             /\ ts' = [ts EXCEPT ![j].pc = "uploading", ![j].source = box.kept]
    <3> DEFINE r == [ts[j] EXCEPT !.pc = "uploading", !.source = box.kept]
    <3>1. ts' = [ts EXCEPT ![j] = r]
      BY <2>6 DEF TsTyped
    <3>2. box.kept \in 1..Len(bundles) /\ Len(bundles) \in Nat
      BY <2>6 DEF TsTyped
    <3>3. /\ r \in TsRecord
          /\ r.pc = "uploading" /\ r.first = ts[j].first /\ r.failures < MaxProbeFailures
          /\ r.source = box.kept /\ r.name = ts[j].name
      <4>1. ts[j] \in TsRecord /\ box.kept \in Nat /\ "uploading" \in TsPcs
        BY <1>1, <3>2 DEF TsPcs, TsActive
      <4> QED
        BY <1>1, <4>1 DEF TsRecord
    <3> HIDE DEF r
    <3>4. ts'[j] = r
      BY <3>1 DEF TsTyped
    <3>5. ts[j].first \in 1..Len(bundles) /\ box.kept >= ts[j].first
      BY <2>1, <2>6, <3>2 DEF FreshJob, WaitsForFresh, TsActive
    <3>6. FreshJob(j)'
      BY <1>1, <2>1, <2>6, <3>2, <3>3, <3>4, <3>5 DEF FreshJob, WaitsForFresh, Own, Marked, TsActive
    <3> QED
      BY <2>1, <2>6, <3>1, <3>3, <3>6, JobMoves DEF TsTyped, TsActive
  <2> QED
    BY <1>7, <2>2, <2>4, <2>5, <2>6 DEF Poll, PollAnswer
<1>8. ASSUME NEW j \in TsJobs, GiveUpTs(j) PROVE TsInv'
  BY <1>5, <1>8 DEF GiveUpTs
<1>9. ASSUME NEW j \in TsJobs, Upload(j) PROVE TsInv'
  <2>1. ts[j].pc = "uploading" /\ UNCHANGED <<box, bundles>>
    BY <1>9 DEF Upload
  <2>2. PICK pc \in TsTerminal :
          /\ TsFinish(j, pc)
          /\ \/ tsArchive' = [tsArchive EXCEPT ![j] = ts[j].source]
             \/ UNCHANGED tsArchive /\ pc # "done"
    BY <1>9 DEF Upload, TsTerminal
  <2>3. pc \in {"refused", "done", "error", "timeout"} /\ pc # "refused"
    BY DEF TsTerminal
  <2> QED
    BY <1>5, <2>1, <2>2, <2>3
<1>10. ASSUME NEW p \in TsProcs, TsKill(p) PROVE TsInv'
  <2>1. /\ ts' = [j \in TsJobs |-> IF TsProcessOf[j] = p /\ ts[j].pc \in TsActive \cup {"kick"}
                                    THEN [ts[j] EXCEPT !.pc = "killed"] ELSE ts[j]]
        /\ tsSlot' = [tsSlot EXCEPT ![p] = TsNone]
        /\ UNCHANGED <<box, bundles, tsArchive>>
    BY <1>10 DEF TsKill
  <2>2. ASSUME NEW k \in TsJobs
        PROVE  /\ ts'[k] \in TsRecord
               /\ ts'[k].failures < MaxProbeFailures
               /\ ts'[k] = ts[k] \/ (ts'[k].pc = "killed" /\ TsProcessOf[k] = p)
    BY <1>1, <2>1 DEF TsPcs, TsRecord
  <2>3. TsTyped'
    BY <2>1, <2>2 DEF TsTyped
  <2>4. SlotsOwn'
    BY <2>1, <2>2 DEF TsTyped, SlotsOwn
  <2>5. ASSUME NEW k \in TsJobs PROVE FreshJob(k)'
    <3>1. CASE ts'[k] = ts[k]
      BY <2>1, <3>1, FreshStays
    <3>2. CASE ts'[k].pc = "killed"
      BY <3>2 DEF FreshJob, WaitsForFresh, TsActive
    <3> QED
      BY <2>2, <3>1, <3>2
  <2> QED
    BY <2>3, <2>4, <2>5
<1>11. CASE UNCHANGED tsVars
  <2>1. UNCHANGED <<ts, tsSlot, box, bundles, tsArchive>>
    BY <1>11 DEF tsVars
  <2>2. \A k \in TsJobs : FreshJob(k)'
    BY <2>1, FreshStays
  <2> QED
    BY <2>1, <2>2 DEF TsTyped, SlotsOwn
<1> QED
  BY <1>2, <1>3, <1>4, <1>6, <1>7, <1>8, <1>9, <1>10, <1>11 DEF TsNext, TsStep

\* What the device keeps for a job that waits is no older than its kick-off,
\* in every reachable state (create_techsupport and its worker).
THEOREM TsInvariance == TsSpec => []TsInv
BY TsInitInv, TsStepInv, PTL DEF TsSpec

\* A tech-support job that is done has its own, fresh bundle in the archive.
THEOREM FreshWhenDone == TsSpec => []DoneIsFresh
<1>1. TsInv => DoneIsFresh
  <2> SUFFICES ASSUME TsInv, NEW j \in TsJobs, ts[j].pc = "done"
               PROVE  /\ tsArchive[j] >= ts[j].first
                      /\ HoldsName(bundles[tsArchive[j]], ts[j].name)
    BY DEF DoneIsFresh
  <2> QED
    BY DEF TsInv, TsTyped, TsRecord, FreshJob, Own
<1> QED
  BY <1>1, TsInvariance, PTL

\* The types of the variables of the tech-support jobs.
THEOREM TsTypeCorrect == TsSpec => []TsTypeOK
<1>1. TsInv => TsTypeOK
  BY DEF TsInv, TsTyped, TsRecord, SlotsOwn, TsTypeOK, TsPcs
<1> QED
  BY <1>1, TsInvariance, PTL

-----------------------------------------------------------------------------
(* Capture.                                                                *)

CapPcs == {"new", "remove", "space", "reset", "open", "hold", "close", "dump", "dumping",
           "verify", "egress", "tidy", "judge"} \cup CapOver
AtSink == {"open", "hold", "close"}
CapRecord == [pc : CapPcs, tries : 0..3, met : BOOLEAN, left : BOOLEAN, lost : BOOLEAN]

CapTyped ==
  /\ capOf \in [Caps -> [mode : {"routing", "cdnos", "datapath"}, path : CapPaths]]
  /\ capAt \in [Caps -> CapRecord]
  /\ pcaps \in [CapPaths -> Pcaps] /\ landed \in [CapPaths -> Pcaps]
  /\ sink \in Caps \cup {Closed} /\ dropped \in BOOLEAN

\* A capture that has left something behind is over; one that is not
\* over has tries left.
Leaves(r) == (r.left => r.pc \in {"error", "killed"}) /\ (r.pc \notin CapOver => r.tries < 3)

SinkHeld ==
  \A c \in Caps :
    /\ Leaves(capAt[c])
    /\ sink = c => capAt[c].pc \in {"hold", "close"} \/ capAt[c].left

Sole(c) == \A k \in Caps \ {c} : PathOf(k) # PathOf(c)

\* The files of a capture that shares its name with no other, step by step.
Files(c, r, own, got, at) ==
  /\ own.of \in {c, "none"} /\ got.of \in {c, "none"}
  /\ r.pc \in {"space", "reset", "open", "dump"} => own = NoFile
  /\ r.pc = "dumping" => own = Pcap(c, FALSE)
  /\ r.pc \in {"hold", "close"} => IF at = c THEN own.of = c ELSE own = NoFile \/ r.met
  /\ r.pc \in {"verify", "egress"} => own = NoFile \/ own.whole \/ r.met
  /\ r.pc \in {"tidy", "judge", "ok"} => got = NoFile \/ got.whole \/ r.met \/ r.lost
  /\ r.pc = "ok" => got # NoFile

OwnFiles(c) == Sole(c) => Files(c, capAt[c], pcaps[PathOf(c)], landed[PathOf(c)], sink)

CapInv == CapTyped /\ SinkHeld /\ EngineIsQuiet /\ \A c \in Caps : OwnFiles(c)

\* A capture that goes on from a sink it met closed by another.
LEMMA CapReopened ==
  ASSUME NEW q \in CapRecord, NEW n \in 0..3, NEW pc \in CapPcs, NEW b \in BOOLEAN
  PROVE  [q EXCEPT !.tries = n, !.met = TRUE, !.pc = pc, !.left = b] \in CapRecord
  BY DEF CapRecord

\* Captures are neither of the two names that are no capture.
LEMMA CapturesApart ==
  /\ Closed \notin Caps /\ "none" \notin Caps
  /\ CapSettings \subseteq [Caps -> [mode : {"routing", "cdnos", "datapath"}, path : CapPaths]]
BY CaptureAssumption DEF CaptureAssumption, NoFile

\* The invariant holds before the first capture.
LEMMA CapInitInv == ASSUME CapInit PROVE CapInv
<1> USE CapturesApart DEF CapInit
<1>1. \A c \in Caps : PathOf(c) \in CapPaths
  BY CapturesApart DEF PathOf
<1>2. CapTyped
  <2>1. capAt \in [Caps -> CapRecord]
    BY DEF CapRecord, CapPcs
  <2>2. pcaps \in [CapPaths -> Pcaps] /\ landed \in [CapPaths -> Pcaps]
    BY DEF Pcaps
  <2>3. capOf \in [Caps -> [mode : {"routing", "cdnos", "datapath"}, path : CapPaths]]
    BY CapturesApart
  <2> QED
    BY <2>1, <2>2, <2>3 DEF CapTyped
<1>3. \A c \in Caps : /\ capAt[c].pc = "new" /\ ~capAt[c].left /\ sink # c
                      /\ pcaps[PathOf(c)] = NoFile /\ landed[PathOf(c)] = NoFile
  BY <1>1
<1>4. SinkHeld /\ EngineIsQuiet
  BY <1>3 DEF SinkHeld, Leaves, EngineIsQuiet
<1>5. \A c \in Caps : OwnFiles(c)
  <2>1. NoFile.of = "none"
    BY DEF NoFile
  <2> QED
    BY <1>3, <2>1 DEF OwnFiles, Files
<1> QED
  BY <1>2, <1>4, <1>5 DEF CapInv

\* A capture moves, and takes the sink if it is closed and the capture has
\* tried to; the others stand where they stood.
LEMMA CapMoves ==
  ASSUME CapInv, NEW c \in Caps, NEW r \in CapRecord,
         capAt' = [capAt EXCEPT ![c] = r], capOf' = capOf, dropped' = dropped,
         Leaves(r), capAt[c].left => r.left,
         capAt[c].pc \in AtSink => r.pc \in AtSink \/ r.left,
         \/ sink' = sink /\ (sink = c => r.pc \in {"hold", "close"} \/ r.left)
         \/ sink = Closed /\ sink' = c /\ r.pc = "hold",
         pcaps' \in [CapPaths -> Pcaps], landed' \in [CapPaths -> Pcaps],
         \A p \in CapPaths \ {PathOf(c)} : pcaps'[p] = pcaps[p] /\ landed'[p] = landed[p],
         Sole(c) => Files(c, r, pcaps'[PathOf(c)], landed'[PathOf(c)], sink')
  PROVE  CapInv'
<1>1. capAt'[c] = r /\ \A k \in Caps \ {c} : capAt'[k] = capAt[k]
  BY DEF CapInv, CapTyped
<1>2. \A k \in Caps : PathOf(k)' = PathOf(k) /\ PathOf(k) \in CapPaths
  BY DEF PathOf, CapInv, CapTyped
<1>3. \A k \in Caps : Sole(k)' = Sole(k)
  BY <1>2 DEF Sole
<1>4. CapTyped'
  BY DEF CapInv, CapTyped
<1>5. SinkHeld'
  BY <1>1, CapturesApart DEF CapInv, SinkHeld
<1>6. EngineIsQuiet'
  <2>1. ASSUME dropped' \/ sink' # Closed
        PROVE  \E k \in Caps : capAt'[k].left \/ capAt'[k].pc \in AtSink
    <3>1. CASE sink' = sink
      <4>1. PICK k \in Caps : capAt[k].left \/ capAt[k].pc \in AtSink
        BY <2>1, <3>1 DEF CapInv, EngineIsQuiet, AtSink
      <4>2. CASE k = c
        BY <1>1, <4>1, <4>2
      <4>3. CASE k # c
        BY <1>1, <4>1, <4>3
      <4> QED
        BY <4>2, <4>3
    <3>2. CASE r.pc = "hold"
      BY <1>1, <3>2 DEF AtSink
    <3> QED
      BY <3>1, <3>2
  <2> QED
    BY <2>1 DEF EngineIsQuiet, AtSink
<1>7. ASSUME NEW k \in Caps PROVE OwnFiles(k)'
  <2>1. CASE k = c
    BY <1>1, <1>2, <1>3, <2>1 DEF OwnFiles
  <2>2. CASE k # c
    <3> SUFFICES ASSUME Sole(k)
                 PROVE  Files(k, capAt'[k], pcaps'[PathOf(k)], landed'[PathOf(k)], sink')
      BY <1>2, <1>3 DEF OwnFiles
    <3>1. PathOf(k) # PathOf(c)
      BY <2>2 DEF Sole
    <3>2. /\ capAt'[k] = capAt[k] /\ pcaps'[PathOf(k)] = pcaps[PathOf(k)]
          /\ landed'[PathOf(k)] = landed[PathOf(k)]
      BY <1>1, <1>2, <2>2, <3>1
    <3>3. Files(k, capAt[k], pcaps[PathOf(k)], landed[PathOf(k)], sink)
      BY DEF CapInv, OwnFiles
    <3>4. sink' = k <=> sink = k
      BY <2>2, CapturesApart
    <3> QED
      BY <3>2, <3>3, <3>4 DEF Files
  <2> QED
    BY <2>1, <2>2
<1> QED
  BY <1>4, <1>5, <1>6, <1>7 DEF CapInv

\* A capture finds the sink open, or has it and closes it; those that are at
\* the sink know that they have met another.
LEMMA CapCloses ==
  ASSUME CapInv, NEW c \in Caps, NEW r \in CapRecord,
         capAt' = [Meet(c) EXCEPT ![c] = r], UNCHANGED <<capOf, landed>>,
         dropped' \in BOOLEAN, dropped' => r.pc \in AtSink \/ r.left, Leaves(r),
         \/ sink # c /\ CloseSink
         \/ /\ sink = c /\ sink' = Closed
            /\ \E w \in BOOLEAN : pcaps' = [pcaps EXCEPT ![PathOf(c)] = Pcap(c, w)],
         Sole(c) => Files(c, r, pcaps'[PathOf(c)], landed[PathOf(c)], Closed)
  PROVE  CapInv'
<1>1. /\ capAt'[c] = r
      /\ \A k \in Caps \ {c} :
           \/ capAt'[k] = capAt[k] /\ capAt[k].pc \notin AtSink
           \/ capAt'[k] = [capAt[k] EXCEPT !.met = TRUE]
  BY DEF CapInv, CapTyped, Meet, AtSink
<1>2. \A k \in Caps \ {c} :
        /\ capAt'[k].pc = capAt[k].pc /\ capAt'[k].left = capAt[k].left
        /\ capAt'[k].lost = capAt[k].lost /\ capAt'[k].tries = capAt[k].tries
        /\ capAt'[k].met = capAt[k].met \/ capAt'[k].met
        /\ capAt[k].pc \in AtSink => capAt'[k].met
        /\ capAt'[k] \in CapRecord
  <2> SUFFICES ASSUME NEW k \in Caps \ {c}
               PROVE  /\ capAt'[k].pc = capAt[k].pc /\ capAt'[k].left = capAt[k].left
                      /\ capAt'[k].lost = capAt[k].lost /\ capAt'[k].tries = capAt[k].tries
                      /\ capAt'[k].met = capAt[k].met \/ capAt'[k].met
                      /\ capAt[k].pc \in AtSink => capAt'[k].met
                      /\ capAt'[k] \in CapRecord
    OBVIOUS
  <2>1. capAt[k] \in CapRecord
    BY DEF CapInv, CapTyped
  <2>2. CASE capAt'[k] = capAt[k] /\ capAt[k].pc \notin AtSink
    BY <2>1, <2>2
  <2>3. CASE capAt'[k] = [capAt[k] EXCEPT !.met = TRUE]
    <3>1. capAt'[k] \in CapRecord
      <4>1. \A q \in CapRecord : [q EXCEPT !.met = TRUE] \in CapRecord
        BY DEF CapRecord
      <4> QED
        BY <2>1, <2>3, <4>1
    <3>2. /\ capAt'[k].pc = capAt[k].pc /\ capAt'[k].left = capAt[k].left
          /\ capAt'[k].lost = capAt[k].lost /\ capAt'[k].tries = capAt[k].tries
      BY <2>1, <2>3 DEF CapRecord
    <3>3. capAt'[k].met = TRUE
      BY <2>1, <2>3 DEF CapRecord
    <3> QED
      BY <3>1, <3>2, <3>3
  <2> QED
    BY <1>1, <2>2, <2>3
<1>3. \A k \in Caps : PathOf(k)' = PathOf(k) /\ PathOf(k) \in CapPaths
  BY DEF PathOf, CapInv, CapTyped
<1>4. \A k \in Caps : Sole(k)' = Sole(k)
  BY <1>3 DEF Sole
<1>5. sink' = Closed
  BY DEF CloseSink
<1>6. pcaps' \in [CapPaths -> Pcaps]
  <2>1. ASSUME NEW k \in Caps, NEW w \in BOOLEAN PROVE Pcap(k, w) \in Pcaps
    BY DEF Pcap, Pcaps
  <2>2. CASE sink # c /\ CloseSink
    BY <2>1, <2>2, CapturesApart DEF CloseSink, CapInv, CapTyped
  <2>3. CASE \E w \in BOOLEAN : pcaps' = [pcaps EXCEPT ![PathOf(c)] = Pcap(c, w)]
    <3>1. PICK w \in BOOLEAN : pcaps' = [pcaps EXCEPT ![PathOf(c)] = Pcap(c, w)]
      BY <2>3
    <3>2. Pcap(c, w) \in Pcaps /\ pcaps \in [CapPaths -> Pcaps]
      BY <2>1 DEF CapInv, CapTyped
    <3> QED
      BY <3>1, <3>2
  <2> QED
    BY <2>2, <2>3
<1>7. CapTyped'
  <2>1. capAt' \in [Caps -> CapRecord]
    BY <1>1, <1>2 DEF Meet
  <2> QED
    BY <1>5, <1>6, <2>1 DEF CapInv, CapTyped
<1>8. SinkHeld'
  BY <1>1, <1>2, <1>5, CapturesApart DEF CapInv, SinkHeld, Leaves
<1>9. EngineIsQuiet'
  BY <1>1, <1>5 DEF EngineIsQuiet, AtSink
<1>10. ASSUME NEW k \in Caps PROVE OwnFiles(k)'
  <2>1. CASE k = c
    BY <1>1, <1>3, <1>4, <1>5, <2>1 DEF OwnFiles
  <2>2. CASE k # c
    <3> SUFFICES ASSUME Sole(k)
                 PROVE  Files(k, capAt'[k], pcaps'[PathOf(k)], landed[PathOf(k)], Closed)
      BY <1>3, <1>4, <1>5 DEF OwnFiles
    <3> DEFINE p == PathOf(k)
    <3>1. Files(k, capAt[k], pcaps[p], landed[p], sink)
      BY DEF CapInv, OwnFiles
    <3>2. p # PathOf(c) /\ p \in CapPaths
      BY <1>3, <2>2 DEF Sole
    <3>3. CASE sink = k
      <4>1. CloseSink /\ sink # Closed
        BY <2>2, <3>3, CapturesApart
      <4>2. pcaps'[p] = pcaps[p] \/ (pcaps[p].of = k /\ pcaps'[p] = Pcap(k, FALSE))
        BY <3>2, <3>3, <4>1 DEF CloseSink, CapInv, CapTyped
      <4>3. capAt[k].pc \in {"hold", "close"} \/ capAt[k].pc \in {"error", "killed"}
        BY <3>3 DEF CapInv, SinkHeld, Leaves
      <4>4. pcaps'[p].of = pcaps[p].of
        BY <4>2 DEF Pcap
      <4>5. k # Closed
        BY CapturesApart
      <4> QED
        BY <1>2, <2>2, <3>1, <4>3, <4>4, <4>5 DEF Files, AtSink
    <3>4. CASE sink # k
      <4>1. pcaps'[p] = pcaps[p]
        <5>1. CASE sink = Closed \/ sink = c
          BY <3>2, <5>1 DEF CloseSink, CapInv, CapTyped
        <5>2. CASE sink # Closed /\ sink # c
          <6>1. PathOf(sink) # p
            BY <3>4, <5>2 DEF Sole, CapInv, CapTyped
          <6> QED
            BY <3>2, <5>2, <6>1 DEF CloseSink, CapInv, CapTyped
        <5> QED
          BY <5>1, <5>2
      <4>2. k # Closed
        BY CapturesApart
      <4> QED
        BY <1>2, <2>2, <3>1, <3>4, <4>1, <4>2 DEF Files
    <3> QED
      BY <3>3, <3>4
  <2> QED
    BY <2>1, <2>2
<1> QED
  BY <1>7, <1>8, <1>9, <1>10 DEF CapInv

\* Every command of every capture, and every cut, keeps the invariant.
LEMMA CapStepInv == ASSUME CapInv, [CapNext]_capVars PROVE CapInv'
<1>1. ASSUME NEW k \in Caps
      PROVE  /\ capAt[k] \in CapRecord /\ capAt[k].pc \in CapPcs /\ capAt[k].tries \in 0..3
             /\ capAt[k].met \in BOOLEAN /\ capAt[k].left \in BOOLEAN /\ capAt[k].lost \in BOOLEAN
             /\ PathOf(k) \in CapPaths /\ pcaps[PathOf(k)] \in Pcaps /\ landed[PathOf(k)] \in Pcaps
             /\ Leaves(capAt[k])
             /\ sink = k => capAt[k].pc \in {"hold", "close"} \/ capAt[k].left
             /\ Sole(k) => Files(k, capAt[k], pcaps[PathOf(k)], landed[PathOf(k)], sink)
  BY DEF CapInv, CapTyped, CapRecord, PathOf, SinkHeld, OwnFiles
<1>2. /\ pcaps \in [CapPaths -> Pcaps] /\ landed \in [CapPaths -> Pcaps]
      /\ capAt \in [Caps -> CapRecord]
  BY DEF CapInv, CapTyped
<1>3. /\ NoFile \in Pcaps /\ NoFile.of = "none"
      /\ \A k \in Caps, w \in BOOLEAN :
            Pcap(k, w) \in Pcaps /\ Pcap(k, w).of = k /\ Pcap(k, w).whole = w
  BY DEF NoFile, Pcap, Pcaps
\* A capture that is not at the sink goes on to pc, with what it has in /tmp
\* and has landed.
<1>4. ASSUME NEW c \in Caps, NEW pc \in CapPcs, CapGoto(c, pc), UNCHANGED <<capOf, sink, dropped>>,
             NEW f \in Pcaps, pcaps' = [pcaps EXCEPT ![PathOf(c)] = f],
             NEW g \in Pcaps, landed' = [landed EXCEPT ![PathOf(c)] = g],
             capAt[c].pc \notin AtSink \cup CapOver, pc \notin AtSink,
             Sole(c) => Files(c, [capAt[c] EXCEPT !.pc = pc], f, g, sink)
      PROVE  CapInv'
  <2> DEFINE r == [capAt[c] EXCEPT !.pc = pc]
  <2>1. r \in CapRecord /\ r.pc = pc /\ r.left = capAt[c].left /\ r.tries = capAt[c].tries
    BY <1>1 DEF CapRecord
  <2>2. capAt' = [capAt EXCEPT ![c] = r]
    BY <1>2, <1>4 DEF CapGoto
  <2>3. ~capAt[c].left /\ sink # c
    BY <1>1, <1>4 DEF Leaves, AtSink, CapOver
  <2>4. Leaves(r)
    BY <1>1, <1>4, <2>1, <2>3 DEF Leaves
  <2>5. /\ pcaps' \in [CapPaths -> Pcaps] /\ landed' \in [CapPaths -> Pcaps]
        /\ pcaps'[PathOf(c)] = f /\ landed'[PathOf(c)] = g
        /\ \A p \in CapPaths \ {PathOf(c)} : pcaps'[p] = pcaps[p] /\ landed'[p] = landed[p]
    BY <1>1, <1>2, <1>4
  <2>6. Sole(c) => Files(c, r, pcaps'[PathOf(c)], landed'[PathOf(c)], sink')
    BY <1>4, <2>5
  <2> HIDE DEF r
  <2> QED
    BY <1>4, <2>1, <2>2, <2>3, <2>4, <2>5, <2>6, CapMoves
\* The same, and neither file changes.
<1>5. ASSUME NEW c \in Caps, NEW pc \in CapPcs, CapGoto(c, pc),
             UNCHANGED <<capOf, pcaps, landed, sink, dropped>>,
             capAt[c].pc \notin AtSink \cup CapOver, pc \notin AtSink,
             Sole(c) => Files(c, [capAt[c] EXCEPT !.pc = pc], pcaps[PathOf(c)],
                              landed[PathOf(c)], sink)
      PROVE  CapInv'
  <2>1. /\ pcaps' = [pcaps EXCEPT ![PathOf(c)] = pcaps[PathOf(c)]]
        /\ landed' = [landed EXCEPT ![PathOf(c)] = landed[PathOf(c)]]
    BY <1>2, <1>5
  <2> QED
    BY <1>1, <1>4, <1>5, <2>1
<1>6. ASSUME NEW c \in Caps, NEW pc \in CapPcs
      PROVE  LET r == [capAt[c] EXCEPT !.pc = pc] IN
             r.pc = pc /\ r.met = capAt[c].met /\ r.lost = capAt[c].lost
  BY <1>1 DEF CapRecord
<1>7. ASSUME NEW c \in Caps, EnterShell(c) PROVE CapInv'
  <2>1. PICK pc \in {"remove", "error"} : CapGoto(c, pc)
    BY <1>7 DEF EnterShell
  <2>2. capAt[c].pc = "new" /\ UNCHANGED <<capOf, pcaps, landed, sink, dropped>>
    BY <1>7 DEF EnterShell
  <2>3. pc \in CapPcs /\ pc \notin AtSink /\ capAt[c].pc \notin AtSink \cup CapOver
    BY <2>2 DEF CapPcs, CapOver, AtSink
  <2>4. Sole(c) => Files(c, [capAt[c] EXCEPT !.pc = pc], pcaps[PathOf(c)], landed[PathOf(c)], sink)
    BY <1>1, <1>6, <2>3 DEF Files
  <2> QED
    BY <1>5, <2>1, <2>2, <2>3, <2>4
<1>8. ASSUME NEW c \in Caps, RemoveOld(c) PROVE CapInv'
  <2>1. PICK pc \in {"space", "dump"} : CapGoto(c, pc)
    BY <1>8 DEF RemoveOld
  <2>2. /\ capAt[c].pc = "remove" /\ UNCHANGED <<capOf, landed, sink, dropped>>
        /\ pcaps' = [pcaps EXCEPT ![PathOf(c)] = NoFile]
        /\ landed' = [landed EXCEPT ![PathOf(c)] = landed[PathOf(c)]]
    BY <1>2, <1>8 DEF RemoveOld
  <2>3. pc \in CapPcs /\ pc \notin AtSink /\ capAt[c].pc \notin AtSink \cup CapOver
    BY <2>2 DEF CapPcs, CapOver, AtSink
  <2>4. Sole(c) => Files(c, [capAt[c] EXCEPT !.pc = pc], NoFile, landed[PathOf(c)], sink)
    BY <1>1, <1>3, <1>6, <2>3 DEF Files
  <2> QED
    BY <1>1, <1>3, <1>4, <2>1, <2>2, <2>3, <2>4
<1>9. ASSUME NEW c \in Caps, Tcpdump(c) PROVE CapInv'
  <2>1. PICK pc \in {"dumping"} : CapGoto(c, pc)
    BY <1>9 DEF Tcpdump
  <2>2. capAt[c].pc = "dump" /\ UNCHANGED <<capOf, landed, sink, dropped>>
    BY <1>9 DEF Tcpdump
  <2>3. pc \in CapPcs /\ pc \notin AtSink /\ capAt[c].pc \notin AtSink \cup CapOver
    BY <2>2 DEF CapPcs, CapOver, AtSink
  <2>4. /\ pcaps' = [pcaps EXCEPT ![PathOf(c)] = Pcap(c, FALSE)]
        /\ landed' = [landed EXCEPT ![PathOf(c)] = landed[PathOf(c)]]
    BY <1>2, <1>9 DEF Tcpdump
  <2>5. Sole(c) => Files(c, [capAt[c] EXCEPT !.pc = pc], Pcap(c, FALSE), landed[PathOf(c)], sink)
    BY <1>1, <1>3, <1>6, <2>3 DEF Files
  <2> QED
    BY <1>1, <1>3, <1>4, <2>1, <2>2, <2>3, <2>4, <2>5
<1>10. ASSUME NEW c \in Caps, TcpdumpEnds(c) PROVE CapInv'
  <2>1. PICK pc \in {"verify", "error"} : CapGoto(c, pc)
    BY <1>10 DEF TcpdumpEnds
  <2>2. capAt[c].pc = "dumping" /\ UNCHANGED <<capOf, landed, sink, dropped>>
    BY <1>10 DEF TcpdumpEnds
  <2>3. pc \in CapPcs /\ pc \notin AtSink /\ capAt[c].pc \notin AtSink \cup CapOver
    BY <2>2 DEF CapPcs, CapOver, AtSink
  <2> DEFINE f == IF pcaps[PathOf(c)] = Pcap(c, FALSE) THEN Pcap(c, TRUE) ELSE pcaps[PathOf(c)]
  <2>4. /\ pcaps' = [pcaps EXCEPT ![PathOf(c)] = f]
        /\ landed' = [landed EXCEPT ![PathOf(c)] = landed[PathOf(c)]]
    BY <1>1, <1>2, <1>10 DEF TcpdumpEnds
  <2>5. Pcap(c, TRUE) \in Pcaps /\ Pcap(c, TRUE).of = c /\ Pcap(c, TRUE).whole
    BY <1>3
  <2>6. f \in Pcaps
    BY <1>1, <2>5
  <2>7. Sole(c) => f = Pcap(c, TRUE)
    BY <1>1, <2>2 DEF Files
  <2> HIDE DEF f
  <2>8. Sole(c) => Files(c, [capAt[c] EXCEPT !.pc = pc], f, landed[PathOf(c)], sink)
    BY <1>1, <1>6, <2>3, <2>5, <2>7 DEF Files
  <2> QED
    BY <1>1, <1>4, <2>1, <2>2, <2>3, <2>4, <2>6, <2>8
<1>11. ASSUME NEW c \in Caps, FreeSpace(c) PROVE CapInv'
  <2>1. PICK pc \in {"reset", "error"} : CapGoto(c, pc)
    BY <1>11 DEF FreeSpace
  <2>2. capAt[c].pc = "space" /\ UNCHANGED <<capOf, pcaps, landed, sink, dropped>>
    BY <1>11 DEF FreeSpace
  <2>3. pc \in CapPcs /\ pc \notin AtSink /\ capAt[c].pc \notin AtSink \cup CapOver
    BY <2>2 DEF CapPcs, CapOver, AtSink
  <2>4. Sole(c) => Files(c, [capAt[c] EXCEPT !.pc = pc], pcaps[PathOf(c)], landed[PathOf(c)], sink)
    BY <1>1, <1>6, <2>2, <2>3 DEF Files
  <2> QED
    BY <1>5, <2>1, <2>2, <2>3, <2>4
<1>12. ASSUME NEW c \in Caps, ResetSink(c) PROVE CapInv'
  <2> DEFINE r == [capAt[c] EXCEPT !.pc = "open",
                     !.met = \E k \in Caps \ {c} : capAt[k].pc \in {"open", "hold", "close"}]
  <2>1. /\ capAt[c].pc = "reset" /\ CloseSink /\ dropped' = TRUE /\ UNCHANGED <<capOf, landed>>
    BY <1>12 DEF ResetSink
  <2>2. capAt' = [Meet(c) EXCEPT ![c] = r]
    BY <1>1, <1>2, <1>12 DEF ResetSink, Meet
  <2>3. ~capAt[c].left /\ sink # c
    BY <1>1, <2>1 DEF Leaves
  <2>4. /\ r \in CapRecord /\ r.pc = "open" /\ r.left = capAt[c].left /\ r.tries = capAt[c].tries
    BY <1>1 DEF CapRecord, CapPcs
  <2> HIDE DEF r
  <2>5. Leaves(r)
    BY <1>1, <2>1, <2>3, <2>4 DEF Leaves, CapOver
  <2>6. Sole(c) => Files(c, r, pcaps'[PathOf(c)], landed[PathOf(c)], Closed)
    <3> SUFFICES ASSUME Sole(c) PROVE Files(c, r, pcaps'[PathOf(c)], landed[PathOf(c)], Closed)
      OBVIOUS
    <3>1. pcaps[PathOf(c)] = NoFile /\ landed[PathOf(c)].of \in {c, "none"}
      BY <1>1, <2>1 DEF Files
    <3>2. sink # Closed => sink \in Caps /\ PathOf(sink) # PathOf(c)
      BY <2>3 DEF CapInv, CapTyped, Sole
    <3>3. pcaps'[PathOf(c)] = NoFile
      BY <1>1, <1>2, <2>1, <3>1, <3>2 DEF CloseSink
    <3> QED
      BY <1>3, <2>4, <3>1, <3>3 DEF Files
  <2>7. dropped' \in BOOLEAN /\ r.pc \in AtSink
    BY <2>1, <2>4 DEF AtSink
  <2> QED
    BY <2>1, <2>2, <2>3, <2>4, <2>5, <2>6, <2>7, CapCloses
<1>13. ASSUME NEW c \in Caps, OpenSink(c) PROVE CapInv'
  <2>1. capAt[c].pc = "open" /\ UNCHANGED <<capOf, landed, dropped>>
    BY <1>13 DEF OpenSink
  <2>2. ~capAt[c].left /\ sink # c /\ capAt[c].tries \in 0..2
    BY <1>1, <2>1 DEF Leaves, CapOver
  <2>3. Sole(c) => /\ pcaps[PathOf(c)] = NoFile /\ landed[PathOf(c)].of \in {c, "none"}
    BY <1>1, <2>1 DEF Files
  <2>4. c # Closed
    BY CapturesApart
  <2>5. landed' \in [CapPaths -> Pcaps] /\ \A p \in CapPaths : landed'[p] = landed[p]
    BY <1>2, <2>1
  <2>6. CASE /\ sink = Closed /\ sink' = c /\ CapGoto(c, "hold")
             /\ pcaps' = [pcaps EXCEPT ![PathOf(c)] = Pcap(c, FALSE)]
    <3> DEFINE r == [capAt[c] EXCEPT !.pc = "hold"]
    <3>1. r \in CapRecord /\ r.pc = "hold" /\ r.left = capAt[c].left /\ r.tries = capAt[c].tries
      BY <1>1 DEF CapRecord, CapPcs
    <3>2. capAt' = [capAt EXCEPT ![c] = r]
      BY <1>2, <2>6 DEF CapGoto
    <3> HIDE DEF r
    <3>3. Leaves(r) /\ r.pc \in AtSink
      BY <2>2, <3>1 DEF Leaves, AtSink
    <3>4. /\ pcaps' \in [CapPaths -> Pcaps] /\ pcaps'[PathOf(c)] = Pcap(c, FALSE)
          /\ \A p \in CapPaths \ {PathOf(c)} : pcaps'[p] = pcaps[p]
      BY <1>1, <1>2, <1>3, <2>6
    <3>5. Sole(c) => Files(c, r, pcaps'[PathOf(c)], landed'[PathOf(c)], sink')
      BY <1>3, <2>1, <2>3, <2>6, <3>1, <3>4 DEF Files
    <3> QED
      BY <2>1, <2>2, <2>5, <2>6, <3>1, <3>2, <3>3, <3>4, <3>5, CapMoves
  <2>7. CASE capAt' = [capAt EXCEPT ![c].pc = "error", ![c].left = TRUE] /\ UNCHANGED <<sink, pcaps>>
    <3> DEFINE r == [capAt[c] EXCEPT !.pc = "error", !.left = TRUE]
    <3>1. r \in CapRecord /\ r.pc = "error" /\ r.left = TRUE
      BY <1>1 DEF CapRecord, CapPcs, CapOver
    <3>2. capAt' = [capAt EXCEPT ![c] = r]
      BY <1>2, <2>7
    <3> HIDE DEF r
    <3>3. Leaves(r)
      BY <3>1 DEF Leaves, CapOver
    <3>4. pcaps' \in [CapPaths -> Pcaps] /\ \A p \in CapPaths : pcaps'[p] = pcaps[p]
      BY <1>2, <2>7
    <3>5. Sole(c) => Files(c, r, pcaps'[PathOf(c)], landed'[PathOf(c)], sink')
      BY <1>3, <2>1, <2>3, <2>7, <3>1 DEF Files
    <3> QED
      BY <2>1, <2>2, <2>5, <2>7, <3>1, <3>2, <3>3, <3>4, <3>5, CapMoves
  <2>8. CASE CapGoto(c, "hold") /\ UNCHANGED <<sink, pcaps>>
    <3> DEFINE r == [capAt[c] EXCEPT !.pc = "hold"]
    <3>1. r \in CapRecord /\ r.pc = "hold" /\ r.left = capAt[c].left /\ r.tries = capAt[c].tries
      BY <1>1 DEF CapRecord, CapPcs
    <3>2. capAt' = [capAt EXCEPT ![c] = r]
      BY <1>2, <2>8 DEF CapGoto
    <3> HIDE DEF r
    <3>3. Leaves(r) /\ r.pc \in AtSink
      BY <2>2, <3>1 DEF Leaves, AtSink
    <3>4. pcaps' \in [CapPaths -> Pcaps] /\ \A p \in CapPaths : pcaps'[p] = pcaps[p]
      BY <1>2, <2>8
    <3>5. Sole(c) => Files(c, r, pcaps'[PathOf(c)], landed'[PathOf(c)], sink')
      BY <1>3, <2>1, <2>2, <2>3, <2>8, <3>1 DEF Files
    <3> QED
      BY <2>1, <2>2, <2>5, <2>8, <3>1, <3>2, <3>3, <3>4, <3>5, CapMoves
  <2>9. CASE /\ CloseSink
             /\ capAt' = [Meet(c) EXCEPT ![c].tries = @ + 1, ![c].met = TRUE,
                            ![c].pc = IF capAt[c].tries = 2 THEN "error" ELSE "open",
                            ![c].left = capAt[c].tries = 2]
    <3> DEFINE r == [capAt[c] EXCEPT !.tries = capAt[c].tries + 1, !.met = TRUE,
                       !.pc = IF capAt[c].tries = 2 THEN "error" ELSE "open",
                       !.left = capAt[c].tries = 2]
    <3>1. capAt' = [Meet(c) EXCEPT ![c] = r]
      BY <1>2, <2>9 DEF Meet
    <3>2. r.pc = (IF capAt[c].tries = 2 THEN "error" ELSE "open") /\ r.tries = capAt[c].tries + 1
      BY <1>1 DEF CapRecord
    <3>3. r.left <=> capAt[c].tries = 2
      BY <1>1 DEF CapRecord
    <3>4. r \in CapRecord
      <4>1. capAt[c].tries + 1 \in 0..3 /\ "error" \in CapPcs /\ "open" \in CapPcs
        BY <2>2 DEF CapPcs, CapOver
      <4>2. CASE capAt[c].tries = 2
        <5>1. r = [capAt[c] EXCEPT !.tries = capAt[c].tries + 1, !.met = TRUE, !.pc = "error",
                                   !.left = TRUE]
          BY <4>2
        <5> QED
          BY <1>1, <4>1, <5>1, CapReopened
      <4>3. CASE capAt[c].tries # 2
        <5>1. r = [capAt[c] EXCEPT !.tries = capAt[c].tries + 1, !.met = TRUE, !.pc = "open",
                                   !.left = FALSE]
          BY <4>3
        <5> QED
          BY <1>1, <4>1, <5>1, CapReopened
      <4> QED
        BY <4>2, <4>3
    <3> HIDE DEF r
    <3>5. Leaves(r)
      BY <2>2, <3>2, <3>3 DEF Leaves, CapOver
    <3>6. Sole(c) => Files(c, r, pcaps'[PathOf(c)], landed[PathOf(c)], Closed)
      <4> SUFFICES ASSUME Sole(c) PROVE Files(c, r, pcaps'[PathOf(c)], landed[PathOf(c)], Closed)
        OBVIOUS
      <4>1. sink # Closed => sink \in Caps /\ PathOf(sink) # PathOf(c)
        BY <2>2 DEF CapInv, CapTyped, Sole
      <4>2. pcaps'[PathOf(c)] = NoFile
        BY <1>1, <1>2, <2>3, <2>9, <4>1 DEF CloseSink
      <4> QED
        BY <1>3, <2>3, <3>2, <4>2 DEF Files
    <3>7. dropped' \in BOOLEAN /\ (r.pc \in AtSink \/ r.left)
      BY <2>1, <3>2, <3>3 DEF AtSink, CapInv, CapTyped
    <3> QED
      BY <2>1, <2>2, <2>9, <3>1, <3>4, <3>5, <3>6, <3>7, CapCloses
  <2> QED
    BY <1>13, <2>6, <2>7, <2>8, <2>9 DEF OpenSink
<1>14. ASSUME NEW c \in Caps, Hold(c) PROVE CapInv'
  <2>1. /\ capAt[c].pc = "hold" /\ CapGoto(c, "close")
        /\ UNCHANGED <<capOf, pcaps, landed, sink, dropped>>
    BY <1>14 DEF Hold
  <2> DEFINE r == [capAt[c] EXCEPT !.pc = "close"]
  <2>2. /\ r \in CapRecord /\ r.pc = "close" /\ r.left = capAt[c].left /\ r.tries = capAt[c].tries
        /\ r.met = capAt[c].met
    BY <1>1 DEF CapRecord, CapPcs
  <2>3. capAt' = [capAt EXCEPT ![c] = r]
    BY <1>2, <2>1 DEF CapGoto
  <2> HIDE DEF r
  <2>4. Leaves(r) /\ r.pc \in AtSink /\ ~capAt[c].left
    BY <1>1, <2>1, <2>2 DEF Leaves, AtSink, CapOver
  <2>5. Sole(c) => Files(c, r, pcaps'[PathOf(c)], landed'[PathOf(c)], sink')
    BY <1>1, <2>1, <2>2 DEF Files
  <2>6. /\ pcaps' \in [CapPaths -> Pcaps] /\ landed' \in [CapPaths -> Pcaps]
        /\ \A p \in CapPaths : pcaps'[p] = pcaps[p] /\ landed'[p] = landed[p]
    BY <1>2, <2>1
  <2> QED
    BY <2>1, <2>2, <2>3, <2>4, <2>5, <2>6, CapMoves
<1>15. ASSUME NEW c \in Caps, CloseCapture(c) PROVE CapInv'
  <2> DEFINE r == [capAt[c] EXCEPT !.pc = "verify"]
  <2>1. capAt[c].pc = "close" /\ dropped' = FALSE /\ UNCHANGED <<capOf, landed>>
    BY <1>15 DEF CloseCapture
  <2>2. /\ r \in CapRecord /\ r.pc = "verify" /\ r.left = capAt[c].left /\ r.tries = capAt[c].tries
        /\ r.met = capAt[c].met
    BY <1>1 DEF CapRecord, CapPcs
  <2>3. capAt' = [Meet(c) EXCEPT ![c] = r]
    BY <1>2, <1>15 DEF CloseCapture, Meet
  <2> HIDE DEF r
  <2>4. Leaves(r) /\ dropped' \in BOOLEAN
    BY <1>1, <2>1, <2>2 DEF Leaves, CapOver
  <2>5. CASE sink = c
    <3>1. sink' = Closed /\ pcaps' = [pcaps EXCEPT ![PathOf(c)] = Pcap(c, TRUE)]
      BY <1>15, <2>5 DEF CloseCapture
    <3>2. pcaps'[PathOf(c)] = Pcap(c, TRUE)
      BY <1>1, <1>2, <3>1
    <3>3. Sole(c) => Files(c, r, pcaps'[PathOf(c)], landed[PathOf(c)], Closed)
      <4>1. Pcap(c, TRUE).of = c /\ Pcap(c, TRUE).whole
        BY DEF Pcap
      <4> QED
        BY <1>1, <2>2, <3>2, <4>1 DEF Files
    <3>4. \E w \in BOOLEAN : pcaps' = [pcaps EXCEPT ![PathOf(c)] = Pcap(c, w)]
      BY <3>1
    <3> QED
      BY <2>1, <2>2, <2>3, <2>4, <2>5, <3>1, <3>3, <3>4, CapCloses
  <2>6. CASE sink # c
    <3>1. CloseSink
      BY <1>15, <2>6 DEF CloseCapture
    <3>2. ASSUME Sole(c) PROVE Files(c, r, pcaps'[PathOf(c)], landed[PathOf(c)], Closed)
      <4>1. sink # Closed => sink \in Caps /\ PathOf(sink) # PathOf(c)
        BY <2>6, <3>2 DEF CapInv, CapTyped, Sole
      <4>2. pcaps'[PathOf(c)] = pcaps[PathOf(c)]
        BY <1>1, <1>2, <3>1, <4>1 DEF CloseSink
      <4> QED
        BY <1>1, <2>1, <2>2, <2>6, <3>2, <4>2 DEF Files
    <3> QED
      BY <2>1, <2>2, <2>3, <2>4, <2>6, <3>1, <3>2, CapCloses
  <2> QED
    BY <2>5, <2>6
<1>16. ASSUME NEW c \in Caps, VerifyPcap(c) PROVE CapInv'
  <2>1. PICK pc \in {"egress", "error"} : CapGoto(c, pc)
    BY <1>16 DEF VerifyPcap
  <2>2. capAt[c].pc = "verify" /\ UNCHANGED <<capOf, pcaps, landed, sink, dropped>>
    BY <1>16 DEF VerifyPcap
  <2>3. pc \in CapPcs /\ pc \notin AtSink /\ capAt[c].pc \notin AtSink \cup CapOver
    BY <2>2 DEF CapPcs, CapOver, AtSink
  <2>4. Sole(c) => Files(c, [capAt[c] EXCEPT !.pc = pc], pcaps[PathOf(c)], landed[PathOf(c)], sink)
    BY <1>1, <1>6, <2>2, <2>3 DEF Files
  <2> QED
    BY <1>5, <2>1, <2>2, <2>3, <2>4
<1>17. ASSUME NEW c \in Caps, Tidy(c) PROVE CapInv'
  <2>1. PICK pc \in {"judge"} : CapGoto(c, pc)
    BY <1>17 DEF Tidy
  <2>2. capAt[c].pc = "tidy" /\ UNCHANGED <<capOf, landed, sink, dropped>>
    BY <1>17 DEF Tidy
  <2>3. pc \in CapPcs /\ pc \notin AtSink /\ capAt[c].pc \notin AtSink \cup CapOver
    BY <2>2 DEF CapPcs, CapOver, AtSink
  <2>4. /\ pcaps' = [pcaps EXCEPT ![PathOf(c)] = NoFile]
        /\ landed' = [landed EXCEPT ![PathOf(c)] = landed[PathOf(c)]]
    BY <1>2, <1>17 DEF Tidy
  <2>5. ASSUME Sole(c)
        PROVE  Files(c, [capAt[c] EXCEPT !.pc = pc], NoFile, landed[PathOf(c)], sink)
    <3>1. PICK q, r, got : q = capAt[c] /\ r = [q EXCEPT !.pc = pc] /\ got = landed[PathOf(c)]
      OBVIOUS
    <3>2. r.pc = "judge" /\ r.met = q.met /\ r.lost = q.lost /\ q.pc = "tidy"
      BY <1>6, <2>2, <2>3, <3>1
    <3>3. /\ got.of \in {c, "none"}
          /\ q.pc \in {"tidy", "judge", "ok"} => got = NoFile \/ got.whole \/ q.met \/ q.lost
      BY <1>1, <2>5, <3>1 DEF Files
    <3>4. Files(c, r, NoFile, got, sink)
      BY ONLY <1>3, <3>2, <3>3 DEF Files
    <3> QED
      BY <3>1, <3>4
  <2> QED
    BY <1>1, <1>3, <1>4, <2>1, <2>2, <2>3, <2>4, <2>5
<1>18. ASSUME NEW c \in Caps, JudgePcap(c) PROVE CapInv'
  <2>1. PICK pc \in {"error", "ok"} : CapGoto(c, pc) /\ (pc = "ok" => landed[PathOf(c)] # NoFile)
    BY <1>18 DEF JudgePcap
  <2>2. capAt[c].pc = "judge" /\ UNCHANGED <<capOf, pcaps, landed, sink, dropped>>
    BY <1>18 DEF JudgePcap
  <2>3. pc \in CapPcs /\ pc \notin AtSink /\ capAt[c].pc \notin AtSink \cup CapOver
    BY <2>2 DEF CapPcs, CapOver, AtSink
  <2>4. Sole(c) => Files(c, [capAt[c] EXCEPT !.pc = pc], pcaps[PathOf(c)], landed[PathOf(c)], sink)
    BY <1>1, <1>6, <2>1, <2>2, <2>3 DEF Files
  <2> QED
    BY <1>5, <2>1, <2>2, <2>3, <2>4
<1>19. ASSUME NEW c \in Caps, Push(c) PROVE CapInv'
  <2> DEFINE p == PathOf(c)
  <2>1. capAt[c].pc = "egress" /\ UNCHANGED <<capOf, sink, dropped>>
    BY <1>19 DEF Push
  <2>2. capAt[c].pc \notin AtSink \cup CapOver /\ {"judge", "error"} \subseteq CapPcs \ AtSink
    BY <2>1 DEF CapPcs, CapOver, AtSink
  <2> DEFINE part == Pcap(pcaps[p].of, FALSE)
  <2>3. part \in Pcaps /\ part.of = pcaps[p].of
    <3>1. CASE pcaps[p] = NoFile
      <4>1. part = NoFile
        BY <3>1 DEF NoFile, Pcap
      <4> QED
        BY <1>3, <3>1, <4>1
    <3>2. CASE pcaps[p] \in [of : Caps, whole : BOOLEAN]
      <4>1. part \in [of : Caps, whole : BOOLEAN] /\ part.of = pcaps[p].of
        BY <3>2 DEF Pcap
      <4> QED
        BY <4>1 DEF Pcaps
    <3> QED
      BY <1>1, <3>1, <3>2 DEF Pcaps
  <2>4. Sole(c) => /\ pcaps[p].of \in {c, "none"} /\ landed[p].of \in {c, "none"}
                   /\ pcaps[p] = NoFile \/ pcaps[p].whole \/ capAt[c].met
    BY <1>1, <2>1 DEF Files
  <2> HIDE DEF part
  <2>5. CASE Pushed(c)
    <3>1. /\ CapGoto(c, "judge") /\ landed' = [landed EXCEPT ![p] = pcaps[p]]
          /\ pcaps' = [pcaps EXCEPT ![p] = NoFile]
      BY <2>5 DEF Pushed
    <3>2. Sole(c) => Files(c, [capAt[c] EXCEPT !.pc = "judge"], NoFile, pcaps[p], sink)
      BY <1>1, <1>3, <1>6, <2>2, <2>4 DEF Files
    <3> QED
      BY <1>1, <1>3, <1>4, <2>1, <2>2, <3>1, <3>2
  <2>6. ASSUME PushedPart(c)
        PROVE  /\ pcaps' = pcaps
               /\ \E g \in {landed[p], part} : landed' = [landed EXCEPT ![p] = g]
    BY <1>1, <1>2, <2>6 DEF PushedPart, part
  <2>7. CASE PushedPart(c) /\ CapGoto(c, "error")
    <3>1. PICK g \in {landed[p], part} : landed' = [landed EXCEPT ![p] = g]
      BY <2>6, <2>7
    <3>2. pcaps' = [pcaps EXCEPT ![p] = pcaps[p]] /\ g \in Pcaps
      BY <1>1, <1>2, <2>3, <2>6, <2>7
    <3>3. Sole(c) => Files(c, [capAt[c] EXCEPT !.pc = "error"], pcaps[p], g, sink)
      BY <1>1, <1>3, <1>6, <2>2, <2>3, <2>4 DEF Files
    <3> QED
      BY <1>1, <1>4, <2>1, <2>2, <2>7, <3>1, <3>2, <3>3
  <2>8. CASE PushedPart(c) /\ capAt' = [capAt EXCEPT ![c].pc = "judge", ![c].lost = TRUE]
    <3> DEFINE r == [capAt[c] EXCEPT !.pc = "judge", !.lost = TRUE]
    <3>1. PICK g \in {landed[p], part} : landed' = [landed EXCEPT ![p] = g]
      BY <2>6, <2>8
    <3>2. /\ r \in CapRecord /\ r.pc = "judge" /\ r.left = capAt[c].left
          /\ r.tries = capAt[c].tries /\ r.lost
      BY <1>1, <2>2 DEF CapRecord
    <3>3. capAt' = [capAt EXCEPT ![c] = r]
      BY <1>2, <2>8
    <3> HIDE DEF r
    <3>4. Leaves(r) /\ ~capAt[c].left /\ sink # c
      BY <1>1, <2>1, <2>2, <3>2 DEF Leaves, CapOver
    <3>5. g \in Pcaps /\ (Sole(c) => g.of \in {c, "none"})
      BY <1>1, <2>3, <2>4
    <3>6. /\ pcaps' \in [CapPaths -> Pcaps] /\ landed' \in [CapPaths -> Pcaps]
          /\ pcaps'[p] = pcaps[p] /\ landed'[p] = g
          /\ \A q \in CapPaths \ {p} : pcaps'[q] = pcaps[q] /\ landed'[q] = landed[q]
      BY <1>1, <1>2, <2>6, <2>8, <3>1, <3>5
    <3>7. Sole(c) => Files(c, r, pcaps'[p], landed'[p], sink')
      BY <2>4, <3>2, <3>5, <3>6 DEF Files
    <3> QED
      BY <2>1, <2>2, <3>2, <3>3, <3>4, <3>6, <3>7, CapMoves
  <2> QED
    BY <1>19, <2>5, <2>7, <2>8 DEF Push
<1>20. ASSUME NEW c \in Caps, Pull(c) PROVE CapInv'
  <2> DEFINE p == PathOf(c)
  <2>1. capAt[c].pc = "egress" /\ UNCHANGED <<capOf, pcaps, sink, dropped>>
    BY <1>20 DEF Pull
  <2>2. capAt[c].pc \notin AtSink \cup CapOver /\ {"tidy", "error"} \subseteq CapPcs \ AtSink
    BY <2>1 DEF CapPcs, CapOver, AtSink
  <2>0. Sole(c) => /\ pcaps[p].of \in {c, "none"} /\ landed[p].of \in {c, "none"}
                   /\ pcaps[p] = NoFile \/ pcaps[p].whole \/ capAt[c].met
    BY <1>1, <2>1 DEF Files
  <2>3. CASE CapGoto(c, "error") /\ UNCHANGED landed
    <3>1. Sole(c) => Files(c, [capAt[c] EXCEPT !.pc = "error"], pcaps[p], landed[p], sink)
      BY <1>6, <2>0, <2>2 DEF Files
    <3> QED
      BY <1>5, <2>1, <2>2, <2>3, <3>1
  <2>4. CASE CapGoto(c, "tidy") /\ landed' = [landed EXCEPT ![p] = pcaps[p]]
    <3>1. Sole(c) => Files(c, [capAt[c] EXCEPT !.pc = "tidy"], pcaps[p], pcaps[p], sink)
      BY <1>6, <2>0, <2>2 DEF Files
    <3>2. pcaps' = [pcaps EXCEPT ![p] = pcaps[p]]
      BY <1>2, <2>1
    <3> QED
      BY <1>1, <1>4, <2>1, <2>2, <2>4, <3>1, <3>2
  <2> QED
    BY <1>20, <2>3, <2>4 DEF Pull
<1>21. ASSUME NEW c \in Caps, CutCapture(c) PROVE CapInv'
  <2>1. /\ capAt[c].pc \notin CapOver /\ UNCHANGED <<capOf, pcaps, landed, sink, dropped>>
        /\ capAt' = [capAt EXCEPT ![c].pc = "killed", ![c].left = capAt[c].pc \in AtSink]
    BY <1>21 DEF CutCapture, AtSink
  <2>2. PICK l \in BOOLEAN :
          /\ l <=> capAt[c].pc \in AtSink
          /\ capAt' = [capAt EXCEPT ![c].pc = "killed", ![c].left = l]
    <3>1. CASE capAt[c].pc \in AtSink
      <4>1. (capAt[c].pc \in AtSink) = TRUE
        BY <3>1
      <4> QED
        BY <2>1, <4>1
    <3>2. CASE capAt[c].pc \notin AtSink
      <4>1. (capAt[c].pc \in AtSink) = FALSE
        BY <3>2
      <4> QED
        BY <2>1, <4>1
    <3> QED
      BY <3>1, <3>2
  <2> DEFINE r == [capAt[c] EXCEPT !.pc = "killed", !.left = l]
  <2>3. r \in CapRecord /\ r.pc = "killed" /\ r.left = l
    BY <1>1, <2>2 DEF CapRecord, CapPcs, CapOver
  <2>4. capAt' = [capAt EXCEPT ![c] = r]
    BY <1>2, <2>1, <2>2
  <2> HIDE DEF r
  <2>5. Leaves(r) /\ ~capAt[c].left
    BY <1>1, <2>1, <2>3 DEF Leaves, CapOver
  <2>6. Sole(c) => Files(c, r, pcaps'[PathOf(c)], landed'[PathOf(c)], sink')
    BY <1>1, <2>1, <2>3 DEF Files
  <2>7. capAt[c].pc \in AtSink => r.left
    BY <2>2, <2>3
  <2>8. sink = c => r.left
    BY <1>1, <2>5, <2>7 DEF AtSink
  <2>9. /\ pcaps' \in [CapPaths -> Pcaps] /\ landed' \in [CapPaths -> Pcaps]
        /\ \A p \in CapPaths : pcaps'[p] = pcaps[p] /\ landed'[p] = landed[p]
    BY <1>2, <2>1
  <2> QED
    BY <2>1, <2>3, <2>4, <2>5, <2>6, <2>7, <2>8, <2>9, CapMoves
<1>22. CASE UNCHANGED capVars
  BY <1>22
  DEF capVars, CapInv, CapTyped, SinkHeld, EngineIsQuiet, OwnFiles, Sole, PathOf
<1> QED
  BY <1>7, <1>8, <1>9, <1>10, <1>11, <1>12, <1>13, <1>14, <1>15, <1>16, <1>17, <1>18, <1>19,
     <1>20, <1>21, <1>22
  DEF CapNext, CapStep

\* The file of a capture is followed from rm to landing, and the sink from open
\* to close, in every reachable state (core/capture_driver.py).
THEOREM CapInvariance == CapSpec => []CapInv
BY CapInitInv, CapStepInv, PTL DEF CapSpec

\* What a capture that says ok has landed is its own and whole, and no capture
\* leaves the forwarding engine recording, with any number of captures at any
\* paths.
THEOREM CapturesSound == CapSpec => []CapturesAreSound
<1>1. CapInv => OkIsOwnPcap
  <2> SUFFICES ASSUME CapInv, NEW c \in Caps, capAt[c].pc = "ok", Sole(c)
               PROVE  /\ landed[PathOf(c)].of = c
                      /\ landed[PathOf(c)].whole \/ capAt[c].met \/ capAt[c].lost
    BY DEF OkIsOwnPcap, Sole
  <2>1. Files(c, capAt[c], pcaps[PathOf(c)], landed[PathOf(c)], sink)
    BY DEF CapInv, OwnFiles
  <2>2. landed[PathOf(c)] \in Pcaps
    BY DEF CapInv, CapTyped, PathOf
  <2> QED
    BY <2>1, <2>2, CapturesApart DEF Files, Pcaps
<1>2. CapInv => CapturesAreSound
  BY <1>1 DEF CapInv, CapturesAreSound
<1> QED
  BY <1>2, CapInvariance, PTL

\* The types of the variables of the captures.
THEOREM CapTypeCorrect == CapSpec => []CapTypeOK
<1>1. CapInv => CapTypeOK
  BY DEF CapInv, CapTyped, CapRecord, CapTypeOK
<1> QED
  BY <1>1, CapInvariance, PTL

-----------------------------------------------------------------------------
(* Builds.                                                                 *)

\* The shapes of a call, an item and a build.
BdRec(pc, item, number, params, late, detached, told, found, posts, warned, listed, links) ==
  [pc |-> pc, item |-> item, number |-> number, params |-> params, late |-> late, detached |-> detached,
   told |-> told, found |-> found, posts |-> posts, warned |-> warned, listed |-> listed, links |-> links]
IsBd(r) ==
  r = BdRec(r.pc, r.item, r.number, r.params, r.late, r.detached, r.told, r.found, r.posts, r.warned, r.listed, r.links)
ItemRec(state, build, params) == [state |-> state, build |-> build, params |-> params]
IsItem(x) == x = ItemRec(x.state, x.build, x.params)
BuildRec(done, result, links, params) == [done |-> done, result |-> result, links |-> links, params |-> params]
IsBuild(x) == x = BuildRec(x.done, x.result, x.links, x.params)
IsList(s) == \E R : s \in Seq(R)

\* What is in the queue, and what has been built.
GoneFrom == {"left", "forgotten"}
ItemOK(x) ==
  /\ IsItem(x) /\ x.state \in {"waiting", "cancelled"} \cup GoneFrom /\ x.build \in Nat
  /\ x.state \in GoneFrom => x.build # 0
BuildOK(x, l) ==
  /\ IsBuild(x) /\ x.done \in BOOLEAN /\ x.result \in {"none", "SUCCESS", "FAILURE", "ABORTED"} /\ x.links \in 0..l
  /\ x.done => x.result # "none"
ItemsOK(its) == IsList(its) /\ \A i \in DOMAIN its : ItemOK(its[i])
BuildsOK(bs, l) == IsList(bs) /\ 1 \in DOMAIN bs /\ \A n \in DOMAIN bs : BuildOK(bs[n], l)

\* What Jenkins does, it does not undo.
ItemKept(x, y) ==
  /\ y.params = x.params /\ (x.state = "cancelled" => y.state = "cancelled")
  /\ x.state \in GoneFrom => y.state \in GoneFrom /\ y.build = x.build
BuildKept(x, y) == y.params = x.params /\ (x.done => y.done /\ y.result = x.result)
ItemsKept(its, now) == \A i \in DOMAIN its : i \in DOMAIN now /\ ItemKept(its[i], now[i])
BuildsKept(bs, now) == \A n \in DOMAIN bs : n \in DOMAIN now /\ BuildKept(bs[n], now[n])

BdPcs == {"idle", "inherit", "post", "detach", "item", "build", "stop", "meta", "links", "over"}
BdTyped(r) ==
  /\ r.pc \in BdPcs /\ r.item \in Nat /\ r.number \in Nat /\ r.listed \in Nat
  /\ r.late \in BOOLEAN /\ r.detached \in BOOLEAN /\ r.warned \in BOOLEAN
  /\ (r.pc = "over") = (r.found # "none")
  /\ r.links \in Seq(Nat)

\* What a call may be.
BdIsOrder(k) == k.tool \in BdTools /\ k.by \in {"item", "number", "nothing"} /\ k.of \in Nat
IsTrigger(k) == k.tool \in {"trigger", "trigger_raw"}
IsSure(k) == k.gate \in {"--yes", "asked, yes"}

\* A parameter that no flag gives is the default or, where the call inherits,
\* what some build had.
OtherOf(k, o, bs) == o = "default" \/ (k.inherit /\ \E n \in DOMAIN bs : o = bs[n].params.other)

\* Where a call is in its tool.
Early == {"idle", "inherit", "post", "stop", "meta"}
Place(k, r, bs, h) ==
  /\ r.pc \in Early => h = <<>> /\ r.told = "none" /\ ~r.detached /\ r.item = 0
  /\ r.pc \in Early \cup {"detach", "item"} => r.number = 0
  /\ r.pc \notin {"links", "over"} => r.links = <<>>
  /\ r.pc \in {"inherit", "post", "detach"} => IsTrigger(k) /\ IsSure(k)
  /\ r.pc = "inherit" => k.inherit
  /\ r.pc \in {"idle", "inherit", "post"} => OtherOf(k, r.params.other, bs)
  /\ r.pc = "stop" => k.tool = "stop" /\ IsSure(k)
  /\ r.pc \in {"meta", "links"} => k.tool = "artifacts"
  /\ r.pc = "links" => r.item = 0 /\ ~r.detached
  /\ r.pc \in {"item", "build"} => k.tool \in {"trigger", "trigger_raw", "watch"}
  /\ IsTrigger(k) /\ (r.pc \in {"detach", "item", "build"} \/ r.told = "ok") => h # <<>>

\* A call that has an item and a build has the build of the item.
Follows(r, its) ==
  r.item # 0 /\ r.number # 0 =>
    r.item \in DOMAIN its /\ its[r.item].state \in GoneFrom /\ its[r.item].build = r.number

\* The parts of BuildsAreTold, of one call.
IsWatched(k, r) == r.number # 0 /\ k.tool \in {"trigger", "trigger_raw", "watch"}
WatchIs(k, r, its, bs) ==
  /\ IsWatched(k, r) /\ r.found = "ok" =>
       r.number \in DOMAIN bs /\ bs[r.number].done /\ bs[r.number].result = "SUCCESS"
  /\ r.found = "failed" => r.number \in DOMAIN bs /\ bs[r.number].done /\ bs[r.number].result # "SUCCESS"
  /\ r.found = "aborted" => r.item \in DOMAIN its /\ its[r.item].state = "cancelled"

StartedOf(r) == IF r.item # 0 /\ r.number # 0 THEN <<"started">> ELSE <<>>
OutcomeOf(k, r) == IF IsWatched(k, r) \/ r.found # "ok" THEN TextOf(r.found) ELSE <<>>
SlackIs(k, r) ==
  /\ ~k.notify => r.posts = <<>>
  /\ k.notify =>
       \E m \in {<<>>, StartedOf(r)}, n \in {<<>>, OutcomeOf(k, r)} :
         r.posts = m \o n /\ (r.warned \/ (m = StartedOf(r) /\ n = OutcomeOf(k, r)))

HitIs(k, e, its, bs) ==
  IF k.tool = "stop" THEN e = [kind |-> k.by, n |-> k.of]
  ELSE /\ e.n \in DOMAIN its /\ its[e.n].params.flag = k.flag
       /\ IF k.extra THEN its[e.n].params.other = "extra" ELSE OtherOf(k, its[e.n].params.other, bs)
HitsAre(k, h, its, bs) == h = <<>> \/ (IsSure(k) /\ \E e : h = <<e>> /\ HitIs(k, e, its, bs))

LinksAre(k, r) ==
  /\ \A i \in DOMAIN r.links : r.links[i] \in {0, r.number}
  /\ k.tool = "artifacts" /\ r.found = "ok" /\ ~r.warned => Len(r.links) = r.listed /\ r.listed > 0

CallTold(k, r, its, bs, h) ==
  /\ IsBd(r) /\ BdTyped(r) /\ Place(k, r, bs, h) /\ Follows(r, its)
  /\ WatchIs(k, r, its, bs) /\ SlackIs(k, r) /\ HitsAre(k, h, its, bs) /\ LinksAre(k, r)

BdInv ==
  /\ bdSetting \in BdSettings
  /\ ItemsOK(items) /\ BuildsOK(builds, bdSetting.links)
  /\ bdCall = [c \in DOMAIN bdSetting.orders |-> bdCall[c]]
  /\ bdHits = [c \in DOMAIN bdSetting.orders |-> bdHits[c]]
  /\ \A c \in DOMAIN bdSetting.orders : CallTold(Ordered(c), bdCall[c], items, builds, bdHits[c])

-----------------------------------------------------------------------------
(* Lists.                                                                  *)

\* A list that grows.
LEMMA ListGrows ==
  ASSUME NEW s, NEW e, IsList(s)
  PROVE  /\ IsList(Append(s, e)) /\ Len(s) \in Nat /\ DOMAIN s = 1..Len(s)
         /\ DOMAIN Append(s, e) = 1..(Len(s) + 1)
         /\ \A i \in 1..Len(s) : Append(s, e)[i] = s[i]
         /\ Append(s, e)[Len(s) + 1] = e
<1>1. PICK R : s \in Seq(R)
  BY DEF IsList
<1> DEFINE Q == R \cup {e}
<1>2. s \in Seq(Q) /\ e \in Q
  BY <1>1, SeqDef
<1>3. Append(s, e) \in Seq(Q)
  BY <1>2, AppendProperties
<1> HIDE DEF Q
<1>4. Len(s) \in Nat /\ DOMAIN s = 1..Len(s)
  BY <1>2, LenProperties
<1>5. Len(Append(s, e)) = Len(s) + 1 /\ DOMAIN Append(s, e) = 1..Len(Append(s, e))
  BY <1>2, <1>3, AppendProperties, LenProperties
<1>6. \A i \in 1..Len(s) : Append(s, e)[i] = s[i]
  BY <1>2, <1>4, AppendProperties
<1>7. Append(s, e)[Len(s) + 1] = e
  BY <1>2, AppendProperties
<1> QED
  BY <1>3, <1>4, <1>5, <1>6, <1>7 DEF IsList

-----------------------------------------------------------------------------
(* What is said of a call.                                                 *)

\* Every call of a setting is one.
LEMMA BdOrderIs ==
  ASSUME NEW s \in BdSettings, NEW c \in DOMAIN s.orders PROVE BdIsOrder(s.orders[c]) /\ s.links \in Nat
  BY BdAssumption DEF BdSettingsOK, BdIsOrder

\* The messages of Slack.
LEMMA Texts ==
  /\ TextOf("ok") = <<"success">> /\ TextOf("failed") = <<"failure">> /\ TextOf("still running") = <<"still running">>
  /\ TextOf("not started") = <<"not started">> /\ TextOf("aborted") = <<"not started">>
  /\ \A v \in {"none", "aborted by user", "confirmation_required", "bad_argument", "error"} : TextOf(v) = <<>>
  BY DEF TextOf

\* A message more.
LEMMA OneMore ==
  ASSUME NEW t, NEW m, m = <<>> \/ m = <<"started">>
  PROVE  Append(m, t) = m \o <<t>> /\ m \o <<>> = m
<1>1. PICK y : y = "started"
  OBVIOUS
<1>2. PICK Q : Q = {y, t}
  OBVIOUS
<1>3. <<>> \in Seq(Q)
  OBVIOUS
<1>4. <<y>> \in Seq(Q)
  BY ONLY <1>2
<1>5. m \in Seq(Q) /\ t \in Q
  BY <1>1, <1>2, <1>3, <1>4
<1> QED
  BY ONLY <1>5, AppendIsConcat, ConcatEmptySeq

\* What a call that is not over has posted.
LEMMA PostedSoFar ==
  ASSUME NEW k, NEW r, SlackIs(k, r), r.found = "none"
  PROVE  /\ ~k.notify => r.posts = <<>>
         /\ k.notify => r.posts \in {<<>>, StartedOf(r)} /\ (r.warned \/ r.posts = StartedOf(r))
<1>1. OutcomeOf(k, r) = <<>>
  BY Texts DEF OutcomeOf
<1>2. ASSUME k.notify PROVE r.posts \in {<<>>, StartedOf(r)} /\ (r.warned \/ r.posts = StartedOf(r))
  <2>1. PICK m \in {<<>>, StartedOf(r)} : r.posts = m \o <<>> /\ (r.warned \/ m = StartedOf(r))
    BY <1>1, <1>2 DEF SlackIs
  <2>2. m = <<>> \/ m = <<"started">>
    BY <2>1 DEF StartedOf
  <2>3. r.posts = m
    BY <2>1, <2>2, OneMore
  <2> QED
    BY <2>1, <2>3
<1> QED
  BY <1>2 DEF SlackIs

\* The same, told of what comes of it: with the outcome, without it, or both.
LEMMA SlackGoesOn ==
  ASSUME NEW k, NEW r, NEW n, SlackIs(k, r), r.found = "none", StartedOf(n) = StartedOf(r),
         r.warned \in BOOLEAN, n.warned \in BOOLEAN, r.warned => n.warned,
         \/ n.posts = r.posts /\ (OutcomeOf(k, n) = <<>> \/ n.warned \/ ~k.notify)
         \/ k.notify /\ \E t : OutcomeOf(k, n) = <<t>> /\ n.posts = Append(r.posts, t)
  PROVE  SlackIs(k, n)
<1>1. /\ ~k.notify => r.posts = <<>>
      /\ k.notify => r.posts \in {<<>>, StartedOf(r)} /\ (r.warned \/ r.posts = StartedOf(r))
  BY ONLY PostedSoFar, SlackIs(k, r), r.found = "none"
<1>2. CASE ~k.notify
  BY <1>1, <1>2 DEF SlackIs
<1>3. CASE k.notify
  <2>1. PICK m : m = r.posts
    OBVIOUS
  <2>2. m \in {<<>>, StartedOf(n)} /\ (n.warned \/ m = StartedOf(n))
    BY <1>1, <1>3, <2>1
  <2>3. m = <<>> \/ m = <<"started">>
    BY <2>2 DEF StartedOf
  <2>4. CASE n.posts = m /\ (OutcomeOf(k, n) = <<>> \/ n.warned)
    <3>1. n.posts = m \o <<>>
      BY <2>3, <2>4, OneMore
    <3> QED
      BY <1>3, <2>2, <2>4, <3>1 DEF SlackIs
  <2>5. CASE \E t : OutcomeOf(k, n) = <<t>> /\ n.posts = Append(m, t)
    <3>1. PICK t : OutcomeOf(k, n) = <<t>> /\ n.posts = Append(m, t)
      BY <2>5
    <3>2. n.posts = m \o <<t>>
      BY <2>3, <3>1, OneMore
    <3> QED
      BY <1>3, <2>2, <3>1, <3>2 DEF SlackIs
  <2> QED
    BY <1>3, <2>1, <2>4, <2>5
<1> QED
  BY <1>2, <1>3

-----------------------------------------------------------------------------
(* One step of one call.                                                   *)

\* A call goes on and posts nothing.
LEMMA GoesOnQuietly ==
  ASSUME NEW k, NEW r, NEW n, NEW its, NEW bs, NEW h, SlackIs(k, r), BdTyped(r), r.found = "none",
         IsBd(n), BdTyped(n), n.pc # "over", n.posts = r.posts, r.warned => n.warned, StartedOf(n) = StartedOf(r),
         Follows(n, its), n.pc = "links" \/ n.links = <<>>, n.pc = "links" => LinksAre(k, n),
         Place(k, n, bs, h), HitsAre(k, h, its, bs)
  PROVE  CallTold(k, n, its, bs, h)
<1>1. n.found = "none"
  BY DEF BdTyped
<1>2. OutcomeOf(k, n) = <<>>
  BY <1>1, Texts DEF OutcomeOf
<1>3. SlackIs(k, n)
  BY <1>2, SlackGoesOn DEF BdTyped
<1>4. WatchIs(k, n, its, bs)
  BY <1>1 DEF WatchIs
<1>5. LinksAre(k, n)
  BY <1>1 DEF LinksAre
<1> QED
  BY <1>3, <1>4, <1>5 DEF CallTold

\* What is left to see of a call that is over.
Ended(k, n, its, bs, h) ==
  /\ IsBd(n) /\ BdTyped(n) /\ n.pc = "over" /\ Follows(n, its) /\ LinksAre(k, n)
  /\ WatchIs(k, n, its, bs) /\ HitsAre(k, h, its, bs)
  /\ IsTrigger(k) /\ n.told = "ok" => h # <<>>

\* A call ends and posts nothing, for there is nothing to tell.
LEMMA EndsQuietly ==
  ASSUME NEW k, NEW r, NEW n, NEW its, NEW bs, NEW h, SlackIs(k, r), BdTyped(r), r.found = "none",
         n.posts = r.posts, r.warned => n.warned, StartedOf(n) = StartedOf(r),
         OutcomeOf(k, n) = <<>>, Ended(k, n, its, bs, h)
  PROVE  CallTold(k, n, its, bs, h)
<1>1. SlackIs(k, n)
  BY SlackGoesOn DEF BdTyped, Ended
<1>2. Place(k, n, bs, h)
  BY DEF Place, Early, Ended
<1> QED
  BY ONLY <1>1, <1>2, Ended(k, n, its, bs, h) DEF CallTold, Ended

\* A call ends and tells of it, or does not where it need not or cannot.
LEMMA EndsTold ==
  ASSUME NEW k, NEW r, NEW n, NEW its, NEW bs, NEW h, NEW t, SlackIs(k, r), BdTyped(r), r.found = "none",
         r.warned => n.warned, StartedOf(n) = StartedOf(r), OutcomeOf(k, n) = <<t>>,
         \/ n.posts = r.posts /\ (n.warned \/ ~k.notify)
         \/ k.notify /\ n.posts = Append(r.posts, t),
         Ended(k, n, its, bs, h)
  PROVE  CallTold(k, n, its, bs, h)
<1>1. SlackIs(k, n)
  BY SlackGoesOn DEF BdTyped, Ended
<1>2. Place(k, n, bs, h)
  BY DEF Place, Early, Ended
<1> QED
  BY ONLY <1>1, <1>2, Ended(k, n, its, bs, h) DEF CallTold, Ended

\* A call that is over, from where it was.
OverOf(r, item, v) ==
  BdRec("over", item, r.number, r.params, r.late, r.detached, IF r.detached THEN r.told ELSE v, v,
        r.posts, r.warned, r.listed, r.links)

\* What a call says when it fails.
Failures == {"aborted by user", "confirmation_required", "bad_argument", "error"}

\* A call fails: it has nothing to tell Slack.
LEMMA Fails ==
  ASSUME NEW k, NEW r, NEW n, NEW its, NEW bs, NEW h, NEW v \in Failures, SlackIs(k, r), BdTyped(r), IsBd(r),
         r.pc # "over", LinksAre(k, r), Follows(r, its), HitsAre(k, h, its, bs), n = OverOf(r, r.item, v),
         IsTrigger(k) /\ r.told = "ok" => h # <<>>
  PROVE  CallTold(k, n, its, bs, h)
<1>1. /\ n.pc = "over" /\ n.item = r.item /\ n.number = r.number /\ n.params = r.params /\ n.late = r.late
      /\ n.detached = r.detached /\ n.told = (IF r.detached THEN r.told ELSE v) /\ n.found = v
      /\ n.posts = r.posts /\ n.warned = r.warned /\ n.listed = r.listed /\ n.links = r.links /\ IsBd(n)
  BY DEF OverOf, BdRec, IsBd
<1>2. r.found = "none" /\ BdTyped(n)
  BY <1>1 DEF BdTyped, Failures, BdPcs
<1>3. StartedOf(n) = StartedOf(r) /\ Follows(n, its)
  BY <1>1 DEF StartedOf, Follows
<1>4. OutcomeOf(k, n) = <<>>
  BY <1>1, Texts DEF OutcomeOf, Failures
<1>5. WatchIs(k, n, its, bs) /\ LinksAre(k, n)
  BY <1>1 DEF WatchIs, LinksAre, Failures
<1>6. Ended(k, n, its, bs, h)
  BY <1>1, <1>2, <1>3, <1>5 DEF Ended, Failures
<1> QED
  BY <1>1, <1>2, <1>3, <1>4, <1>6, EndsQuietly

\* A call that watched nothing is ok.
LEMMA IsDone ==
  ASSUME NEW k, NEW r, NEW n, NEW its, NEW bs, NEW h, NEW i \in Nat, SlackIs(k, r), BdTyped(r), IsBd(r),
         r.pc # "over", ~r.detached, r.number = 0 \/ (k.tool = "artifacts" /\ i = r.item),
         LinksAre(k, n), HitsAre(k, h, its, bs),
         r.item = 0 \/ i = r.item,
         Follows(r, its), n = [OverOf(r, i, "ok") EXCEPT !.warned = n.warned],
         r.warned => n.warned, n.warned \in BOOLEAN,
         IsTrigger(k) => h # <<>>
  PROVE  CallTold(k, n, its, bs, h)
<1>1. /\ n.pc = "over" /\ n.item = i /\ n.number = r.number /\ n.params = r.params /\ n.late = r.late
      /\ n.detached = r.detached /\ n.told = "ok" /\ n.found = "ok"
      /\ n.posts = r.posts /\ n.listed = r.listed /\ n.links = r.links /\ IsBd(n)
  <2>1. PICK w : w = n.warned
    OBVIOUS
  <2>2. PICK m : m = OverOf(r, i, "ok")
    OBVIOUS
  <2>3. n = [m EXCEPT !.warned = w]
    BY <2>1, <2>2
  <2>4. n = BdRec("over", i, r.number, r.params, r.late, r.detached, "ok", "ok", r.posts, w, r.listed, r.links)
    BY ONLY <2>2, <2>3, ~r.detached DEF OverOf, BdRec
  <2> QED
    BY ONLY <2>4 DEF BdRec, IsBd
<1>2. r.found = "none" /\ BdTyped(n)
  BY <1>1 DEF BdTyped, BdPcs
<1>3. StartedOf(n) = StartedOf(r) /\ Follows(n, its)
  BY <1>1 DEF StartedOf, Follows
<1>4. OutcomeOf(k, n) = <<>> /\ ~IsWatched(k, n)
  BY <1>1 DEF OutcomeOf, IsWatched
<1>5. WatchIs(k, n, its, bs)
  BY <1>1, <1>4 DEF WatchIs
<1>6. Ended(k, n, its, bs, h)
  BY <1>1, <1>2, <1>3, <1>5 DEF Ended
<1> QED
  BY <1>1, <1>2, <1>3, <1>4, <1>6, EndsQuietly

\* What Jenkins and other people do leaves a call as sound as it was.
LEMMA WorldKept ==
  ASSUME NEW k, NEW r, NEW its, NEW bs, NEW h, NEW now, NEW later, CallTold(k, r, its, bs, h),
         ItemsKept(its, now), BuildsKept(bs, later)
  PROVE  CallTold(k, r, now, later, h)
<1>1. Follows(r, now)
  BY DEF CallTold, Follows, ItemsKept, ItemKept
<1>2. WatchIs(k, r, now, later)
  BY DEF CallTold, WatchIs, ItemsKept, ItemKept, BuildsKept, BuildKept
<1>3. \A o : OtherOf(k, o, bs) => OtherOf(k, o, later)
  BY DEF OtherOf, BuildsKept, BuildKept
<1>4. Place(k, r, later, h)
  BY ONLY <1>3, CallTold(k, r, its, bs, h) DEF CallTold, Place
<1>5. \A e : HitIs(k, e, its, bs) => HitIs(k, e, now, later)
  BY <1>3 DEF HitIs, ItemsKept, ItemKept
<1>6. HitsAre(k, h, now, later)
  BY <1>5 DEF CallTold, HitsAre
<1> QED
  BY <1>1, <1>2, <1>4, <1>6 DEF CallTold

-----------------------------------------------------------------------------
(* One step of the system.                                                 *)

\* One call steps, and what it does in Jenkins undoes nothing.
LEMMA OneBdMoves ==
  ASSUME BdInv, NEW c \in DOMAIN bdSetting.orders, NEW n, NEW g, bdSetting' = bdSetting,
         ItemsOK(items'), BuildsOK(builds', bdSetting.links), ItemsKept(items, items'), BuildsKept(builds, builds'),
         bdCall' = [bdCall EXCEPT ![c] = n], bdHits' = [bdHits EXCEPT ![c] = g],
         CallTold(Ordered(c), n, items', builds', g)
  PROVE  BdInv'
<1>1. \A d \in DOMAIN bdSetting.orders : bdCall'[d] = (IF d = c THEN n ELSE bdCall[d])
                                     /\ bdHits'[d] = (IF d = c THEN g ELSE bdHits[d])
  BY DEF BdInv
<1>2. /\ bdCall' = [d \in DOMAIN bdSetting.orders |-> bdCall'[d]]
      /\ bdHits' = [d \in DOMAIN bdSetting.orders |-> bdHits'[d]]
  BY DEF BdInv
<1>3. ASSUME NEW d \in DOMAIN bdSetting.orders
      PROVE  CallTold(Ordered(d), bdCall'[d], items', builds', bdHits'[d])
  <2>1. CallTold(Ordered(d), bdCall[d], items, builds, bdHits[d])
    BY DEF BdInv
  <2>2. CallTold(Ordered(d), bdCall[d], items', builds', bdHits[d])
    BY <2>1, WorldKept
  <2> QED
    BY <1>1, <2>2
<1>4. \A d \in DOMAIN bdSetting.orders : Ordered(d)' = Ordered(d)
  BY DEF Ordered
<1>5. bdSetting' \in BdSettings
  BY DEF BdInv
<1> QED
  BY <1>2, <1>3, <1>4, <1>5 DEF BdInv

\* One call steps, and Jenkins stays as it is.
LEMMA BdCallMoves ==
  ASSUME BdInv, NEW c \in DOMAIN bdSetting.orders, NEW n, bdCall' = [bdCall EXCEPT ![c] = n], JenkinsStays,
         CallTold(Ordered(c), n, items, builds, bdHits[c])
  PROVE  BdInv'
<1>1. bdHits' = [bdHits EXCEPT ![c] = bdHits[c]]
  BY DEF BdInv, JenkinsStays
<1>2. ItemsKept(items, items) /\ BuildsKept(builds, builds)
  BY DEF ItemsKept, ItemKept, BuildsKept, BuildKept
<1> QED
  <2>1. items' = items /\ builds' = builds /\ bdSetting' = bdSetting
    BY DEF JenkinsStays
  <2>2. ItemsOK(items') /\ BuildsOK(builds', bdSetting.links) /\ ItemsKept(items, items') /\ BuildsKept(builds, builds')
    BY <1>2, <2>1 DEF BdInv
  <2>3. CallTold(Ordered(c), n, items', builds', bdHits[c])
    BY <2>1
  <2> QED
    BY <1>1, <2>1, <2>2, <2>3, OneBdMoves

\* Jenkins and other people step, and no call does.
LEMMA JenkinsMoves ==
  ASSUME BdInv, UNCHANGED <<bdSetting, bdCall, bdHits>>,
         ItemsOK(items'), BuildsOK(builds', bdSetting.links), ItemsKept(items, items'), BuildsKept(builds, builds')
  PROVE  BdInv'
<1>1. ASSUME NEW d \in DOMAIN bdSetting.orders
      PROVE  CallTold(Ordered(d), bdCall[d], items', builds', bdHits[d])
  <2>1. CallTold(Ordered(d), bdCall[d], items, builds, bdHits[d])
    BY DEF BdInv
  <2> QED
    BY <2>1, WorldKept
<1>4. \A d \in DOMAIN bdSetting.orders : Ordered(d)' = Ordered(d)
  BY DEF Ordered
<1> QED
  BY <1>1, <1>4 DEF BdInv

\* What Ends makes of a call.
LEMMA EndsIs ==
  ASSUME NEW c, NEW v, NEW r, r = bdCall[c], IsBd(r)
  PROVE  Ends(c, v) = OverOf(r, r.item, v)
<1>1. Ends(c, v) = [r EXCEPT !.pc = "over", !.found = v, !.told = IF r.detached THEN r.told ELSE v]
  BY DEF Ends
<1>2. PICK t : t = IF r.detached THEN r.told ELSE v
  OBVIOUS
<1>3. Ends(c, v) = [r EXCEPT !.pc = "over", !.found = v, !.told = t]
  BY <1>1, <1>2
<1>4. Ends(c, v) = BdRec("over", r.item, r.number, r.params, r.late, r.detached, t, v, r.posts, r.warned, r.listed, r.links)
  BY ONLY <1>3, IsBd(r) DEF IsBd, BdRec
<1> QED
  BY <1>2, <1>4 DEF OverOf

\* A call that fails where it can.
LEMMA FailStep ==
  ASSUME BdInv, NEW c \in DOMAIN bdSetting.orders, NEW v \in Failures, bdCall[c].pc # "over",
         bdCall' = [bdCall EXCEPT ![c] = Ends(c, v)], JenkinsStays
  PROVE  BdInv'
<1>1. PICK k, r, h : k = Ordered(c) /\ r = bdCall[c] /\ h = bdHits[c]
  OBVIOUS
<1>2. CallTold(k, r, items, builds, h)
  BY <1>1 DEF BdInv
<1>3. IsBd(r) /\ Ends(c, v) = OverOf(r, r.item, v)
  BY <1>1, <1>2, EndsIs DEF CallTold
<1>4. PICK n : n = Ends(c, v)
  OBVIOUS
<1>5. IsTrigger(k) /\ r.told = "ok" => h # <<>>
  BY <1>2 DEF CallTold, Place
<1>6. CallTold(k, n, items, builds, h)
  BY <1>1, <1>2, <1>3, <1>4, <1>5, Fails DEF CallTold
<1> QED
  BY <1>1, <1>4, <1>6, BdCallMoves

\* A call begins.
LEMMA BeginStep == ASSUME BdInv, NEW c \in DOMAIN bdSetting.orders, BdBegin(c) PROVE BdInv'
<1>1. PICK k, r, h : k = Ordered(c) /\ r = bdCall[c] /\ h = bdHits[c]
  OBVIOUS
<1>2. CallTold(k, r, items, builds, h) /\ BdIsOrder(k)
  BY <1>1, BdOrderIs DEF BdInv, Ordered
<1>3. r.pc = "idle" /\ bdCall' = [bdCall EXCEPT ![c] = Checked(c)] /\ JenkinsStays
  BY <1>1 DEF BdBegin, BdMoves
<1>4. /\ h = <<>> /\ r.told = "none" /\ ~r.detached /\ r.item = 0 /\ r.number = 0 /\ r.links = <<>>
      /\ OtherOf(k, r.params.other, builds) /\ r.found = "none" /\ BdTyped(r) /\ IsBd(r) /\ SlackIs(k, r)
      /\ HitsAre(k, h, items, builds)
  BY <1>2, <1>3 DEF CallTold, Place, Early, BdTyped
<1>5. ASSUME NEW p \in {"inherit", "post", "stop", "meta"}, NEW n, n = [r EXCEPT !.pc = p],
             p \in {"inherit", "post"} => IsTrigger(k) /\ IsSure(k), p = "inherit" => k.inherit,
             p = "stop" => k.tool = "stop" /\ IsSure(k), p = "meta" => k.tool = "artifacts"
      PROVE  CallTold(k, n, items, builds, h)
  <2>1. n = BdRec(p, r.item, r.number, r.params, r.late, r.detached, r.told, r.found, r.posts, r.warned, r.listed, r.links)
    BY ONLY <1>4, <1>5 DEF IsBd, BdRec
  <2>2. /\ n.pc = p /\ n.item = 0 /\ n.number = 0 /\ n.params = r.params /\ n.late = r.late
        /\ ~n.detached /\ n.detached = r.detached /\ n.told = "none" /\ n.found = "none"
        /\ n.posts = r.posts /\ n.warned = r.warned /\ n.listed = r.listed /\ n.links = <<>> /\ IsBd(n)
    BY ONLY <1>4, <2>1 DEF BdRec, IsBd
  <2>3. BdTyped(n)
    BY ONLY <1>4, <1>5, <2>2 DEF BdTyped, BdPcs
  <2>4. StartedOf(n) = StartedOf(r) /\ Follows(n, items)
    BY ONLY <1>4, <2>2 DEF StartedOf, Follows
  <2>5. Place(k, n, builds, h)
    BY ONLY <1>4, <1>5, <2>2 DEF Place, Early
  <2>6. n.pc # "over" /\ n.pc # "links"
    BY <1>5, <2>2
  <2> QED
    BY ONLY <1>4, <2>2, <2>3, <2>4, <2>5, <2>6, GoesOnQuietly
<1>6. ASSUME NEW n, k.tool = "watch", \/ n = [r EXCEPT !.pc = "item", !.item = k.of]
                                   \/ n = [r EXCEPT !.pc = "build", !.number = k.of]
      PROVE  CallTold(k, n, items, builds, h)
  <2>1. PICK p, i, m :
          /\ n = BdRec(p, i, m, r.params, r.late, r.detached, r.told, r.found, r.posts, r.warned, r.listed, r.links)
          /\ \/ p = "item" /\ i = k.of /\ m = 0
             \/ p = "build" /\ i = 0 /\ m = k.of
    BY ONLY <1>4, <1>6 DEF IsBd, BdRec
  <2>2. /\ n.pc = p /\ n.item = i /\ n.number = m /\ n.params = r.params /\ n.late = r.late
        /\ ~n.detached /\ n.detached = r.detached /\ n.told = "none" /\ n.found = "none"
        /\ n.posts = r.posts /\ n.warned = r.warned /\ n.listed = r.listed /\ n.links = <<>> /\ IsBd(n)
    BY ONLY <1>4, <2>1 DEF BdRec, IsBd
  <2>3. BdTyped(n)
    BY ONLY <1>2, <1>4, <2>1, <2>2 DEF BdTyped, BdPcs, BdIsOrder
  <2>4. StartedOf(n) = StartedOf(r) /\ Follows(n, items)
    BY ONLY <1>4, <2>1, <2>2 DEF StartedOf, Follows
  <2>5. Place(k, n, builds, h)
    BY ONLY <1>4, <1>6, <2>1, <2>2 DEF Place, Early, IsTrigger
  <2>6. n.pc # "over" /\ n.pc # "links"
    BY <2>1, <2>2
  <2> QED
    BY ONLY <1>4, <2>2, <2>3, <2>4, <2>5, <2>6, GoesOnQuietly
<1>7. ASSUME NEW v \in Failures, Checked(c) = Ends(c, v) PROVE BdInv'
  BY <1>1, <1>3, <1>7, FailStep
<1>8. ASSUME NEW n, Checked(c) = n, CallTold(k, n, items, builds, h) PROVE BdInv'
  BY <1>1, <1>3, <1>8, BdCallMoves
<1>9. Refused(c) = Ends(c, "aborted by user") \/ Refused(c) = Ends(c, "confirmation_required")
  BY DEF Refused
<1>10. Confirmed(c) = IsSure(k)
  BY <1>1 DEF Confirmed, IsSure
<1>11. CASE IsTrigger(k)
  <2>1. Checked(c) = TriggerChecked(c)
    BY <1>1, <1>11 DEF Checked, IsTrigger
  <2>2. CASE ~IsSure(k)
    BY <2>1, <2>2, <1>7, <1>9, <1>10 DEF TriggerChecked, Failures
  <2>3. CASE IsSure(k)
    <3>1. PICK p : p = IF k.inherit THEN "inherit" ELSE "post"
      OBVIOUS
    <3>2. Checked(c) = [r EXCEPT !.pc = p]
      BY <1>1, <2>1, <2>3, <3>1, <1>10 DEF TriggerChecked
    <3>3. p \in {"inherit", "post"} /\ (p = "inherit" => k.inherit)
      BY <3>1
    <3> QED
      BY <1>5, <1>8, <1>11, <2>3, <3>2, <3>3
  <2> QED
    BY <2>2, <2>3
<1>12. CASE k.tool = "stop"
  <2>1. Checked(c) = StopChecked(c)
    BY <1>1, <1>12 DEF Checked
  <2>2. CASE k.by = "nothing"
    BY <1>1, <2>1, <2>2, <1>7 DEF StopChecked, Failures
  <2>3. CASE k.by # "nothing" /\ ~IsSure(k)
    BY <1>1, <2>1, <2>3, <1>7, <1>9, <1>10 DEF StopChecked, Failures
  <2>4. CASE k.by # "nothing" /\ IsSure(k)
    <3>2. Checked(c) = [r EXCEPT !.pc = "stop"]
      BY <1>1, <2>1, <2>4, <1>10 DEF StopChecked
    <3> QED
      BY <1>5, <1>8, <1>12, <2>4, <3>2
  <2> QED
    BY <2>2, <2>3, <2>4
<1>13. CASE k.tool = "watch"
  <2>1. Checked(c) = WatchChecked(c)
    BY <1>1, <1>13 DEF Checked
  <2>2. CASE k.by = "nothing"
    BY <1>1, <2>1, <2>2, <1>7 DEF WatchChecked, Failures
  <2>3. CASE k.by # "nothing"
    <3>1. \/ Checked(c) = [r EXCEPT !.pc = "item", !.item = k.of]
          \/ Checked(c) = [r EXCEPT !.pc = "build", !.number = k.of]
      BY <1>1, <2>1, <2>3 DEF WatchChecked
    <3> QED
      BY <1>6, <1>8, <1>13, <3>1
  <2> QED
    BY <2>2, <2>3
<1>14. CASE k.tool = "artifacts"
  <2>1. Checked(c) = [r EXCEPT !.pc = "meta"]
    BY <1>1, <1>14 DEF Checked
  <2> QED
    BY <1>5, <1>8, <1>14, <2>1
<1> QED
  BY <1>2, <1>11, <1>12, <1>13, <1>14 DEF BdIsOrder, BdTools, IsTrigger

\* A call takes over what the last build had, or leaves the defaults.
LEMMA InheritStep == ASSUME BdInv, NEW c \in DOMAIN bdSetting.orders, Inherit(c) PROVE BdInv'
<1>1. PICK k, r, h : k = Ordered(c) /\ r = bdCall[c] /\ h = bdHits[c]
  OBVIOUS
<1>2. CallTold(k, r, items, builds, h)
  BY <1>1 DEF BdInv
<1>3. r.pc = "inherit"
  BY <1>1 DEF Inherit
<1>4. /\ h = <<>> /\ r.told = "none" /\ ~r.detached /\ r.item = 0 /\ r.number = 0 /\ r.links = <<>>
      /\ OtherOf(k, r.params.other, builds) /\ r.found = "none" /\ BdTyped(r) /\ IsBd(r) /\ SlackIs(k, r)
      /\ HitsAre(k, h, items, builds) /\ IsTrigger(k) /\ IsSure(k) /\ k.inherit
  BY <1>2, <1>3 DEF CallTold, Place, Early, BdTyped
<1>5. PICK q, w, n :
        /\ n = BdRec("post", r.item, r.number, q, r.late, r.detached, r.told, r.found, r.posts, w, r.listed, r.links)
        /\ w \in BOOLEAN /\ (r.warned => w) /\ (q = r.params \/ q = builds[Len(builds)].params)
        /\ bdCall' = [bdCall EXCEPT ![c] = n]
  <2>1. PICK q : q = builds[Len(builds)].params
    OBVIOUS
  <2>2. \/ bdCall' = [bdCall EXCEPT ![c] = [r EXCEPT !.pc = "post", !.params = q]]
        \/ bdCall' = [bdCall EXCEPT ![c] = [r EXCEPT !.pc = "post", !.warned = TRUE]]
    BY <1>1, <2>1 DEF Inherit, BdMoves
  <2>a. PICK x, y : x = [r EXCEPT !.pc = "post", !.params = q] /\ y = [r EXCEPT !.pc = "post", !.warned = TRUE]
    OBVIOUS
  <2>3. x = BdRec("post", r.item, r.number, q, r.late, r.detached, r.told, r.found, r.posts, r.warned, r.listed, r.links)
    BY ONLY <1>4, <2>a DEF IsBd, BdRec
  <2>4. y = BdRec("post", r.item, r.number, r.params, r.late, r.detached, r.told, r.found, r.posts, TRUE, r.listed, r.links)
    BY ONLY <1>4, <2>a DEF IsBd, BdRec
  <2>5. r.warned \in BOOLEAN
    BY <1>4 DEF BdTyped
  <2>6. bdCall' = [bdCall EXCEPT ![c] = x] \/ bdCall' = [bdCall EXCEPT ![c] = y]
    BY <2>2, <2>a
  <2> QED
    BY ONLY <2>1, <2>3, <2>4, <2>5, <2>6
<1>6. OtherOf(k, q.other, builds)
  <2>1. Len(builds) \in DOMAIN builds
    <3>1. PICK R : builds \in Seq(R)
      BY DEF BdInv, BuildsOK, IsList
    <3>2. DOMAIN builds = 1..Len(builds) /\ Len(builds) \in Nat
      BY <3>1, LenProperties
    <3> QED
      BY <3>2 DEF BdInv, BuildsOK
  <2> QED
    BY <1>4, <1>5, <2>1 DEF OtherOf
<1>7. /\ n.pc = "post" /\ n.item = 0 /\ n.number = 0 /\ n.params = q /\ n.late = r.late
      /\ ~n.detached /\ n.detached = r.detached /\ n.told = "none" /\ n.found = "none"
      /\ n.posts = r.posts /\ n.warned = w /\ n.listed = r.listed /\ n.links = <<>> /\ IsBd(n)
  BY ONLY <1>4, <1>5 DEF BdRec, IsBd
<1>8. BdTyped(n)
  BY ONLY <1>4, <1>5, <1>7 DEF BdTyped, BdPcs
<1>9. StartedOf(n) = StartedOf(r) /\ Follows(n, items)
  BY ONLY <1>4, <1>7 DEF StartedOf, Follows
<1>10. Place(k, n, builds, h)
  BY ONLY <1>4, <1>6, <1>7 DEF Place, Early
<1>11. CallTold(k, n, items, builds, h)
  BY ONLY <1>4, <1>5, <1>7, <1>8, <1>9, <1>10, GoesOnQuietly
<1> QED
  BY <1>1, <1>5, <1>11, BdCallMoves DEF Inherit

\* The first thing that is hit.
LEMMA OneHit == \A e : Append(<<>>, e) = <<e>> /\ <<e>> # <<>>
<1> SUFFICES ASSUME NEW e PROVE Append(<<>>, e) = <<e>> /\ <<e>> # <<>>
  OBVIOUS
<1>1. <<>> \in Seq({e}) /\ <<e>> # <<>>
  OBVIOUS
<1>2. Append(<<>>, e) = <<>> \o <<e>> /\ <<e>> \in Seq({e})
  BY <1>1, AppendIsConcat
<1> QED
  BY <1>1, <1>2, ConcatEmptySeq

\* Jenkins takes a request: it has an item of it.
LEMMA QueuedKeeps ==
  ASSUME BdInv, NEW c, NEW p, Queued(c, p)
  PROVE  /\ ItemsOK(items') /\ ItemsKept(items, items')
         /\ ItemOf(p) \in DOMAIN items' /\ items'[ItemOf(p)].params = p
         /\ ItemOf(p) \in Nat \ {0}
<1>1. IsList(items) /\ \A i \in DOMAIN items : ItemOK(items[i])
  BY DEF BdInv, ItemsOK
<1>2. ItemsKept(items, items)
  BY DEF ItemsKept, ItemKept
<1>3. CASE Coalesced(p) # {}
  <2>1. items' = items /\ ItemOf(p) \in Coalesced(p)
    BY <1>3 DEF Queued, ItemOf
  <2>2. ItemOf(p) \in DOMAIN items /\ items[ItemOf(p)].params = p
    BY <2>1 DEF Coalesced
  <2>3. DOMAIN items = 1..Len(items) /\ Len(items) \in Nat
    BY <1>1, ListGrows
  <2> QED
    BY <1>1, <1>2, <2>1, <2>2, <2>3 DEF ItemsOK
<1>4. CASE Coalesced(p) = {}
  <2>1. PICK y : y = [state |-> "waiting", build |-> 0, params |-> p]
    OBVIOUS
  <2>2. PICK z : z = Len(items) + 1
    OBVIOUS
  <2>3. items' = Append(items, y) /\ ItemOf(p) = z
    BY <1>4, <2>1, <2>2 DEF Queued, ItemOf
  <2>4. /\ IsList(items') /\ DOMAIN items = 1..Len(items) /\ Len(items) \in Nat /\ DOMAIN items' = 1..z
        /\ \A i \in DOMAIN items : items'[i] = items[i]
        /\ items'[z] = y
    BY <1>1, <2>2, <2>3, ListGrows
  <2>5. \A i \in DOMAIN items' : i \in DOMAIN items \/ i = z
    BY ONLY <2>2, <2>4
  <2>6. z \in DOMAIN items' /\ z \in Nat \ {0} /\ \A i \in DOMAIN items : i \in DOMAIN items'
    BY ONLY <2>2, <2>4
  <2>7. ItemOK(y) /\ y.params = p
    BY ONLY <2>1 DEF ItemOK, IsItem, ItemRec, GoneFrom
  <2>8. ItemsOK(items')
    BY <1>1, <2>4, <2>5, <2>7 DEF ItemsOK
  <2>9. ItemsKept(items, items')
    BY ONLY <2>4, <2>6 DEF ItemsKept, ItemKept
  <2> QED
    BY <2>3, <2>4, <2>6, <2>7, <2>8, <2>9
<1> QED
  BY <1>3, <1>4

\* What a call is that triggers and is about to.
AboutToPost(k, r) ==
  /\ r.pc = "post" /\ IsBd(r) /\ BdTyped(r) /\ SlackIs(k, r) /\ IsTrigger(k) /\ IsSure(k)
  /\ r.told = "none" /\ ~r.detached /\ r.item = 0 /\ r.number = 0 /\ r.links = <<>> /\ r.found = "none"

\* The trigger is answered: the call waits, leaves a watch, or is over.
LEMMA AnsweredHolds ==
  ASSUME NEW c, NEW i \in Nat, NEW its, NEW bs, NEW h, AboutToPost(Ordered(c), bdCall[c]), h # <<>>,
         HitsAre(Ordered(c), h, its, bs)
  PROVE  CallTold(Ordered(c), Answered(c, i), its, bs, h)
<1>1. PICK k, r, n : k = Ordered(c) /\ r = bdCall[c] /\ n = Answered(c, i)
  OBVIOUS
<1>2. AboutToPost(k, r) /\ HitsAre(k, h, its, bs)
  BY <1>1
<1>3. \A v : Ends(c, v) = OverOf(r, 0, v)
  BY <1>1, <1>2, EndsIs DEF AboutToPost
<1>4. Follows(r, its) /\ LinksAre(k, r)
  BY <1>2 DEF Follows, LinksAre, AboutToPost
<1>5. CASE k.wait /\ i = 0
  <2>1. n = OverOf(r, r.item, "error")
    BY <1>1, <1>2, <1>3, <1>5 DEF Answered, AboutToPost
  <2>2. CallTold(k, n, its, bs, h)
    BY ONLY <1>2, <1>4, <2>1, h # <<>>, Fails DEF AboutToPost, Failures
  <2> QED
    BY <1>1, <2>2
<1>6. ASSUME NEW p \in {"item", "detach"}, NEW t,
             n = BdRec(p, i, r.number, r.params, r.late, r.detached, t, r.found, r.posts, r.warned, r.listed, r.links)
      PROVE  CallTold(k, n, its, bs, h)
  <2>2. /\ n.pc = p /\ n.item = i /\ n.number = 0 /\ n.params = r.params /\ n.late = r.late
        /\ ~n.detached /\ n.detached = r.detached /\ n.told = t /\ n.found = "none"
        /\ n.posts = r.posts /\ n.warned = r.warned /\ n.listed = r.listed /\ n.links = <<>> /\ IsBd(n)
    BY ONLY <1>2, <1>6 DEF BdRec, IsBd, AboutToPost
  <2>3. BdTyped(n)
    BY ONLY <1>2, <1>6, <2>2, i \in Nat DEF BdTyped, BdPcs, AboutToPost
  <2>4. StartedOf(n) = StartedOf(r) /\ Follows(n, its)
    BY ONLY <1>2, <2>2 DEF StartedOf, Follows, AboutToPost
  <2>5. Place(k, n, bs, h)
    BY ONLY <1>2, <1>6, <2>2, h # <<>> DEF Place, Early, AboutToPost, IsTrigger
  <2>6. n.pc # "over" /\ n.pc # "links"
    BY <1>6, <2>2
  <2> QED
    BY ONLY <1>2, <2>2, <2>3, <2>4, <2>5, <2>6, GoesOnQuietly DEF AboutToPost
<1>7. CASE k.wait /\ i # 0
  <2>1. n = [r EXCEPT !.pc = "item", !.item = i]
    BY <1>1, <1>7 DEF Answered
  <2>2. n = BdRec("item", i, r.number, r.params, r.late, r.detached, r.told, r.found, r.posts, r.warned, r.listed, r.links)
    BY ONLY <1>2, <2>1 DEF AboutToPost, IsBd, BdRec
  <2> QED
    BY <1>1, <1>6, <2>2
<1>8. CASE ~k.wait /\ LeavesWatch(c)
  <2>1. n = [r EXCEPT !.pc = "detach", !.item = i, !.told = "ok"]
    BY <1>1, <1>8 DEF Answered
  <2>2. n = BdRec("detach", i, r.number, r.params, r.late, r.detached, "ok", r.found, r.posts, r.warned, r.listed, r.links)
    BY ONLY <1>2, <2>1 DEF AboutToPost, IsBd, BdRec
  <2> QED
    BY <1>1, <1>6, <2>2
<1>9. CASE ~k.wait /\ ~LeavesWatch(c)
  <2>1. PICK m : m = OverOf(r, 0, "ok")
    OBVIOUS
  <2>2. n = [m EXCEPT !.item = i]
    BY <1>1, <1>3, <1>9, <2>1 DEF Answered
  <2>3. ~r.detached
    BY <1>2 DEF AboutToPost
  <2>4. n = BdRec("over", i, r.number, r.params, r.late, r.detached, "ok", "ok", r.posts, r.warned, r.listed, r.links)
    BY ONLY <2>1, <2>2, <2>3 DEF OverOf, BdRec
  <2>5. PICK u : u = OverOf(r, i, "ok")
    OBVIOUS
  <2>6. u = BdRec("over", i, r.number, r.params, r.late, r.detached, "ok", "ok", r.posts, r.warned, r.listed, r.links)
    BY ONLY <2>3, <2>5 DEF OverOf
  <2>7. n.warned = r.warned /\ n.links = r.links /\ n = [u EXCEPT !.warned = n.warned] /\ r.pc # "over"
    <3>1. n.warned = r.warned /\ n.links = r.links /\ r.pc # "over" /\ n.number = r.number
      BY ONLY <1>2, <2>4 DEF BdRec, AboutToPost
    <3>2. PICK w : w = n.warned
      OBVIOUS
    <3>3. n = [u EXCEPT !.warned = w]
      BY ONLY <2>4, <2>6, <3>1, <3>2 DEF BdRec
    <3> QED
      BY <3>1, <3>2, <3>3
  <2>8. LinksAre(k, n)
    BY ONLY <1>2, <2>7 DEF LinksAre, AboutToPost, IsTrigger
  <2>9. CallTold(k, n, its, bs, h)
    BY ONLY <1>2, <1>4, <2>5, <2>7, <2>8, i \in Nat, h # <<>>, IsDone DEF AboutToPost, BdTyped
  <2> QED
    BY <1>1, <2>9
<1> QED
  BY <1>5, <1>7, <1>8, <1>9

\* A call posts its request.
LEMMA PostStep == ASSUME BdInv, NEW c \in DOMAIN bdSetting.orders, Post(c) PROVE BdInv'
<1>1. PICK k, r, h : k = Ordered(c) /\ r = bdCall[c] /\ h = bdHits[c]
  OBVIOUS
<1>2. CallTold(k, r, items, builds, h)
  BY <1>1 DEF BdInv
<1>3. r.pc = "post" /\ bdSetting' = bdSetting /\ builds' = builds
  BY <1>1 DEF Post
<1>4. AboutToPost(k, r) /\ h = <<>> /\ OtherOf(k, r.params.other, builds)
  BY <1>2, <1>3 DEF CallTold, Place, Early, BdTyped, AboutToPost
<1>5. PICK p : p = Params(c, r.params)
  OBVIOUS
<1>6. /\ p.flag = k.flag
      /\ IF k.extra THEN p.other = "extra" ELSE OtherOf(k, p.other, builds)
  BY <1>1, <1>4, <1>5 DEF Params
<1>7. \/ /\ Queued(c, p)
         /\ \E n \in {Answered(c, ItemOf(p)), Answered(c, 0), Ends(c, "error")} : bdCall' = [bdCall EXCEPT ![c] = n]
      \/ bdCall' = [bdCall EXCEPT ![c] = Ends(c, "error")] /\ JenkinsStays
  BY <1>1, <1>5 DEF Post, BdMoves, JenkinsStays
<1>8. BuildsOK(builds', bdSetting.links) /\ BuildsKept(builds, builds')
  BY <1>3 DEF BdInv, BuildsKept, BuildKept
<1>9. ASSUME Queued(c, p), NEW n \in {Answered(c, ItemOf(p)), Answered(c, 0), Ends(c, "error")},
             bdCall' = [bdCall EXCEPT ![c] = n]
      PROVE  BdInv'
  <2>1. PICK e : e = [kind |-> "item", n |-> ItemOf(p)]
    OBVIOUS
  <2>2. bdHits' = [bdHits EXCEPT ![c] = <<e>>] /\ <<e>> # <<>> /\ e.n = ItemOf(p)
    <3>1. bdHits' = [bdHits EXCEPT ![c] = Append(h, e)]
      BY <1>1, <1>9, <2>1 DEF Queued, Hits
    <3> QED
      BY <1>4, <2>1, <3>1, OneHit
  <2>3. /\ ItemsOK(items') /\ ItemsKept(items, items')
        /\ ItemOf(p) \in DOMAIN items' /\ items'[ItemOf(p)].params = p
        /\ ItemOf(p) \in Nat \ {0}
    BY <1>9, QueuedKeeps
  <2>4. HitIs(k, e, items', builds')
    <3>1. k.tool # "stop"
      BY <1>4 DEF AboutToPost, IsTrigger
    <3> QED
      BY <1>3, <1>6, <2>2, <2>3, <3>1 DEF HitIs
  <2>5. PICK g : g = <<e>>
    OBVIOUS
  <2>6. HitsAre(k, g, items', builds') /\ g # <<>>
    BY <1>4, <2>2, <2>4, <2>5 DEF HitsAre, AboutToPost
  <2>7. CallTold(k, n, items', builds', g)
    <3>1. CASE n = Answered(c, ItemOf(p)) \/ n = Answered(c, 0)
      BY <1>1, <1>4, <2>3, <2>6, <3>1, AnsweredHolds
    <3>2. CASE n = Ends(c, "error")
      <4>1. IsBd(r) /\ n = OverOf(r, r.item, "error")
        BY <1>1, <1>4, <3>2, EndsIs DEF AboutToPost
      <4>2. Follows(r, items') /\ LinksAre(k, r)
        BY <1>4 DEF Follows, LinksAre, AboutToPost
      <4> QED
        BY <1>4, <2>6, <4>1, <4>2, Fails DEF AboutToPost, Failures
    <3> QED
      BY <1>9, <3>1, <3>2
  <2>8. bdHits' = [bdHits EXCEPT ![c] = g]
    BY <2>2, <2>5
  <2> QED
    BY <1>1, <1>3, <1>8, <1>9, <2>3, <2>7, <2>8, OneBdMoves
<1>10. CASE bdCall' = [bdCall EXCEPT ![c] = Ends(c, "error")] /\ JenkinsStays
  BY <1>1, <1>3, <1>10, FailStep DEF Failures
<1> QED
  BY <1>7, <1>9, <1>10

\* The command line leaves a watch behind, or says that it could not.
LEMMA DetachStep == ASSUME BdInv, NEW c \in DOMAIN bdSetting.orders, Detach(c) PROVE BdInv'
<1>1. PICK k, r, h : k = Ordered(c) /\ r = bdCall[c] /\ h = bdHits[c]
  OBVIOUS
<1>2. CallTold(k, r, items, builds, h)
  BY <1>1 DEF BdInv
<1>3. r.pc = "detach"
  BY <1>1 DEF Detach
<1>4. /\ h # <<>> /\ r.number = 0 /\ r.links = <<>> /\ r.found = "none" /\ BdTyped(r) /\ IsBd(r) /\ SlackIs(k, r)
      /\ HitsAre(k, h, items, builds) /\ IsTrigger(k) /\ IsSure(k)
  BY <1>2, <1>3 DEF CallTold, Place, Early, BdTyped
<1>5. PICK x : x = Ends(c, "ok")
  OBVIOUS
<1>6. x = OverOf(r, r.item, "ok")
  BY <1>1, <1>4, <1>5, EndsIs
<1>7. PICK t : t = IF r.detached THEN r.told ELSE "ok"
  OBVIOUS
<1>8. x = BdRec("over", r.item, r.number, r.params, r.late, r.detached, t, "ok", r.posts, r.warned, r.listed, r.links)
  BY <1>6, <1>7 DEF OverOf
<1>9. PICK a, b, d : /\ a = [x EXCEPT !.warned = TRUE] /\ b = [x EXCEPT !.detached = TRUE, !.found = "bad_argument"]
                    /\ d = [r EXCEPT !.pc = "item", !.detached = TRUE]
  OBVIOUS
<1>10. JenkinsStays /\ \E n \in {a, b, d} : bdCall' = [bdCall EXCEPT ![c] = n]
  BY <1>1, <1>5, <1>9 DEF Detach, BdMoves
<1>11. a = BdRec("over", r.item, r.number, r.params, r.late, r.detached, t, "ok", r.posts, TRUE, r.listed, r.links)
  BY ONLY <1>8, <1>9 DEF BdRec
<1>12. b = BdRec("over", r.item, r.number, r.params, r.late, TRUE, t, "bad_argument", r.posts, r.warned, r.listed, r.links)
  BY ONLY <1>8, <1>9 DEF BdRec
<1>13. d = BdRec("item", r.item, r.number, r.params, r.late, TRUE, r.told, r.found, r.posts, r.warned, r.listed, r.links)
  BY ONLY <1>4, <1>9 DEF IsBd, BdRec
<1>14. ASSUME NEW n, NEW w \in BOOLEAN, NEW y \in BOOLEAN, NEW f \in {"ok", "bad_argument"}, r.warned => w,
             n = BdRec("over", r.item, r.number, r.params, r.late, y, t, f, r.posts, w, r.listed, r.links)
      PROVE  CallTold(k, n, items, builds, h)
  <2>1. /\ n.pc = "over" /\ n.item = r.item /\ n.number = 0 /\ n.params = r.params /\ n.late = r.late
        /\ n.detached = y /\ n.told = t /\ n.found = f
        /\ n.posts = r.posts /\ n.warned = w /\ n.listed = r.listed /\ n.links = <<>> /\ IsBd(n)
    BY ONLY <1>4, <1>14 DEF BdRec, IsBd
  <2>2. BdTyped(n)
    BY ONLY <1>4, <1>14, <2>1 DEF BdTyped, BdPcs
  <2>3. StartedOf(n) = StartedOf(r) /\ Follows(n, items) /\ LinksAre(k, n)
    BY ONLY <1>4, <2>1 DEF StartedOf, Follows, LinksAre, IsTrigger
  <2>4. OutcomeOf(k, n) = <<>> /\ WatchIs(k, n, items, builds)
    BY <1>14, <2>1, Texts DEF OutcomeOf, IsWatched, WatchIs
  <2>5. Ended(k, n, items, builds, h)
    BY ONLY <1>4, <2>1, <2>2, <2>3, <2>4 DEF Ended
  <2> QED
    BY ONLY <1>4, <1>14, <2>1, <2>3, <2>4, <2>5, EndsQuietly
<1>15. CallTold(k, a, items, builds, h)
  BY ONLY <1>4, <1>11, <1>14 DEF BdTyped
<1>16. CallTold(k, b, items, builds, h)
  BY ONLY <1>4, <1>12, <1>14 DEF BdTyped
<1>17. CallTold(k, d, items, builds, h)
  <2>2. /\ d.pc = "item" /\ d.item = r.item /\ d.number = 0 /\ d.params = r.params /\ d.late = r.late
        /\ d.detached /\ d.detached = TRUE /\ d.told = r.told /\ d.found = "none"
        /\ d.posts = r.posts /\ d.warned = r.warned /\ d.listed = r.listed /\ d.links = <<>> /\ IsBd(d)
    BY ONLY <1>4, <1>13 DEF BdRec, IsBd
  <2>3. BdTyped(d)
    BY ONLY <1>4, <2>2 DEF BdTyped, BdPcs
  <2>4. StartedOf(d) = StartedOf(r) /\ Follows(d, items)
    BY ONLY <1>4, <2>2 DEF StartedOf, Follows
  <2>5. Place(k, d, builds, h)
    BY ONLY <1>4, <2>2 DEF Place, Early, IsTrigger
  <2>6. d.pc # "over" /\ d.pc # "links"
    BY <2>2
  <2> QED
    BY ONLY <1>4, <2>2, <2>3, <2>4, <2>5, <2>6, GoesOnQuietly
<1> QED
  BY <1>1, <1>10, <1>15, <1>16, <1>17, BdCallMoves

\* What posting a message makes of a call.
LEMMA PostedIs ==
  ASSUME NEW c, NEW x, NEW n, NEW t, IsBd(x), x.warned \in BOOLEAN, n \in Posted(x, c, t)
  PROVE  \E ps, w :
           /\ n = BdRec(x.pc, x.item, x.number, x.params, x.late, x.detached, x.told, x.found, ps, w, x.listed, x.links)
           /\ w \in BOOLEAN /\ (x.warned => w)
           /\ \/ ps = x.posts /\ (w \/ ~Ordered(c).notify)
              \/ Ordered(c).notify /\ ps = Append(x.posts, t)
<1>1. PICK a : a = Append(x.posts, t)
  OBVIOUS
<1>2. CASE ~Ordered(c).notify
  <2>1. n = x
    BY <1>2 DEF Posted
  <2>2. n = BdRec(x.pc, x.item, x.number, x.params, x.late, x.detached, x.told, x.found, x.posts, x.warned,
                  x.listed, x.links)
    BY <2>1 DEF IsBd
  <2> QED
    BY <1>2, <2>2
<1>3. CASE Ordered(c).notify
  <2>1. PICK y1, y2, y3 : /\ y1 = [x EXCEPT !.posts = a] /\ y2 = [x EXCEPT !.warned = TRUE]
                         /\ y3 = [x EXCEPT !.posts = a, !.warned = TRUE]
    OBVIOUS
  <2>2. n = y1 \/ n = y2 \/ n = y3
    BY <1>1, <1>3, <2>1 DEF Posted, Delivered
  <2>3. y1 = BdRec(x.pc, x.item, x.number, x.params, x.late, x.detached, x.told, x.found, a, x.warned, x.listed, x.links)
    BY ONLY <2>1, IsBd(x) DEF IsBd, BdRec
  <2>4. y2 = BdRec(x.pc, x.item, x.number, x.params, x.late, x.detached, x.told, x.found, x.posts, TRUE, x.listed, x.links)
    BY ONLY <2>1, IsBd(x) DEF IsBd, BdRec
  <2>5. y3 = BdRec(x.pc, x.item, x.number, x.params, x.late, x.detached, x.told, x.found, a, TRUE, x.listed, x.links)
    BY ONLY <2>1, IsBd(x) DEF IsBd, BdRec
  <2>6. CASE n = y1
    BY <1>1, <1>3, <2>3, <2>6
  <2>7. CASE n = y2
    BY <1>3, <2>4, <2>7
  <2>8. CASE n = y3
    BY <1>1, <1>3, <2>5, <2>8
  <2> QED
    BY <2>2, <2>6, <2>7, <2>8
<1> QED
  BY <1>2, <1>3

\* A call that waits for an item or for a build.
IsWaiting(k, r, h) ==
  /\ r.pc \in {"item", "build"} /\ IsBd(r) /\ BdTyped(r) /\ SlackIs(k, r) /\ r.found = "none"
  /\ r.links = <<>> /\ k.tool \in {"trigger", "trigger_raw", "watch"} /\ (IsTrigger(k) => h # <<>>)
  /\ r.pc = "item" => r.number = 0

\* What is told of a call that waits is such.
LEMMA WaitingIs ==
  ASSUME NEW k, NEW r, NEW its, NEW bs, NEW h, CallTold(k, r, its, bs, h), r.pc \in {"item", "build"}
  PROVE  IsWaiting(k, r, h)
  BY DEF CallTold, Place, Early, BdTyped, IsWaiting

\* A watch ends with what it has seen.
LEMMA WatchEndsStep ==
  ASSUME BdInv, NEW c \in DOMAIN bdSetting.orders, NEW v, NEW t, WatchEnds(c, v, t), JenkinsStays,
         bdCall[c].pc \in {"item", "build"}, TextOf(v) = <<t>>, v # "none",
         v = "ok" => /\ bdCall[c].number \in DOMAIN builds /\ bdCall[c].number # 0
                     /\ builds[bdCall[c].number].done /\ builds[bdCall[c].number].result = "SUCCESS",
         v = "failed" => /\ bdCall[c].number \in DOMAIN builds
                         /\ builds[bdCall[c].number].done /\ builds[bdCall[c].number].result # "SUCCESS",
         v = "aborted" => bdCall[c].item \in DOMAIN items /\ items[bdCall[c].item].state = "cancelled"
  PROVE  BdInv'
<1>1. PICK k, r, h : k = Ordered(c) /\ r = bdCall[c] /\ h = bdHits[c]
  OBVIOUS
<1>2. CallTold(k, r, items, builds, h)
  BY <1>1 DEF BdInv
<1>3. IsWaiting(k, r, h) /\ Follows(r, items) /\ HitsAre(k, h, items, builds)
  BY <1>1, <1>2, WaitingIs DEF CallTold
<1>4. PICK x : x = Ends(c, v)
  OBVIOUS
<1>5. PICK y : y = IF r.detached THEN r.told ELSE v
  OBVIOUS
<1>6. x = BdRec("over", r.item, r.number, r.params, r.late, r.detached, y, v, r.posts, r.warned, r.listed, r.links)
  BY <1>1, <1>3, <1>4, <1>5, EndsIs DEF OverOf, IsWaiting
<1>7. /\ IsBd(x) /\ x.pc = "over" /\ x.item = r.item /\ x.number = r.number /\ x.params = r.params /\ x.late = r.late
      /\ x.detached = r.detached /\ x.told = y /\ x.found = v /\ x.posts = r.posts /\ x.warned = r.warned
      /\ x.listed = r.listed /\ x.links = r.links
  BY ONLY <1>6 DEF BdRec, IsBd
<1>8. PICK n : n \in Posted(x, c, t) /\ bdCall' = [bdCall EXCEPT ![c] = n]
  BY <1>4 DEF WatchEnds, BdMoves
<1>9. PICK ps, w :
           /\ n = BdRec(x.pc, x.item, x.number, x.params, x.late, x.detached, x.told, x.found, ps, w, x.listed, x.links)
           /\ w \in BOOLEAN /\ (x.warned => w)
           /\ \/ ps = x.posts /\ (w \/ ~k.notify)
              \/ k.notify /\ ps = Append(x.posts, t)
  BY <1>1, <1>3, <1>7, <1>8, PostedIs DEF IsWaiting, BdTyped
<1>10. /\ IsBd(n) /\ n.pc = "over" /\ n.item = r.item /\ n.number = r.number /\ n.params = r.params /\ n.late = r.late
       /\ n.detached = r.detached /\ n.told = y /\ n.found = v /\ n.posts = ps /\ n.warned = w
       /\ n.listed = r.listed /\ n.links = <<>>
  BY ONLY <1>3, <1>7, <1>9 DEF BdRec, IsBd, IsWaiting
<1>11. BdTyped(n)
  BY ONLY <1>3, <1>9, <1>10, v # "none" DEF BdTyped, BdPcs, IsWaiting
<1>12. StartedOf(n) = StartedOf(r) /\ Follows(n, items) /\ LinksAre(k, n)
  BY ONLY <1>3, <1>10 DEF StartedOf, Follows, LinksAre, IsWaiting
<1>13. IsWatched(k, n) \/ n.found # "ok"
  BY <1>1, <1>3, <1>10 DEF IsWatched, IsWaiting
<1>14. OutcomeOf(k, n) = <<t>>
  BY <1>10, <1>13 DEF OutcomeOf
<1>15. WatchIs(k, n, items, builds)
  BY <1>1, <1>10 DEF WatchIs
<1>16. Ended(k, n, items, builds, h)
  BY ONLY <1>3, <1>10, <1>11, <1>12, <1>15 DEF Ended, IsWaiting
<1>17. CallTold(k, n, items, builds, h)
  <2>1. r.warned => n.warned
    BY ONLY <1>7, <1>9, <1>10
  <2>2. \/ n.posts = r.posts /\ (n.warned \/ ~k.notify)
        \/ k.notify /\ n.posts = Append(r.posts, t)
    BY ONLY <1>7, <1>9, <1>10
  <2> QED
    BY ONLY <1>3, <1>12, <1>14, <1>16, <2>1, <2>2, EndsTold DEF IsWaiting
<1> QED
  BY <1>1, <1>8, <1>17, BdCallMoves

\* The item has become a build: the watch follows the build.
LEMMA StartsStep ==
  ASSUME BdInv, NEW c \in DOMAIN bdSetting.orders, JenkinsStays, NEW i, i = bdCall[c].item, bdCall[c].pc = "item",
         StateOf(i) = "left", NEW n, bdCall' = [bdCall EXCEPT ![c] = n],
         n \in Posted([bdCall[c] EXCEPT !.pc = "build", !.number = items[i].build], c, "started")
  PROVE  BdInv'
<1>1. PICK k, r, h : k = Ordered(c) /\ r = bdCall[c] /\ h = bdHits[c]
  OBVIOUS
<1>2. CallTold(k, r, items, builds, h)
  BY <1>1 DEF BdInv
<1>3. IsWaiting(k, r, h) /\ Follows(r, items) /\ HitsAre(k, h, items, builds) /\ r.number = 0
  BY <1>1, <1>2, WaitingIs DEF CallTold, IsWaiting
<1>4. PICK b, t : b = items[i].build /\ t = "started"
  OBVIOUS
<1>5. i \in DOMAIN items /\ items[i].state = "left" /\ b \in Nat /\ b # 0 /\ i # 0 /\ r.item = i
  <2>1. i \in DOMAIN items /\ items[i].state = "left"
    BY DEF StateOf
  <2>2. DOMAIN items = 1..Len(items) /\ Len(items) \in Nat
    BY ListGrows DEF BdInv, ItemsOK
  <2>3. ItemOK(items[i])
    BY <2>1 DEF BdInv, ItemsOK
  <2> QED
    BY <1>1, <1>4, <2>1, <2>2, <2>3 DEF ItemOK, GoneFrom
<1>6. PICK x : x = [r EXCEPT !.pc = "build", !.number = b]
  OBVIOUS
<1>7. x = BdRec("build", r.item, b, r.params, r.late, r.detached, r.told, r.found, r.posts, r.warned, r.listed, r.links)
  BY ONLY <1>3, <1>6 DEF IsBd, BdRec, IsWaiting
<1>8. /\ IsBd(x) /\ x.pc = "build" /\ x.item = r.item /\ x.number = b /\ x.params = r.params /\ x.late = r.late
      /\ x.detached = r.detached /\ x.told = r.told /\ x.found = r.found /\ x.posts = r.posts /\ x.warned = r.warned
      /\ x.listed = r.listed /\ x.links = r.links
  BY ONLY <1>7 DEF BdRec, IsBd
<1>9. PICK ps, w :
           /\ n = BdRec(x.pc, x.item, x.number, x.params, x.late, x.detached, x.told, x.found, ps, w, x.listed, x.links)
           /\ w \in BOOLEAN /\ (x.warned => w)
           /\ \/ ps = x.posts /\ (w \/ ~k.notify)
              \/ k.notify /\ ps = Append(x.posts, t)
  <2>1. n \in Posted(x, c, t)
    BY <1>1, <1>4, <1>6
  <2> QED
    BY <1>1, <1>3, <1>8, <2>1, PostedIs DEF IsWaiting, BdTyped
<1>10. /\ IsBd(n) /\ n.pc = "build" /\ n.item = i /\ n.number = b /\ n.params = r.params /\ n.late = r.late
       /\ n.detached = r.detached /\ n.told = r.told /\ n.found = "none" /\ n.posts = ps /\ n.warned = w
       /\ n.listed = r.listed /\ n.links = <<>>
  BY ONLY <1>3, <1>5, <1>8, <1>9 DEF BdRec, IsBd, IsWaiting
<1>11. BdTyped(n)
  BY ONLY <1>3, <1>5, <1>9, <1>10 DEF BdTyped, BdPcs, IsWaiting
<1>12. Follows(n, items) /\ LinksAre(k, n) /\ WatchIs(k, n, items, builds)
  <2>1. Follows(n, items)
    BY ONLY <1>4, <1>5, <1>10 DEF Follows, GoneFrom
  <2> QED
    BY ONLY <1>3, <1>10, <2>1 DEF LinksAre, IsWaiting, WatchIs
<1>13. SlackIs(k, n)
  <2>1. r.posts = <<>>
    <3>1. StartedOf(r) = <<>>
      BY <1>3 DEF StartedOf
    <3> QED
      BY <1>3, <3>1, PostedSoFar DEF IsWaiting
  <2>2. StartedOf(n) = <<t>> /\ OutcomeOf(k, n) = <<>>
    BY <1>4, <1>5, <1>10, Texts DEF StartedOf, OutcomeOf
  <2>a. Append(x.posts, t) = <<t>> /\ x.posts = <<>>
    BY <1>8, <2>1, OneHit
  <2>3. (ps = <<>> /\ (w \/ ~k.notify)) \/ (k.notify /\ ps = <<t>>)
    BY ONLY <1>9, <2>a
  <2>4. ps = ps \o <<>>
    BY <1>4, <2>3, OneMore
  <2> QED
    BY ONLY <1>10, <2>2, <2>3, <2>4 DEF SlackIs
<1>14. Place(k, n, builds, h)
  BY ONLY <1>3, <1>10 DEF Place, Early, IsWaiting, IsTrigger
<1>15. CallTold(k, n, items, builds, h)
  BY ONLY <1>3, <1>10, <1>11, <1>12, <1>13, <1>14 DEF CallTold
<1> QED
  BY <1>1, <1>15, BdCallMoves

\* A look at the queue.
LEMMA AwaitItemStep == ASSUME BdInv, NEW c \in DOMAIN bdSetting.orders, AwaitItem(c) PROVE BdInv'
<1>1. PICK i : i = bdCall[c].item
  OBVIOUS
<1>2. /\ bdCall[c].pc = "item" /\ JenkinsStays
      /\ \/ WatchEnds(c, "not started", "not started")
         \/ StateOf(i) = "cancelled" /\ WatchEnds(c, "aborted", "not started")
         \/ /\ StateOf(i) = "left"
            /\ \E n \in Posted([bdCall[c] EXCEPT !.pc = "build", !.number = items[i].build], c, "started") : BdMoves(c, n)
         \/ Raises(c)
  BY <1>1 DEF AwaitItem
<1>3. CASE WatchEnds(c, "not started", "not started")
  BY <1>2, <1>3, Texts, WatchEndsStep
<1>4. CASE StateOf(i) = "cancelled" /\ WatchEnds(c, "aborted", "not started")
  <2>1. i \in DOMAIN items /\ items[i].state = "cancelled"
    BY <1>4 DEF StateOf
  <2> QED
    BY <1>1, <1>2, <1>4, <2>1, Texts, WatchEndsStep
<1>5. CASE /\ StateOf(i) = "left"
           /\ \E n \in Posted([bdCall[c] EXCEPT !.pc = "build", !.number = items[i].build], c, "started") : BdMoves(c, n)
  BY <1>1, <1>2, <1>5, StartsStep DEF BdMoves
<1>6. CASE Raises(c)
  BY <1>2, <1>6, FailStep DEF Raises, BdMoves, Failures
<1> QED
  BY <1>2, <1>3, <1>4, <1>5, <1>6

\* A look at the build.
LEMMA AwaitBuildStep == ASSUME BdInv, NEW c \in DOMAIN bdSetting.orders, AwaitBuild(c) PROVE BdInv'
<1>1. PICK n : n = bdCall[c].number
  OBVIOUS
<1>2. /\ bdCall[c].pc = "build" /\ JenkinsStays
      /\ \/ WatchEnds(c, "still running", "still running")
         \/ /\ ~Gone(n) /\ Finished(n)
            /\ \/ builds[n].result = "SUCCESS" /\ WatchEnds(c, "ok", "success")
               \/ builds[n].result # "SUCCESS" /\ WatchEnds(c, "failed", "failure")
         \/ Raises(c)
  BY <1>1 DEF AwaitBuild
<1>3. CASE WatchEnds(c, "still running", "still running")
  BY <1>2, <1>3, Texts, WatchEndsStep
<1>4. CASE /\ ~Gone(n) /\ Finished(n)
           /\ \/ builds[n].result = "SUCCESS" /\ WatchEnds(c, "ok", "success")
              \/ builds[n].result # "SUCCESS" /\ WatchEnds(c, "failed", "failure")
  <2>1. n \in DOMAIN builds /\ builds[n].done
    BY <1>4 DEF Gone, Finished
  <2>2. n # 0
    <3>1. DOMAIN builds = 1..Len(builds) /\ Len(builds) \in Nat
      BY ListGrows DEF BdInv, BuildsOK
    <3> QED
      BY <2>1, <3>1
  <2>3. CASE builds[n].result = "SUCCESS" /\ WatchEnds(c, "ok", "success")
    BY <1>1, <1>2, <2>1, <2>2, <2>3, Texts, WatchEndsStep
  <2>4. CASE builds[n].result # "SUCCESS" /\ WatchEnds(c, "failed", "failure")
    BY <1>1, <1>2, <2>1, <2>2, <2>4, Texts, WatchEndsStep
  <2> QED
    BY <1>4, <2>3, <2>4
<1>5. CASE Raises(c)
  BY <1>2, <1>5, FailStep DEF Raises, BdMoves, Failures
<1> QED
  BY <1>2, <1>3, <1>4, <1>5

\* The time of a wait is over.
LEMMA DeadlineStep == ASSUME BdInv, NEW c \in DOMAIN bdSetting.orders, BdDeadline(c) PROVE BdInv'
<1>1. PICK k, r, h, n : k = Ordered(c) /\ r = bdCall[c] /\ h = bdHits[c] /\ n = [r EXCEPT !.late = TRUE]
  OBVIOUS
<1>2. CallTold(k, r, items, builds, h) /\ r.pc \in {"item", "build"}
  BY <1>1 DEF BdInv, BdDeadline
<1>3. n = BdRec(r.pc, r.item, r.number, r.params, TRUE, r.detached, r.told, r.found, r.posts, r.warned, r.listed, r.links)
  <2>1. IsBd(r)
    BY <1>2 DEF CallTold
  <2>2. n = [r EXCEPT !.late = TRUE]
    BY <1>1
  <2> QED
    BY ONLY <2>1, <2>2 DEF IsBd, BdRec
<1>4. /\ IsBd(n) /\ n.pc = r.pc /\ n.item = r.item /\ n.number = r.number /\ n.params = r.params /\ n.late = TRUE
      /\ n.detached = r.detached /\ n.told = r.told /\ n.found = r.found /\ n.posts = r.posts /\ n.warned = r.warned
      /\ n.listed = r.listed /\ n.links = r.links
  BY ONLY <1>3 DEF BdRec, IsBd
<1>5. BdTyped(n)
  BY ONLY <1>2, <1>4 DEF CallTold, BdTyped
<1>6. Follows(n, items) /\ WatchIs(k, n, items, builds) /\ LinksAre(k, n)
  BY ONLY <1>2, <1>4 DEF CallTold, Follows, WatchIs, IsWatched, LinksAre
<1>7. SlackIs(k, n)
  <2>1. StartedOf(n) = StartedOf(r) /\ OutcomeOf(k, n) = OutcomeOf(k, r)
    BY ONLY <1>4 DEF StartedOf, OutcomeOf, IsWatched
  <2> QED
    BY ONLY <1>2, <1>4, <2>1 DEF CallTold, SlackIs
<1>8. Place(k, n, builds, h)
  BY ONLY <1>2, <1>4 DEF CallTold, Place
<1>9. CallTold(k, n, items, builds, h)
  BY ONLY <1>2, <1>4, <1>5, <1>6, <1>7, <1>8 DEF CallTold
<1> QED
  BY <1>1, <1>9, BdCallMoves DEF BdDeadline, BdMoves

\* One item changes, or one build.
LEMMA ItemChanges ==
  ASSUME NEW its, NEW i, NEW y, NEW now, ItemsOK(its), i \in DOMAIN its, ItemOK(y), ItemKept(its[i], y),
         now = [its EXCEPT ![i] = y]
  PROVE  ItemsOK(now) /\ ItemsKept(its, now)
<1>1. PICK R : its \in Seq(R)
  BY DEF ItemsOK, IsList
<1>2. PICK Q : Q = R \cup {y}
  OBVIOUS
<1>3. its \in Seq(Q) /\ y \in Q
  BY <1>1, <1>2, SeqDef
<1>4. DOMAIN its = 1..Len(its)
  BY <1>1, LenProperties
<1>5. now \in Seq(Q)
  BY <1>3, <1>4, ExceptSeq
<1>6. DOMAIN now = DOMAIN its /\ \A j \in DOMAIN its : now[j] = IF j = i THEN y ELSE its[j]
  OBVIOUS
<1>7. \A j \in DOMAIN its : ItemKept(its[j], now[j]) /\ ItemOK(now[j])
  BY <1>6 DEF ItemKept, ItemsOK
<1> QED
  BY <1>5, <1>6, <1>7 DEF ItemsOK, ItemsKept, IsList

\* One build changes.
LEMMA BuildChanges ==
  ASSUME NEW bs, NEW l, NEW i, NEW y, NEW now, BuildsOK(bs, l), i \in DOMAIN bs, BuildOK(y, l), BuildKept(bs[i], y),
         now = [bs EXCEPT ![i] = y]
  PROVE  BuildsOK(now, l) /\ BuildsKept(bs, now)
<1>1. PICK R : bs \in Seq(R)
  BY DEF BuildsOK, IsList
<1>2. PICK Q : Q = R \cup {y}
  OBVIOUS
<1>3. bs \in Seq(Q) /\ y \in Q
  BY <1>1, <1>2, SeqDef
<1>4. DOMAIN bs = 1..Len(bs)
  BY <1>1, LenProperties
<1>5. now \in Seq(Q)
  BY <1>3, <1>4, ExceptSeq
<1>6. DOMAIN now = DOMAIN bs /\ \A j \in DOMAIN bs : now[j] = IF j = i THEN y ELSE bs[j]
  OBVIOUS
<1>7. \A j \in DOMAIN bs : BuildKept(bs[j], now[j]) /\ BuildOK(now[j], l)
  BY <1>6 DEF BuildKept, BuildsOK
<1> QED
  BY <1>5, <1>6, <1>7 DEF BuildsOK, BuildsKept, IsList

\* A build more.
LEMMA BuildMore ==
  ASSUME NEW bs, NEW l, NEW y, NEW now, BuildsOK(bs, l), BuildOK(y, l), now = Append(bs, y)
  PROVE  BuildsOK(now, l) /\ BuildsKept(bs, now)
<1>1. PICK z : z = Len(bs) + 1
  OBVIOUS
<1>2. /\ IsList(now) /\ DOMAIN bs = 1..Len(bs) /\ Len(bs) \in Nat /\ DOMAIN now = 1..z
      /\ \A i \in DOMAIN bs : now[i] = bs[i]
      /\ now[z] = y
  BY <1>1, ListGrows DEF BuildsOK
<1>3. \A i \in DOMAIN now : i \in DOMAIN bs \/ i = z
  BY ONLY <1>1, <1>2
<1>4. 1 \in DOMAIN now /\ \A i \in DOMAIN bs : i \in DOMAIN now
  BY ONLY <1>1, <1>2
<1>5. BuildsOK(now, l)
  BY <1>2, <1>3, <1>4 DEF BuildsOK
<1> QED
  BY <1>2, <1>4, <1>5 DEF BuildsKept, BuildKept

\* An item that waits is cancelled.
LEMMA CancelKeeps ==
  ASSUME BdInv, NEW i, Cancel(i)
  PROVE  /\ ItemsOK(items') /\ ItemsKept(items, items')
         /\ BuildsOK(builds', bdSetting.links) /\ BuildsKept(builds, builds')
<1>1. PICK x, y : x = items[i] /\ y = [x EXCEPT !.state = "cancelled"]
  OBVIOUS
<1>2. i \in DOMAIN items /\ x.state = "waiting" /\ ItemOK(x) /\ ItemsOK(items)
  BY <1>1 DEF Cancel, Waits, BdInv, ItemsOK
<1>3. y = ItemRec("cancelled", x.build, x.params)
  BY ONLY <1>1, <1>2 DEF ItemOK, IsItem, ItemRec
<1>4. ItemOK(y) /\ ItemKept(x, y)
  BY ONLY <1>2, <1>3 DEF ItemOK, IsItem, ItemRec, GoneFrom, ItemKept
<1>5. items' = [items EXCEPT ![i] = y]
  BY <1>1 DEF Cancel
<1>6. builds' = builds
  BY DEF Cancel
<1>7. BuildsOK(builds', bdSetting.links) /\ BuildsKept(builds, builds')
  BY <1>6 DEF BdInv, BuildsKept, BuildKept
<1>8. ItemsOK(items') /\ ItemsKept(items, items')
  BY <1>1, <1>2, <1>4, <1>5, ItemChanges
<1> QED
  BY <1>7, <1>8

\* A build that runs is aborted.
LEMMA AbortKeeps ==
  ASSUME BdInv, NEW n, Abort(n)
  PROVE  /\ ItemsOK(items') /\ ItemsKept(items, items')
         /\ BuildsOK(builds', bdSetting.links) /\ BuildsKept(builds, builds')
<1>0. PICK l : l = bdSetting.links
  OBVIOUS
<1>1. PICK x, y : x = builds[n] /\ y = [x EXCEPT !.done = TRUE, !.result = "ABORTED"]
  OBVIOUS
<1>2. n \in DOMAIN builds /\ ~x.done /\ BuildOK(x, l) /\ BuildsOK(builds, l)
  BY <1>0, <1>1 DEF Abort, Runs, BdInv, BuildsOK
<1>3. y = BuildRec(TRUE, "ABORTED", x.links, x.params)
  BY ONLY <1>1, <1>2 DEF BuildOK, IsBuild, BuildRec
<1>4. BuildOK(y, l) /\ BuildKept(x, y)
  BY ONLY <1>2, <1>3 DEF BuildOK, IsBuild, BuildRec, BuildKept
<1>5. builds' = [builds EXCEPT ![n] = y]
  BY <1>1, <1>2 DEF Abort
<1>6. items' = items
  BY DEF Abort
<1>7. ItemsOK(items') /\ ItemsKept(items, items')
  BY <1>6 DEF BdInv, ItemsKept, ItemKept
<1>8. BuildsOK(builds', l) /\ BuildsKept(builds, builds')
  BY <1>1, <1>2, <1>4, <1>5, BuildChanges
<1> QED
  BY <1>0, <1>7, <1>8

\* A stop is sent, and the call is over.
LEMMA StopStep == ASSUME BdInv, NEW c \in DOMAIN bdSetting.orders, Stop(c) PROVE BdInv'
<1>1. PICK k, r, h : k = Ordered(c) /\ r = bdCall[c] /\ h = bdHits[c]
  OBVIOUS
<1>2. CallTold(k, r, items, builds, h)
  BY <1>1 DEF BdInv
<1>3. r.pc = "stop" /\ bdSetting' = bdSetting
  BY <1>1 DEF Stop
<1>4. /\ h = <<>> /\ r.told = "none" /\ ~r.detached /\ r.item = 0 /\ r.number = 0 /\ r.links = <<>>
      /\ r.found = "none" /\ BdTyped(r) /\ IsBd(r) /\ SlackIs(k, r) /\ k.tool = "stop" /\ IsSure(k)
  BY <1>2, <1>3 DEF CallTold, Place, Early, BdTyped
<1>5. PICK v \in {"ok", "error"} : bdCall' = [bdCall EXCEPT ![c] = Ends(c, v)]
  BY DEF Stop, BdMoves
<1>6. PICK n : n = Ends(c, v)
  OBVIOUS
<1>7. n = OverOf(r, 0, v) /\ r.item = 0
  BY <1>1, <1>4, <1>6, EndsIs
<1>8. ASSUME NEW its, NEW bs, NEW g, HitsAre(k, g, its, bs) PROVE CallTold(k, n, its, bs, g)
  <2>1. Follows(r, its) /\ LinksAre(k, r) /\ ~IsTrigger(k) /\ r.pc # "over"
    BY <1>3, <1>4 DEF Follows, LinksAre, IsTrigger
  <2>2. CASE v = "error"
    BY <1>4, <1>7, <1>8, <2>1, <2>2, Fails DEF Failures
  <2>3. CASE v = "ok"
    <3>1. n = BdRec("over", 0, r.number, r.params, r.late, r.detached, v, v, r.posts, r.warned, r.listed, r.links)
      BY ONLY <1>4, <1>7 DEF OverOf
    <3>2. n.warned = r.warned /\ n.links = r.links /\ n.number = r.number /\ IsBd(n)
      BY ONLY <3>1 DEF BdRec, IsBd
    <3>3. PICK w, u : w = n.warned /\ u = OverOf(r, 0, "ok")
      OBVIOUS
    <3>4. n = [u EXCEPT !.warned = w]
      <4>1. n = u
        BY <1>7, <2>3, <3>3
      <4> QED
        BY ONLY <3>2, <3>3, <4>1 DEF IsBd, BdRec
    <3>5. LinksAre(k, n)
      BY ONLY <1>4, <3>2 DEF LinksAre
    <3> QED
      BY <1>4, <1>8, <2>1, <3>2, <3>3, <3>4, <3>5, IsDone DEF BdTyped
  <2> QED
    BY <2>2, <2>3
<1>9. CASE UNCHANGED <<items, builds, bdHits>>
  <2>1. HitsAre(k, h, items, builds)
    BY <1>4 DEF HitsAre
  <2>2. CallTold(k, n, items, builds, h)
    BY <1>8, <2>1
  <2>3. JenkinsStays
    BY <1>3, <1>9 DEF Stop, JenkinsStays
  <2> QED
    BY <1>1, <1>5, <1>6, <2>2, <2>3, BdCallMoves
<1>10. CASE /\ IF k.by = "item" THEN Cancel(k.of) ELSE Abort(k.of)
            /\ Hits(c, k.by, k.of)
  <2>1. PICK e, g : e = [kind |-> k.by, n |-> k.of] /\ g = <<e>>
    OBVIOUS
  <2>2. bdHits' = [bdHits EXCEPT ![c] = g]
    <3>1. bdHits' = [bdHits EXCEPT ![c] = Append(h, e)]
      BY <1>1, <1>10, <2>1 DEF Hits
    <3> QED
      BY <1>4, <2>1, <3>1, OneHit
  <2>3. HitsAre(k, g, items', builds')
    BY <1>4, <2>1 DEF HitsAre, HitIs
  <2>4. /\ ItemsOK(items') /\ ItemsKept(items, items')
        /\ BuildsOK(builds', bdSetting.links) /\ BuildsKept(builds, builds')
    BY <1>10, CancelKeeps, AbortKeeps
  <2>5. CallTold(k, n, items', builds', g)
    BY <1>8, <2>3
  <2> QED
    BY <1>1, <1>3, <1>5, <1>6, <2>2, <2>4, <2>5, OneBdMoves
<1> QED
  BY <1>1, <1>9, <1>10 DEF Stop

\* A build is looked up.
LEMMA MetaStep == ASSUME BdInv, NEW c \in DOMAIN bdSetting.orders, Meta(c) PROVE BdInv'
<1>1. PICK k, r, h : k = Ordered(c) /\ r = bdCall[c] /\ h = bdHits[c]
  OBVIOUS
<1>2. CallTold(k, r, items, builds, h)
  BY <1>1 DEF BdInv
<1>3. r.pc = "meta" /\ JenkinsStays
  BY <1>1 DEF Meta
<1>4. /\ h = <<>> /\ r.told = "none" /\ ~r.detached /\ r.item = 0 /\ r.number = 0 /\ r.links = <<>>
      /\ r.found = "none" /\ BdTyped(r) /\ IsBd(r) /\ SlackIs(k, r) /\ k.tool = "artifacts"
      /\ HitsAre(k, h, items, builds)
  BY <1>2, <1>3 DEF CallTold, Place, Early, BdTyped
<1>5. CASE bdCall' = [bdCall EXCEPT ![c] = Ends(c, "error")]
  BY <1>1, <1>3, <1>5, FailStep DEF Failures
<1>6. ASSUME NEW m \in DOMAIN builds,
             bdCall' = [bdCall EXCEPT ![c] = [r EXCEPT !.pc = "links", !.number = m, !.listed = builds[m].links]]
      PROVE  BdInv'
  <2>1. PICK l, n : l = builds[m].links /\ n = [r EXCEPT !.pc = "links", !.number = m, !.listed = l]
    OBVIOUS
  <2>2. n = BdRec("links", r.item, m, r.params, r.late, r.detached, r.told, r.found, r.posts, r.warned, l, r.links)
    BY ONLY <1>4, <2>1 DEF IsBd, BdRec
  <2>3. /\ n.pc = "links" /\ n.item = 0 /\ n.number = m /\ n.params = r.params /\ n.late = r.late
        /\ ~n.detached /\ n.detached = r.detached /\ n.told = "none" /\ n.found = "none"
        /\ n.posts = r.posts /\ n.warned = r.warned /\ n.listed = l /\ n.links = <<>> /\ IsBd(n)
    BY ONLY <1>4, <2>2 DEF BdRec, IsBd
  <2>4. m \in Nat /\ l \in Nat
    <3>1. DOMAIN builds = 1..Len(builds) /\ Len(builds) \in Nat
      BY ListGrows DEF BdInv, BuildsOK
    <3>2. bdSetting.links \in Nat
      BY BdOrderIs DEF BdInv
    <3>3. BuildOK(builds[m], bdSetting.links)
      BY DEF BdInv, BuildsOK
    <3> QED
      BY <2>1, <3>1, <3>2, <3>3 DEF BuildOK
  <2>5. BdTyped(n)
    BY ONLY <1>4, <2>3, <2>4 DEF BdTyped, BdPcs
  <2>6. StartedOf(n) = StartedOf(r) /\ Follows(n, items) /\ LinksAre(k, n)
    BY ONLY <1>4, <2>3 DEF StartedOf, Follows, LinksAre
  <2>7. Place(k, n, builds, h)
    BY ONLY <1>4, <2>3 DEF Place, Early, IsTrigger
  <2>8. n.pc # "over"
    BY <2>3
  <2>9. CallTold(k, n, items, builds, h)
    BY ONLY <1>4, <2>3, <2>5, <2>6, <2>7, <2>8, GoesOnQuietly
  <2> QED
    BY <1>1, <1>3, <1>6, <2>1, <2>9, BdCallMoves
<1> QED
  BY <1>1, <1>5, <1>6 DEF Meta, BdMoves

\* A link is read, or all are.
LEMMA LinksStep == ASSUME BdInv, NEW c \in DOMAIN bdSetting.orders, Links(c) PROVE BdInv'
<1>1. PICK k, r, h : k = Ordered(c) /\ r = bdCall[c] /\ h = bdHits[c]
  OBVIOUS
<1>2. CallTold(k, r, items, builds, h)
  BY <1>1 DEF BdInv
<1>3. r.pc = "links" /\ JenkinsStays
  BY <1>1 DEF Links
<1>4. /\ ~r.detached /\ r.item = 0 /\ LinksAre(k, r) /\ Follows(r, items)
      /\ r.found = "none" /\ BdTyped(r) /\ IsBd(r) /\ SlackIs(k, r) /\ k.tool = "artifacts"
      /\ HitsAre(k, h, items, builds)
  BY <1>2, <1>3 DEF CallTold, Place, BdTyped
<1>5. PICK s, N, b : s = r.links /\ N = Len(s) /\ b = (\A i \in DOMAIN s : s[i] = 0)
  OBVIOUS
<1>6. s \in Seq(Nat) /\ N \in Nat /\ DOMAIN s = 1..N /\ \A i \in DOMAIN s : s[i] \in {0, r.number}
  BY <1>4, <1>5, LenProperties DEF BdTyped, LinksAre
<1>7. \/ N = r.listed /\ bdCall' = [bdCall EXCEPT ![c] = [Ends(c, "ok") EXCEPT !.warned = @ \/ b]]
      \/ bdCall' = [bdCall EXCEPT ![c] = [r EXCEPT !.links = Append(@, r.number)]]
      \/ bdCall' = [bdCall EXCEPT ![c] = [r EXCEPT !.links = Append(@, 0), !.warned = TRUE]]
  BY <1>1, <1>5 DEF Links, BdMoves, ReadFrom
<1>8. ASSUME N = r.listed, bdCall' = [bdCall EXCEPT ![c] = [Ends(c, "ok") EXCEPT !.warned = @ \/ b]] PROVE BdInv'
  <2>0. PICK i : i = r.item
    OBVIOUS
  <2>1. PICK u, w : u = OverOf(r, i, "ok") /\ w = (r.warned \/ b)
    OBVIOUS
  <2>2. u = BdRec("over", r.item, r.number, r.params, r.late, r.detached, "ok", "ok", r.posts, r.warned, r.listed, r.links)
    BY ONLY <1>4, <2>0, <2>1 DEF OverOf
  <2>3. Ends(c, "ok") = u
    BY <1>1, <1>4, <2>0, <2>1, EndsIs
  <2>4. PICK n : n = [u EXCEPT !.warned = w]
    OBVIOUS
  <2>5. bdCall' = [bdCall EXCEPT ![c] = n]
    <3>1. u.warned = r.warned
      BY ONLY <2>2 DEF BdRec
    <3> QED
      BY <1>8, <2>1, <2>3, <2>4, <3>1
  <2>6. n = BdRec("over", r.item, r.number, r.params, r.late, r.detached, "ok", "ok", r.posts, w, r.listed, r.links)
    BY ONLY <2>2, <2>4 DEF BdRec
  <2>7. n.warned = w /\ n.links = s /\ n.number = r.number /\ n.listed = r.listed /\ n.found = "ok"
    BY ONLY <1>5, <2>6 DEF BdRec
  <2>8. w \in BOOLEAN /\ (r.warned => w) /\ (~w => N > 0)
    <3>1. ~b => N > 0
      BY <1>5, <1>6
    <3> QED
      BY <1>4, <2>1, <3>1, <1>5 DEF BdTyped
  <2>9. LinksAre(k, n)
    BY ONLY <1>5, <1>6, <1>8, <2>7, <2>8 DEF LinksAre
  <2>10. n = [u EXCEPT !.warned = n.warned] /\ ~IsTrigger(k) /\ r.pc # "over"
    BY <1>3, <1>4, <2>4, <2>7 DEF IsTrigger
  <2>11. CallTold(k, n, items, builds, h)
    <3>1. i \in Nat /\ n = [OverOf(r, i, "ok") EXCEPT !.warned = n.warned] /\ (r.warned => n.warned) /\ n.warned \in BOOLEAN
      BY <1>4, <2>0, <2>1, <2>7, <2>8, <2>10
    <3> QED
      BY ONLY <1>4, <2>0, <2>9, <2>10, <3>1, IsDone
  <2> QED
    BY <1>1, <1>3, <2>5, <2>11, BdCallMoves
<1>9. ASSUME NEW x \in {0, r.number}, NEW w \in BOOLEAN, r.warned => w, NEW n, bdCall' = [bdCall EXCEPT ![c] = n],
             n = BdRec("links", r.item, r.number, r.params, r.late, r.detached, r.told, r.found, r.posts, w,
                       r.listed, Append(s, x))
      PROVE  BdInv'
  <2>1. PICK t : t = Append(s, x)
    OBVIOUS
  <2>2. x \in Nat
    BY <1>4 DEF BdTyped
  <2>3. t \in Seq(Nat) /\ \A i \in DOMAIN t : t[i] \in {0, r.number}
    <3>1. /\ t \in Seq(Nat) /\ Len(t) = N + 1 /\ \A j \in 1..N : t[j] = s[j]
          /\ t[N + 1] = x
      BY <1>5, <1>6, <2>1, <2>2, AppendProperties
    <3>2. DOMAIN t = 1..(N + 1)
      BY <3>1, LenProperties
    <3>3. ASSUME NEW i \in DOMAIN t PROVE t[i] \in {0, r.number}
      <4>1. i \in 1..N \/ i = N + 1
        BY ONLY <1>6, <3>2, <3>3
      <4> QED
        BY <1>6, <3>1, <4>1
    <3> QED
      BY <3>1, <3>3
  <2>4. /\ n.pc = "links" /\ n.item = 0 /\ n.number = r.number /\ n.params = r.params /\ n.late = r.late
        /\ ~n.detached /\ n.detached = r.detached /\ n.told = r.told /\ n.found = "none"
        /\ n.posts = r.posts /\ n.warned = w /\ n.listed = r.listed /\ n.links = t /\ IsBd(n)
    BY ONLY <1>4, <1>9, <2>1 DEF BdRec, IsBd
  <2>5. BdTyped(n)
    BY ONLY <1>4, <1>9, <2>3, <2>4 DEF BdTyped, BdPcs
  <2>6. StartedOf(n) = StartedOf(r) /\ Follows(n, items) /\ LinksAre(k, n)
    BY ONLY <1>4, <2>3, <2>4 DEF StartedOf, Follows, LinksAre
  <2>7. Place(k, n, builds, h)
    BY ONLY <1>4, <2>4 DEF Place, Early, IsTrigger
  <2>8. n.pc # "over" /\ n.pc = "links"
    BY <2>4
  <2>9. CallTold(k, n, items, builds, h)
    BY ONLY <1>4, <1>9, <2>4, <2>5, <2>6, <2>7, <2>8, GoesOnQuietly
  <2> QED
    BY <1>1, <1>3, <1>9, <2>9, BdCallMoves
<1>10. ASSUME bdCall' = [bdCall EXCEPT ![c] = [r EXCEPT !.links = Append(@, r.number)]] PROVE BdInv'
  <2>1. PICK t, n : t = Append(s, r.number) /\ n = [r EXCEPT !.links = t]
    OBVIOUS
  <2>2. n = BdRec(r.pc, r.item, r.number, r.params, r.late, r.detached, r.told, r.found, r.posts, r.warned, r.listed, t)
    BY ONLY <1>4, <2>1 DEF IsBd, BdRec
  <2>3. bdCall' = [bdCall EXCEPT ![c] = n]
    BY <1>5, <1>10, <2>1
  <2> QED
    BY <1>3, <1>4, <1>9, <2>1, <2>2, <2>3 DEF BdTyped
<1>11. ASSUME bdCall' = [bdCall EXCEPT ![c] = [r EXCEPT !.links = Append(@, 0), !.warned = TRUE]] PROVE BdInv'
  <2>1. PICK t, n : t = Append(s, 0) /\ n = [r EXCEPT !.links = t, !.warned = TRUE]
    OBVIOUS
  <2>2. n = BdRec(r.pc, r.item, r.number, r.params, r.late, r.detached, r.told, r.found, r.posts, TRUE, r.listed, t)
    BY ONLY <1>4, <2>1 DEF IsBd, BdRec
  <2>3. bdCall' = [bdCall EXCEPT ![c] = n]
    BY <1>5, <1>11, <2>1
  <2> QED
    BY <1>3, <1>4, <1>9, <2>1, <2>2, <2>3 DEF BdTyped
<1> QED
  BY <1>7, <1>8, <1>10, <1>11

\* Jenkins goes on.
LEMMA JenkinsStep == ASSUME BdInv, Jenkins PROVE BdInv'
<1>0. PICK l : l = bdSetting.links
  OBVIOUS
<1>1. ItemsOK(items) /\ BuildsOK(builds, l) /\ l \in Nat
  BY <1>0, BdOrderIs, BdAssumption DEF BdInv, BdSettingsOK
<1>2. ItemsKept(items, items) /\ BuildsKept(builds, builds)
  BY DEF ItemsKept, ItemKept, BuildsKept, BuildKept
<1>3. ASSUME NEW i \in DOMAIN items, Leave(i) PROVE BdInv'
  <2>1. PICK N : N = Len(builds) + 1
    OBVIOUS
  <2>2. N \in Nat /\ N # 0
    BY <1>1, <2>1, ListGrows DEF BuildsOK
  <2>3. PICK x, y, z : x = items[i] /\ y = [x EXCEPT !.state = "left", !.build = N] /\ z = NewBuild(x.params)
    OBVIOUS
  <2>4. x.state = "waiting" /\ ItemOK(x)
    BY <1>1, <1>3, <2>3 DEF Leave, ItemsOK
  <2>5. y = ItemRec("left", N, x.params)
    BY ONLY <2>3, <2>4 DEF ItemOK, IsItem, ItemRec
  <2>6. ItemOK(y) /\ ItemKept(x, y)
    BY ONLY <2>2, <2>4, <2>5 DEF ItemOK, IsItem, ItemRec, GoneFrom, ItemKept
  <2>7. items' = [items EXCEPT ![i] = y] /\ builds' = Append(builds, z)
    BY <1>3, <2>1, <2>3 DEF Leave
  <2>8. ItemsOK(items') /\ ItemsKept(items, items')
    BY <1>1, <2>3, <2>6, <2>7, ItemChanges
  <2>9. BuildOK(z, l)
    BY <1>1, <2>3 DEF NewBuild, BuildOK, IsBuild, BuildRec
  <2>10. BuildsOK(builds', l) /\ BuildsKept(builds, builds')
    BY <1>1, <2>7, <2>9, BuildMore
  <2> QED
    BY <1>0, <2>8, <2>10, JenkinsMoves DEF Jenkins
<1>4. ASSUME NEW i \in DOMAIN items, ForgetItem(i) PROVE BdInv'
  <2>3. PICK x, y : x = items[i] /\ y = [x EXCEPT !.state = "forgotten"]
    OBVIOUS
  <2>4. x.state = "left" /\ ItemOK(x)
    BY <1>1, <1>4, <2>3 DEF ForgetItem, ItemsOK
  <2>5. y = ItemRec("forgotten", x.build, x.params)
    BY ONLY <2>3, <2>4 DEF ItemOK, IsItem, ItemRec
  <2>6. ItemOK(y) /\ ItemKept(x, y)
    BY ONLY <2>4, <2>5 DEF ItemOK, IsItem, ItemRec, GoneFrom, ItemKept
  <2>7. items' = [items EXCEPT ![i] = y] /\ builds' = builds
    BY <1>4, <2>3 DEF ForgetItem
  <2>8. ItemsOK(items') /\ ItemsKept(items, items')
    BY <1>1, <2>3, <2>6, <2>7, ItemChanges
  <2> QED
    BY <1>0, <1>1, <1>2, <2>7, <2>8, JenkinsMoves DEF Jenkins
<1>5. ASSUME NEW n \in DOMAIN builds, Progress(n) PROVE BdInv'
  <2>1. PICK x : x = builds[n]
    OBVIOUS
  <2>2. ~x.done /\ BuildOK(x, l) /\ items' = items
    BY <1>1, <1>5, <2>1 DEF Progress, BuildsOK
  <2>3. ASSUME NEW y, builds' = [builds EXCEPT ![n] = y], BuildOK(y, l), y.params = x.params PROVE BdInv'
    <3>1. BuildKept(builds[n], y)
      BY <2>1, <2>2, <2>3 DEF BuildKept
    <3>2. BuildsOK(builds', l) /\ BuildsKept(builds, builds')
      BY <1>1, <2>3, <3>1, BuildChanges
    <3> QED
      BY <1>0, <1>1, <1>2, <2>2, <3>2, JenkinsMoves DEF Jenkins
  <2>4. CASE x.links < l /\ builds' = [builds EXCEPT ![n].links = @ + 1]
    <3>1. PICK m, y : m = x.links + 1 /\ y = [x EXCEPT !.links = m]
      OBVIOUS
    <3>2. y = BuildRec(x.done, x.result, m, x.params)
      BY ONLY <2>2, <3>1 DEF BuildOK, IsBuild, BuildRec
    <3>a. PICK q : q = x.links
      OBVIOUS
    <3>3. m \in 0..l
      <4>1. q \in 0..l /\ q < l /\ m = q + 1
        BY <2>2, <2>4, <3>1, <3>a DEF BuildOK
      <4> QED
        BY ONLY <1>1, <4>1
    <3>4. BuildOK(y, l) /\ y.params = x.params
      BY ONLY <2>2, <3>2, <3>3 DEF BuildOK, IsBuild, BuildRec
    <3>5. builds' = [builds EXCEPT ![n] = y]
      BY <2>1, <2>4, <3>1
    <3> QED
      BY <2>3, <3>4, <3>5
  <2>5. ASSUME NEW e \in {"SUCCESS", "FAILURE"}, builds' = [builds EXCEPT ![n].result = e] PROVE BdInv'
    <3>1. PICK y : y = [x EXCEPT !.result = e]
      OBVIOUS
    <3>2. y = BuildRec(x.done, e, x.links, x.params)
      BY ONLY <2>2, <3>1 DEF BuildOK, IsBuild, BuildRec
    <3>4. BuildOK(y, l) /\ y.params = x.params
      BY ONLY <2>2, <2>5, <3>2 DEF BuildOK, IsBuild, BuildRec
    <3>5. builds' = [builds EXCEPT ![n] = y]
      BY <2>1, <2>5, <3>1
    <3> QED
      BY <2>3, <3>4, <3>5
  <2>6. ASSUME x.result # "none", NEW e \in {x.result, "FAILURE"},
               builds' = [builds EXCEPT ![n].result = e, ![n].done = TRUE]
        PROVE  BdInv'
    <3>1. PICK y : y = [x EXCEPT !.result = e, !.done = TRUE]
      OBVIOUS
    <3>2. y = BuildRec(TRUE, e, x.links, x.params)
      BY ONLY <2>2, <3>1 DEF BuildOK, IsBuild, BuildRec
    <3>4. BuildOK(y, l) /\ y.params = x.params
      BY ONLY <2>2, <2>6, <3>2 DEF BuildOK, IsBuild, BuildRec
    <3>5. builds' = [builds EXCEPT ![n] = y]
      BY <2>1, <2>6, <3>1
    <3> QED
      BY <2>3, <3>4, <3>5
  <2> QED
    BY <1>0, <1>5, <2>1, <2>4, <2>5, <2>6 DEF Progress
<1> QED
  BY <1>3, <1>4, <1>5 DEF Jenkins

\* Other people trigger, cancel and stop.
LEMMA OthersStep == ASSUME BdInv, OtherPeople PROVE BdInv'
<1>0. PICK l : l = bdSetting.links
  OBVIOUS
<1>1. ItemsOK(items) /\ BuildsOK(builds, l) /\ l \in Nat
  BY <1>0, BdAssumption DEF BdInv, BdSettingsOK
<1>2. CASE builds' = Append(builds, NewBuild([flag |-> "no", other |-> "default"])) /\ UNCHANGED items
  <2>1. PICK p, z : p = [flag |-> "no", other |-> "default"] /\ z = NewBuild(p)
    OBVIOUS
  <2>2. BuildOK(z, l)
    BY <1>1, <2>1 DEF NewBuild, BuildOK, IsBuild, BuildRec
  <2>3. builds' = Append(builds, z) /\ items' = items
    BY <1>2, <2>1
  <2>4. BuildsOK(builds', l) /\ BuildsKept(builds, builds')
    BY <1>1, <2>2, <2>3, BuildMore
  <2>5. ItemsOK(items') /\ ItemsKept(items, items')
    BY <1>1, <2>3 DEF ItemsKept, ItemKept
  <2> QED
    BY <1>0, <2>4, <2>5, JenkinsMoves DEF OtherPeople
<1>3. CASE (\E i \in DOMAIN items : Cancel(i)) \/ (\E n \in DOMAIN builds : Abort(n))
  BY <1>3, CancelKeeps, AbortKeeps, JenkinsMoves DEF OtherPeople
<1> QED
  BY <1>2, <1>3 DEF OtherPeople

\* No call has begun.
LEMMA BdInitInv == BdInit => BdInv
<1> SUFFICES ASSUME BdInit PROVE BdInv
  OBVIOUS
<1>0. PICK l : l = bdSetting.links
  OBVIOUS
<1>1. bdSetting \in BdSettings /\ l \in Nat
  BY <1>0, BdAssumption DEF BdInit, BdSettingsOK
<1>2. ItemsOK(items)
  <2>1. items = <<>>
    BY DEF BdInit
  <2>2. <<>> \in Seq({})
    OBVIOUS
  <2>3. \A i \in DOMAIN items : FALSE
    BY ONLY <2>1
  <2> QED
    BY <2>1, <2>2, <2>3 DEF ItemsOK, IsList
<1>3. BuildsOK(builds, l)
  <2>1. PICK p, y : /\ p = [flag |-> "no", other |-> "kept"]
                   /\ y = [done |-> TRUE, result |-> "SUCCESS", links |-> l, params |-> p]
    OBVIOUS
  <2>2. builds = <<y>>
    BY <1>0, <2>1 DEF BdInit
  <2>3. BuildOK(y, l)
    BY ONLY <1>1, <2>1 DEF BuildOK, IsBuild, BuildRec
  <2>4. <<y>> \in Seq({y}) /\ DOMAIN <<y>> = {1} /\ <<y>>[1] = y
    BY SMT
  <2> QED
    BY <2>2, <2>3, <2>4 DEF BuildsOK, IsList
<1>4. ASSUME NEW c \in DOMAIN bdSetting.orders PROVE CallTold(Ordered(c), bdCall[c], items, builds, bdHits[c])
  <2>1. PICK k, r, h : k = Ordered(c) /\ r = bdCall[c] /\ h = bdHits[c]
    OBVIOUS
  <2>2. PICK p : p = [flag |-> "no", other |-> "default"]
    OBVIOUS
  <2>3. /\ r = BdRec("idle", 0, 0, p, FALSE, FALSE, "none", "none", <<>>, FALSE, 0, <<>>)
        /\ h = <<>> /\ p.other = "default"
    BY <2>1, <2>2 DEF BdInit, BdRec
  <2>4. /\ r.pc = "idle" /\ r.item = 0 /\ r.number = 0 /\ r.params = p /\ r.late = FALSE /\ r.detached = FALSE
        /\ r.told = "none" /\ r.found = "none" /\ r.posts = <<>> /\ r.warned = FALSE /\ r.listed = 0
        /\ r.links = <<>> /\ IsBd(r)
    BY ONLY <2>3 DEF BdRec, IsBd
  <2>a. <<>> \in Seq(Nat) /\ \A i \in DOMAIN <<>> : FALSE
    OBVIOUS
  <2>b. r.links \in Seq(Nat) /\ \A i \in DOMAIN r.links : FALSE
    BY ONLY <2>4, <2>a
  <2>5. BdTyped(r)
    <3>1. r.pc \in BdPcs /\ r.item \in Nat /\ r.number \in Nat /\ r.listed \in Nat
      BY ONLY <2>4 DEF BdPcs
    <3>2. (r.pc = "over") = FALSE /\ (r.found # "none") = FALSE
      BY ONLY <2>4
    <3> QED
      BY ONLY <2>4, <2>b, <3>1, <3>2 DEF BdTyped
  <2>6. Place(k, r, builds, h)
    BY ONLY <2>3, <2>4 DEF Place, Early, OtherOf
  <2>7. Follows(r, items) /\ WatchIs(k, r, items, builds) /\ LinksAre(k, r) /\ HitsAre(k, h, items, builds)
    BY ONLY <2>3, <2>4, <2>b DEF Follows, WatchIs, IsWatched, LinksAre, HitsAre
  <2>8. SlackIs(k, r)
    <3>1. StartedOf(r) = <<>> /\ OutcomeOf(k, r) = <<>>
      BY <2>4, Texts DEF StartedOf, OutcomeOf
    <3>2. <<>> = <<>> \o <<>>
      BY OneMore
    <3> QED
      BY ONLY <2>4, <3>1, <3>2 DEF SlackIs
  <2>9. CallTold(k, r, items, builds, h)
    BY ONLY <2>4, <2>5, <2>6, <2>7, <2>8 DEF CallTold
  <2> QED
    BY <2>1, <2>9
<1> QED
  BY <1>0, <1>1, <1>2, <1>3, <1>4 DEF BdInit, BdInv

\* The inductive invariant of Builds.
THEOREM BdInvariance == BdSpec => []BdInv
<1>1. ASSUME BdInv, [BdNext]_bdVars PROVE BdInv'
  <2>1. CASE Jenkins
    BY <1>1, <2>1, JenkinsStep
  <2>2. CASE OtherPeople
    BY <1>1, <2>2, OthersStep
  <2>3. ASSUME NEW c \in DOMAIN bdCall, BdCaller(c) PROVE BdInv'
    <3>1. c \in DOMAIN bdSetting.orders
      BY <1>1, <2>3 DEF BdInv
    <3> QED
      BY <1>1, <2>3, <3>1, BeginStep, InheritStep, PostStep, DetachStep, AwaitItemStep, AwaitBuildStep,
         DeadlineStep, StopStep, MetaStep, LinksStep DEF BdCaller
  <2>4. CASE UNCHANGED bdVars
    BY <1>1, <2>4 DEF BdInv, bdVars, Ordered
  <2> QED
    BY <1>1, <2>1, <2>2, <2>3, <2>4 DEF BdNext
<1> QED
  BY <1>1, BdInitInv, PTL DEF BdSpec

\* What `qactl jenkins` does and says of builds is so (jenkins/tools.py,
\* jenkins/client.py), whatever Jenkins, Slack and other people do meanwhile,
\* for any calls, faults and orders.
THEOREM BuildsSound == BdSpec => []BuildsAreTold
<1>1. ASSUME BdInv, NEW c \in DOMAIN bdCall PROVE WatchIsTrue(c) /\ SlackIsTold(c) /\ ActsAsAsked(c) /\ LinksAreOne(c)
  <2>1. PICK k, r, h : k = Ordered(c) /\ r = bdCall[c] /\ h = bdHits[c]
    OBVIOUS
  <2>2. CallTold(k, r, items, builds, h)
    BY <1>1, <2>1 DEF BdInv
  <2>3. Watched(c) = IsWatched(k, r)
    BY <2>1 DEF Watched, IsWatched
  <2>4. WatchIsTrue(c)
    BY <2>1, <2>2, <2>3 DEF CallTold, WatchIs, IsWatched, Follows, WatchIsTrue
  <2>5. SlackIsTold(c)
    <3>1. Started(c) = StartedOf(r) /\ Outcome(c) = OutcomeOf(k, r)
      BY <2>1, <2>3 DEF Started, StartedOf, Outcome, OutcomeOf
    <3> QED
      BY <2>1, <2>2, <3>1 DEF CallTold, SlackIs, SlackIsTold
  <2>6. ActsAsAsked(c)
    <3>1. IsTrigger(k) /\ r.told = "ok" => h # <<>>
      BY <2>2 DEF CallTold, Place
    <3>2. CASE h = <<>>
      <4>1. \A i \in DOMAIN h : FALSE
        BY ONLY <3>2
      <4> QED
        BY <2>1, <3>1, <3>2, <4>1 DEF ActsAsAsked, IsTrigger
    <3>3. CASE h # <<>>
      <4>1. IsSure(k) /\ \E e : h = <<e>> /\ HitIs(k, e, items, builds)
        BY <2>2, <3>3 DEF CallTold, HitsAre
      <4>2. PICK e : h = <<e>> /\ HitIs(k, e, items, builds)
        BY <4>1
      <4>3. Len(h) = 1 /\ DOMAIN h = {1} /\ h[1] = e
        BY ONLY <4>2
      <4>4. \A i \in DOMAIN h : h[i] = e
        BY ONLY <4>3
      <4>5. IF k.tool = "stop" THEN e = [kind |-> k.by, n |-> k.of]
            ELSE /\ items[e.n].params.flag = k.flag
                 /\ IF k.extra THEN items[e.n].params.other = "extra"
                    ELSE \/ items[e.n].params.other = "default"
                         \/ k.inherit /\ \E n \in DOMAIN builds : items[e.n].params.other = builds[n].params.other
        BY ONLY <4>2 DEF HitIs, OtherOf
      <4> QED
        BY ONLY <2>1, <3>1, <3>3, <4>1, <4>3, <4>4, <4>5 DEF ActsAsAsked, IsSure, IsTrigger
    <3> QED
      BY <3>2, <3>3
  <2>7. LinksAreOne(c)
    BY <2>1, <2>2 DEF CallTold, LinksAre, LinksAreOne
  <2> QED
    BY <2>4, <2>5, <2>6, <2>7
<1>2. BdInv => BuildsAreTold
  BY <1>1 DEF BuildsAreTold
<1> QED
  BY <1>2, BdInvariance, PTL
=============================================================================

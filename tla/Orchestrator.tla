----------------------------- MODULE Orchestrator -----------------------------
(***************************************************************************)
(* qactl orc (qactl/orc/tools.py): one Jenkins build, then a load and a     *)
(* pre-check on each device in turn, with a record per device on disk that  *)
(* `orc show` of any process reads.                                        *)
(*                                                                         *)
(* The run is driven by the caller itself or by a forked worker.  The      *)
(* worker waits until its parent has written the first record of every     *)
(* device and closed the pipe, or has died.                                *)
(***************************************************************************)
EXTENDS Naturals, Sequences

CONSTANTS
  OrcDevices,  \* the devices of the run, in order
  OrcSettings, \* the runs: [detach, build]
  OrcKills     \* bound: processes that are killed

ASSUME OrchestratorAssumption ==
  /\ Len(OrcDevices) \in Nat \ {0} /\ DOMAIN OrcDevices = 1..Len(OrcDevices)
  /\ OrcSettings \subseteq [detach : BOOLEAN, build : BOOLEAN] /\ OrcKills \in Nat

VARIABLES
  order,     \* the run: [detach, build]
  launcher,  \* the caller: "new", its place in the first records, "gone", "killed"
  worker,    \* the driver: [pc, i, pid], see OrcTypeOK
  dicts,     \* the driver's jobs: [status, phase]
  records    \* the file of each job: [status, phase, pid], or "none"

orcVars == <<order, launcher, worker, dicts, records>>

Devs == DOMAIN OrcDevices
NoRecord == [status |-> "none", phase |-> "none", pid |-> FALSE]
Planned == IF order.build THEN "build" ELSE "load"

OrcInit ==
  /\ order \in OrcSettings
  /\ launcher = 0
  /\ worker = [pc |-> "unborn", i |-> 1, pid |-> FALSE, kills |-> 0]
  /\ dicts = [d \in Devs |-> [status |-> "running", phase |-> Planned]]
  /\ records = [d \in Devs |-> NoRecord]

WorkerAlive == worker.pc \notin {"unborn", "ended", "raised", "killed"}

\* _persist: the driver's job, with the pid it knows, becomes the record.
Persist(d, job) ==
  /\ dicts' = [dicts EXCEPT ![d] = job]
  /\ records' = [records EXCEPT ![d] = [status |-> job.status, phase |-> job.phase, pid |-> worker.pid]]

Job(status, phase) == [status |-> status, phase |-> phase]
Go(pc, i) == worker' = [worker EXCEPT !.pc = pc, !.i = i]

-----------------------------------------------------------------------------
(* _launch, _spawn_detached.                                               *)

\* Without detach the caller drives; nothing tells the records its pid.
OrcLaunch ==
  /\ launcher = 0 /\ worker.pc = "unborn"
  /\ IF order.detach
     THEN launcher' = 1 /\ Go("wait", 1)
     ELSE launcher' = Len(OrcDevices) + 1 /\ Go("mark", 1)
  /\ UNCHANGED <<order, dicts, records>>

\* The parent writes the first record of a device, with the worker's pid.
FirstRecord ==
  /\ launcher \in Devs /\ order.detach
  /\ records' = [records EXCEPT ![launcher] = [status |-> "running", phase |-> Planned, pid |-> TRUE]]
  /\ launcher' = launcher + 1
  /\ UNCHANGED <<order, worker, dicts>>

\* Fault: the worker does not wait for its parent.
Released_Early == worker.pc = "wait"

\* The pipe is closed: the parent has gone on, or is dead.
Released == worker.pc = "wait" /\ launcher \notin Devs

\* The worker's own pid goes into its jobs.
Begin ==
  /\ Released
  /\ worker' = [worker EXCEPT !.pc = "mark", !.pid = TRUE]
  /\ UNCHANGED <<order, launcher, dicts, records>>

-----------------------------------------------------------------------------
(* _drive.                                                                 *)

\* One record after another is put into the build phase.
Mark ==
  /\ worker.pc = "mark"
  /\ IF ~order.build THEN Go("device", 1) /\ UNCHANGED <<dicts, records>>
     ELSE /\ Persist(worker.i, Job("running", "build"))
          /\ IF worker.i = Len(OrcDevices) THEN Go("build", 1) ELSE Go("mark", worker.i + 1)
  /\ UNCHANGED <<order, launcher>>

\* jenkins_trigger and its wait: a build to load, or none, or an exception.
Build ==
  /\ worker.pc = "build"
  /\ \E pc \in {"built", "unbuilt", "raised"} : Go(pc, 1)
  /\ UNCHANGED <<order, launcher, dicts, records>>

Built ==
  /\ worker.pc \in {"built", "unbuilt"}
  /\ Persist(worker.i, Job(IF worker.pc = "built" THEN "running" ELSE "error", "build"))
  /\ IF worker.i < Len(OrcDevices) THEN Go(worker.pc, worker.i + 1)
     ELSE Go(IF worker.pc = "built" THEN "device" ELSE "ended", 1)
  /\ UNCHANGED <<order, launcher>>

\* The device is through, one way or the other, and the next one follows.
NextDevice(status) ==
  /\ Persist(worker.i, Job(status, IF status = "ok" THEN "done" ELSE worker.pc))
  /\ IF worker.i = Len(OrcDevices) THEN Go("ended", worker.i) ELSE Go("device", worker.i + 1)

\* _drive_device: each phase is on disk before it starts.  Whatever a phase
\* raises, an interrupt from the keyboard too, fails this device only.
Device ==
  /\ \/ worker.pc = "device" /\ Persist(worker.i, Job("running", "load")) /\ Go("load", worker.i)
     \/ /\ worker.pc = "load"
        /\ Persist(worker.i, Job("running", "load")) /\ Go("loaded", worker.i)
     \/ worker.pc = "loaded" /\ Persist(worker.i, Job("running", "pre_check")) /\ Go("pre_check", worker.i)
     \/ worker.pc = "pre_check" /\ NextDevice("ok")
     \/ worker.pc \in {"load", "pre_check"} /\ NextDevice("error")
  /\ UNCHANGED <<order, launcher>>

\* A process is killed.  A killed parent closes the pipe.
KillOrc ==
  /\ worker.kills < OrcKills
  /\ \/ order.detach /\ launcher \in Devs /\ launcher' = Len(OrcDevices) + 1
        /\ worker' = [worker EXCEPT !.kills = @ + 1]
     \/ WorkerAlive /\ worker' = [worker EXCEPT !.pc = "killed", !.kills = @ + 1] /\ UNCHANGED launcher
  /\ UNCHANGED <<order, dicts, records>>

Drive == Begin \/ Mark \/ Build \/ Built \/ Device

OrcNext == OrcLaunch \/ FirstRecord \/ Drive \/ KillOrc

OrcSpec == OrcInit /\ [][OrcNext]_orcVars

OrcFairness == WF_orcVars(FirstRecord) /\ WF_orcVars(Drive)

-----------------------------------------------------------------------------
\* orc_show: a running record whose pid is known and dead is an error.
OrcShow(d) ==
  IF records[d].status = "running" /\ records[d].pid /\ ~WorkerAlive THEN "error"
  ELSE records[d].status

OrcTypeOK ==
  /\ launcher \in 0..Len(OrcDevices) + 1 /\ worker.i \in Devs /\ worker.kills \in 0..OrcKills
  /\ worker.pc \in {"unborn", "wait", "mark", "build", "built", "unbuilt", "device", "load",
                    "loaded", "pre_check", "ended", "raised", "killed"}
  /\ \A d \in Devs :
       /\ dicts[d].status \in {"running", "ok", "error"}
       /\ records[d].status \in {"none", "running", "ok", "error"}

\* Whatever process asks, and whenever it asks, `orc show` does not call a
\* live run dead or a dead one running, and once the driver has ended it
\* tells of every device what the driver found.  The one exception is a run
\* its caller drives: no pid is recorded, so that its death stays unknown.
ShowIsTrue ==
  \A d \in Devs :
    /\ OrcShow(d) = "ok" => dicts[d].status = "ok"
    /\ OrcShow(d) = "error" => dicts[d].status = "error" \/ ~WorkerAlive
    /\ OrcShow(d) = "running" /\ order.detach => WorkerAlive
    /\ worker.pc = "ended" => OrcShow(d) = dicts[d].status

OrcQuiet == ~WorkerAlive
=============================================================================

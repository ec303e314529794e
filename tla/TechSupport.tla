------------------------------ MODULE TechSupport ------------------------------
(***************************************************************************)
(* Tech-support jobs on one device (qactl/dnos/cli/tools/techsupport.py):   *)
(* the kick-off, the worker that polls the device until its bundle is       *)
(* there, the upload to the archive, and upload_techsupport of a bundle     *)
(* that lies on the device.                                                 *)
(*                                                                         *)
(* A process knows its own jobs only.  The server runs the worker in a      *)
(* thread; the command line waits for it.  The device keeps one bundle: a   *)
(* new one deletes it, and a second one is refused while one is generated.  *)
(***************************************************************************)
EXTENDS Naturals, Sequences

CONSTANTS
  TsJobs,          \* the calls of create_techsupport
  TsNames,         \* the names a call may give its bundle
  TsWithin,        \* the pairs <<n, m>> of names with _n_ in ts_m_HH_MM_SS_DD-MM-YYYY.tar
  TsProcessOf,     \* the process that makes each call; a process makes one at a time
  TsNone,
  MaxPolls,        \* bound: the polls before the deadline
  MaxProbeFailures,\* _TS_PROBE_MAX_CONSECUTIVE_FAILURES
  MaxTaken,        \* bound: bundles generated by others
  TsKills          \* bound: processes that are killed

ASSUME TechSupportAssumption ==
  /\ TsNone \notin TsJobs
  /\ TsWithin \subseteq TsNames \X TsNames /\ \A n \in TsNames : <<n, n>> \in TsWithin
  /\ {MaxPolls, MaxProbeFailures} \subseteq Nat \ {0} /\ {MaxTaken, TsKills} \subseteq Nat

VARIABLES
  ts,        \* of each job: where it is, see TsTypeOK
  tsSlot,      \* _TS_REGISTRY of each process: its active job
  box,       \* the device: what it generates, the bundle it keeps
  bundles,   \* every generation so far: its name
  tsArchive,   \* of each job, the generation that lies under its file name
  tsKills

tsVars == <<ts, tsSlot, box, bundles, tsArchive, tsKills>>

TsProcs == {TsProcessOf[j] : j \in TsJobs}
TsActive == {"generating", "uploading"}
TsTerminal == {"done", "error", "timeout"}

TsInit ==
  /\ ts = [j \in TsJobs |-> [pc |-> "new", name |-> TsNone, first |-> 0, polls |-> 0,
                             failures |-> 0, source |-> 0]]
  /\ tsSlot = [p \in TsProcs |-> TsNone]
  /\ box = [busy |-> 0, kept |-> 0, broken |-> FALSE]
  /\ bundles = <<>> /\ tsArchive = [j \in TsJobs |-> 0] /\ tsKills = 0

-----------------------------------------------------------------------------
(* The device.                                                             *)

\* A request that is taken deletes the bundle and starts generation number
\* Len(bundles) + 1.
Take(name) ==
  /\ box.busy = 0
  /\ bundles' = Append(bundles, name)
  /\ box' = [busy |-> Len(bundles) + 1, kept |-> 0, broken |-> FALSE]

Generate ==
  /\ box.busy # 0
  /\ \/ box' = [box EXCEPT !.busy = 0, !.kept = box.busy]
     \/ box' = [box EXCEPT !.busy = 0, !.broken = TRUE]
  /\ UNCHANGED <<ts, tsSlot, bundles, tsArchive, tsKills>>

\* Somebody else takes a tech-support.
Other(name) ==
  /\ Len(bundles) < MaxTaken /\ Take(name)
  /\ UNCHANGED <<ts, tsSlot, tsArchive, tsKills>>

-----------------------------------------------------------------------------
(* create_techsupport.                                                     *)

TsFinish(j, state) ==
  /\ ts' = [ts EXCEPT ![j].pc = state]
  /\ tsSlot' = [p \in TsProcs |-> IF tsSlot[p] = j THEN TsNone ELSE tsSlot[p]]

\* The slot of the process must be free; no other process is asked.
CheckSlot(j, name) ==
  /\ ts[j].pc = "new" /\ \A k \in TsJobs : TsProcessOf[k] = TsProcessOf[j] => ts[k].pc # "kick"
  /\ LET free == tsSlot[TsProcessOf[j]] = TsNone IN
     ts' = [ts EXCEPT ![j].pc = IF free THEN "kick" ELSE "refused", ![j].name = name]
  /\ UNCHANGED <<tsSlot, box, bundles, tsArchive, tsKills>>

\* The job is registered and its worker started.
Registers(j, first) ==
  /\ ts' = [ts EXCEPT ![j].pc = "generating", ![j].first = first]
  /\ tsSlot' = [tsSlot EXCEPT ![TsProcessOf[j]] = j]

NotRegistered(j) == ts' = [ts EXCEPT ![j].pc = "refused"] /\ UNCHANGED tsSlot

\* The request goes to the device.  It is taken and acknowledged; taken, with
\* the acknowledgement lost to a timeout, or sent again after the transport
\* broke and then refused; or refused, or never arrives.
KickOff(j) ==
  /\ ts[j].pc = "kick"
  /\ \/ Take(ts[j].name) /\ (Registers(j, Len(bundles) + 1) \/ NotRegistered(j))
     \/ NotRegistered(j) /\ UNCHANGED <<box, bundles>>
  /\ UNCHANGED <<tsArchive, tsKills>>

\* Fault: any bundle that is ready is taken for the job's.
Marked_Any(j, g) == TRUE

\* name_marker, _<name>_, is somewhere in the name of the bundle's file: the
\* bundle may have a longer name that the job's name is a part of.
HoldsName(m, n) == <<n, m>> \in TsWithin
Marked(j, g) == HoldsName(bundles[g], ts[j].name)

\* A cycle whose retries all failed; a row of those ends the job.
ProbeFailed(j) ==
  LET failed == ts[j].failures + 1 IN
  IF failed >= MaxProbeFailures THEN TsFinish(j, "error")
  ELSE /\ ts' = [ts EXCEPT ![j].failures = failed, ![j].polls = @ + 1]
       /\ UNCHANGED tsSlot

\* The device has answered: no prompt in time, nothing ready, or not the
\* job's; an error; or the job's bundle.
PollAnswer(j) ==
  LET ready == box.kept # 0 /\ Marked(j, box.kept) IN
  \/ /\ ~ready /\ ~box.broken
     /\ ts' = [ts EXCEPT ![j].failures = 0, ![j].polls = @ + 1]
     /\ UNCHANGED tsSlot
  \/ box.broken /\ TsFinish(j, "error")
  \/ /\ ready
     /\ ts' = [ts EXCEPT ![j].pc = "uploading", ![j].source = box.kept]
     /\ UNCHANGED tsSlot

\* One poll: show system tech-support status, with its retries.
Poll(j) ==
  /\ ts[j].pc = "generating" /\ ts[j].polls < MaxPolls
  /\ ProbeFailed(j) \/ PollAnswer(j)
  /\ UNCHANGED <<box, bundles, tsArchive, tsKills>>

\* The deadline has passed.
GiveUpTs(j) ==
  /\ ts[j].pc = "generating" /\ ts[j].polls > 0 /\ TsFinish(j, "timeout")
  /\ UNCHANGED <<box, bundles, tsArchive, tsKills>>

\* request file upload, of the bundle named by the status that was read; the
\* device refuses one it has deleted since.  What arrives is looked at in the
\* archive: it may be missing or cut short, or its arrival take too long.
Upload(j) ==
  /\ ts[j].pc = "uploading"
  /\ \/ /\ box.kept = ts[j].source
        /\ tsArchive' = [tsArchive EXCEPT ![j] = ts[j].source]
        /\ \E state \in TsTerminal : TsFinish(j, state)
     \/ \E state \in {"error", "timeout"} : TsFinish(j, state) /\ UNCHANGED tsArchive
  /\ UNCHANGED <<box, bundles, tsKills>>

\* A process is killed: its jobs are gone, the device goes on.
TsKill(p) ==
  /\ tsKills < TsKills /\ tsKills' = tsKills + 1
  /\ ts' = [j \in TsJobs |-> IF TsProcessOf[j] = p /\ ts[j].pc \in TsActive \cup {"kick"}
                              THEN [ts[j] EXCEPT !.pc = "killed"] ELSE ts[j]]
  /\ tsSlot' = [tsSlot EXCEPT ![p] = TsNone]
  /\ UNCHANGED <<box, bundles, tsArchive>>

TsStep(j) == KickOff(j) \/ Poll(j) \/ GiveUpTs(j) \/ Upload(j)

TsNext ==
  \/ Generate
  \/ \E n \in TsNames : Other(n) \/ \E j \in TsJobs : CheckSlot(j, n)
  \/ \E j \in TsJobs : TsStep(j)
  \/ \E p \in TsProcs : TsKill(p)

TsSpec == TsInit /\ [][TsNext]_tsVars

TsFairness == \A j \in TsJobs : WF_tsVars(TsStep(j))

-----------------------------------------------------------------------------
\* The types of the variables.
TsTypeOK ==
  /\ \A j \in TsJobs :
       /\ ts[j].pc \in {"new", "kick", "refused", "killed"} \cup TsActive \cup TsTerminal
       /\ ts[j].polls \in 0..MaxPolls /\ ts[j].failures < MaxProbeFailures
  /\ \A p \in TsProcs : tsSlot[p] # TsNone => ts[tsSlot[p]].pc \in TsActive

\* What a job that is done has put into the archive was generated for it or
\* after it, and bears its name or one that holds its name: never a bundle from
\* before its kick-off, nor one of an unrelated name, whatever other processes
\* and people take on the device meanwhile.  It may be another's, of a longer
\* name: the underscores do not make "the match unambiguous"
\* (techsupport.py:807-810).
DoneIsFresh ==
  \A j \in TsJobs : ts[j].pc = "done" =>
    /\ tsArchive[j] >= ts[j].first
    /\ HoldsName(bundles[tsArchive[j]], ts[j].name)

\* Every job of the process comes to an end.
TsQuiet == \A j \in TsJobs : ts[j].pc \notin TsActive \cup {"kick"}
=============================================================================

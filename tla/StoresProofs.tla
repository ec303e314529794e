---------------------------- MODULE StoresProofs ----------------------------
(***************************************************************************)
(* Proofs about Templates, about the two stores together, about the gate of *)
(* RateGate, about the mounts of Restconf and about the memory of           *)
(* EventSpool, for any calls, settings and threads: a render that is        *)
(* answered ok is of its caller's variables and a deployment of a whole     *)
(* render; a template that was there is never silently replaced, and a good *)
(* archive stays; a gNMI call keeps the interval behind those before it; a  *)
(* request by device name reaches that device alone, and the file tells the *)
(* mounts that the controllers have; no alert of a device falls through.    *)
(*                                                                         *)
(* The inductive invariant of Templates (TpInv) ties the files to the       *)
(* calls: whose script a directory holds (ScriptOK), who writes a rendered  *)
(* file that is not whole (RenderedOK), that of two saves or renames at     *)
(* work one has seen the other (MetOK), and that a name which was free is   *)
(* taken only by a call that the one which looked has met (FreeOK).  That   *)
(* of Restconf (RcInv) ties mounts and entries to the chassis their names   *)
(* are of (NodeOK, EntryOK), what a call does to those (RcCallOK) and, with *)
(* no failure, the entries to mounts that stand (FileOK).  That of          *)
(* EventSpool (EvCore) ties each memory, in the file or in a tick's hand,   *)
(* to the log (RingOK) and to what was told or is noted (Owed); OnceInv     *)
(* counts, in one process, how often an alert can yet be told.              *)
(***************************************************************************)
EXTENDS Stores, Restconf, RateGate, EventSpool, ArchivesProofs, SequenceTheorems, FiniteSetTheorems,
        NaturalsInduction, WellFoundedInduction, TLAPS

TpJobs == DOMAIN tpSetting.jobs

\* A record of a call has these fields.
TpRec(pc, at, inode, body, vars, got, verdict, late) ==
  [pc |-> pc, at |-> at, inode |-> inode, body |-> body, vars |-> vars, got |-> got, verdict |-> verdict, late |-> late]
IsTp(r) == r = TpRec(r.pc, r.at, r.inode, r.body, r.vars, r.got, r.verdict, r.late)

\* Where the calls of each tool are.
RightPlace(tool, pc) ==
  /\ tool = "save" => pc \in {"idle", "open", "write", "replace", "stat", "over"}
  /\ tool = "rename" => pc \in {"idle", "move", "stat", "over"}
  /\ tool = "delete" => pc \in {"idle", "unlink", "over"}
  /\ tool = "get" => pc \in {"idle", "read", "over"}
  /\ tool = "deploy" => pc \in {"idle", "over"}
  /\ tool = "render" => pc \in {"idle", "script", "exec", "render", "read", "template", "audit",
                                         "write audit", "out", "write out", "over"}

\* The variables of a render are its own, or of another in its directory.
OwnVars(c, r) == r.vars = c \/ SameRun(c) \/ r.vars = "cut"

RenderOK(c, r) ==
  /\ r.pc \in {"script", "exec"} => Job(c).vars = "script"
  /\ Job(c).vars = "script" /\ r.pc # "idle" => r.at \in 1..tpNow
  /\ r.pc \in {"render", "read", "template", "audit", "write audit", "out", "write out"} \/ r.verdict = "ok" =>
       OwnVars(c, r) \/ r.vars = "none"
  /\ r.pc \in {"template", "audit", "write audit", "out", "write out"} \/ r.verdict = "ok" => Parses(r.body)
  /\ r.pc \in {"audit", "write audit", "out", "write out"} \/ r.verdict = "ok" =>
       r.vars # "none" /\ (Reads(r.body) => r.vars # "blank")

\* What a deployment has read is whole, or the overlap is on record.
Pushable(r) ==
  \/ r.got.size = "whole" \/ r.late # {} \/ TpFault("full")
  \/ r.got.size = "mixed" /\ \E d, e \in r.got.hands : d # e

TpCallOK(c, r) ==
  /\ IsTp(r) /\ RightPlace(Job(c).tool, r.pc) /\ r.late \subseteq TpJobs
  /\ r.verdict \in {"none", "ok", "error", "raised", "preflight", "warned"}
  /\ r.pc # "over" => r.verdict = "none"
  /\ r.pc = "idle" => r = NoTpCall
  /\ Job(c).tool = "render" => RenderOK(c, r)
  /\ Job(c).tool = "deploy" /\ r.verdict = "ok" => Pushable(r)

\* The script of a run directory is that of a render which has it for itself.
ScriptOK(c) ==
  /\ tpCall[c].pc \in {"script", "exec"} => RunDir(c) \in DOMAIN script
  /\ tpCall[c].pc = "exec" => script[RunDir(c)] = c \/ SameRun(c)

\* A file that is empty or partly written is being written, or a write has
\* failed; one that is a mixture was in the hands of two; and it is in those of
\* whoever writes it.
TextOK(x, f) ==
  /\ x.size \in {"blank", "part", "whole", "mixed"}
  /\ x.size \in {"blank", "part"} => TpFault("full") \/ \E d \in TpJobs : WritesTo(d, f)
  /\ x.size = "mixed" => \E d, e \in x.hands : d # e
  /\ \A d \in TpJobs : WritesTo(d, f) => d \in x.hands
RenderedOK == \A f \in DOMAIN rendered : TextOK(rendered[f], f)

\* Of two saves or renames that are at work, one has seen the other.
Asks(c) == Job(c).tool \in {"save", "rename"}
Busy(c) == Asks(c) /\ tpCall[c].pc \notin {"idle", "over"}
Seen(c, d) == d \in tpCall[c].late \/ c \in tpCall[d].late
MetOK == \A c, d \in TpJobs : c # d /\ Busy(c) /\ Busy(d) => Seen(c, d)

\* A name that was free is taken by a call that the one which looked has seen.
Wants(c, r) == (r.pc \in {"open", "write", "replace"} /\ ~Job(c).over) \/ r.pc = "move"
FreeOK(c) == Wants(c, tpCall[c]) /\ Exists(Takes(c)) => \E d \in TpJobs \ {c} : Seen(c, d)

TpWorldOK ==
  /\ tpSetting \in TpSettings /\ tpNow \in Nat \ {0} /\ DOMAIN tpCall = TpJobs /\ tpCall = [c \in TpJobs |-> tpCall[c]]
  /\ TpCallers \subseteq DOMAIN text /\ \A p \in DOMAIN tpDisk : tpDisk[p] \in DOMAIN text

TpInv ==
  /\ TpWorldOK /\ RenderedOK /\ MetOK
  /\ \A c \in TpJobs : TpCallOK(c, tpCall[c]) /\ ScriptOK(c) /\ FreeOK(c)

(***************************************************************************)
(* The record of a call of the template store                               *)
(***************************************************************************)
\* A call ends.
LEMMA TpPcVerdict ==
  ASSUME NEW o, IsTp(o), NEW pc, NEW v
  PROVE  [o EXCEPT !.pc = pc, !.verdict = v]
           = TpRec(pc, o.at, o.inode, o.body, o.vars, o.got, v, o.late)
<1>1. PICK q1 : q1 = [o EXCEPT !.pc = pc]
  OBVIOUS
<1>2. q1 = TpRec(pc, o.at, o.inode, o.body, o.vars, o.got, o.verdict, o.late)
  BY <1>1 DEF IsTp, TpRec
<1>3. PICK q2 : q2 = [q1 EXCEPT !.verdict = v]
  OBVIOUS
<1>4. q2 = TpRec(pc, o.at, o.inode, o.body, o.vars, o.got, v, o.late)
  BY <1>3, <1>2 DEF IsTp, TpRec
<1> QED
  BY <1>1, <1>2, <1>3, <1>4

\* A call has looked.
LEMMA TpPcLate ==
  ASSUME NEW o, IsTp(o), NEW pc, NEW ds
  PROVE  [o EXCEPT !.pc = pc, !.late = ds]
           = TpRec(pc, o.at, o.inode, o.body, o.vars, o.got, o.verdict, ds)
<1>1. PICK q1 : q1 = [o EXCEPT !.pc = pc]
  OBVIOUS
<1>2. q1 = TpRec(pc, o.at, o.inode, o.body, o.vars, o.got, o.verdict, o.late)
  BY <1>1 DEF IsTp, TpRec
<1>3. PICK q2 : q2 = [q1 EXCEPT !.late = ds]
  OBVIOUS
<1>4. q2 = TpRec(pc, o.at, o.inode, o.body, o.vars, o.got, o.verdict, ds)
  BY <1>3, <1>2 DEF IsTp, TpRec
<1> QED
  BY <1>1, <1>2, <1>3, <1>4

\* A call opens its .tmp.
LEMMA TpPcInode ==
  ASSUME NEW o, IsTp(o), NEW pc, NEW i
  PROVE  [o EXCEPT !.pc = pc, !.inode = i]
           = TpRec(pc, o.at, i, o.body, o.vars, o.got, o.verdict, o.late)
<1>1. PICK q1 : q1 = [o EXCEPT !.pc = pc]
  OBVIOUS
<1>2. q1 = TpRec(pc, o.at, o.inode, o.body, o.vars, o.got, o.verdict, o.late)
  BY <1>1 DEF IsTp, TpRec
<1>3. PICK q2 : q2 = [q1 EXCEPT !.inode = i]
  OBVIOUS
<1>4. q2 = TpRec(pc, o.at, i, o.body, o.vars, o.got, o.verdict, o.late)
  BY <1>3, <1>2 DEF IsTp, TpRec
<1> QED
  BY <1>1, <1>2, <1>3, <1>4

\* A call makes its directory.
LEMMA TpPcAt ==
  ASSUME NEW o, IsTp(o), NEW pc, NEW n
  PROVE  [o EXCEPT !.pc = pc, !.at = n]
           = TpRec(pc, n, o.inode, o.body, o.vars, o.got, o.verdict, o.late)
<1>1. PICK q1 : q1 = [o EXCEPT !.pc = pc]
  OBVIOUS
<1>2. q1 = TpRec(pc, o.at, o.inode, o.body, o.vars, o.got, o.verdict, o.late)
  BY <1>1 DEF IsTp, TpRec
<1>3. PICK q2 : q2 = [q1 EXCEPT !.at = n]
  OBVIOUS
<1>4. q2 = TpRec(pc, n, o.inode, o.body, o.vars, o.got, o.verdict, o.late)
  BY <1>3, <1>2 DEF IsTp, TpRec
<1> QED
  BY <1>1, <1>2, <1>3, <1>4

\* A call has its variables.
LEMMA TpPcVars ==
  ASSUME NEW o, IsTp(o), NEW pc, NEW w
  PROVE  [o EXCEPT !.pc = pc, !.vars = w]
           = TpRec(pc, o.at, o.inode, o.body, w, o.got, o.verdict, o.late)
<1>1. PICK q1 : q1 = [o EXCEPT !.pc = pc]
  OBVIOUS
<1>2. q1 = TpRec(pc, o.at, o.inode, o.body, o.vars, o.got, o.verdict, o.late)
  BY <1>1 DEF IsTp, TpRec
<1>3. PICK q2 : q2 = [q1 EXCEPT !.vars = w]
  OBVIOUS
<1>4. q2 = TpRec(pc, o.at, o.inode, o.body, w, o.got, o.verdict, o.late)
  BY <1>3, <1>2 DEF IsTp, TpRec
<1> QED
  BY <1>1, <1>2, <1>3, <1>4

\* A call has read its template.
LEMMA TpBodyPcVerdict ==
  ASSUME NEW o, IsTp(o), NEW b, NEW pc, NEW v
  PROVE  [o EXCEPT !.body = b, !.pc = pc, !.verdict = v]
           = TpRec(pc, o.at, o.inode, b, o.vars, o.got, v, o.late)
<1>1. PICK q1 : q1 = [o EXCEPT !.body = b]
  OBVIOUS
<1>2. q1 = TpRec(o.pc, o.at, o.inode, b, o.vars, o.got, o.verdict, o.late)
  BY <1>1 DEF IsTp, TpRec
<1>3. PICK q2 : q2 = [q1 EXCEPT !.pc = pc]
  OBVIOUS
<1>4. q2 = TpRec(pc, o.at, o.inode, b, o.vars, o.got, o.verdict, o.late)
  BY <1>3, <1>2 DEF IsTp, TpRec
<1>5. PICK q3 : q3 = [q2 EXCEPT !.verdict = v]
  OBVIOUS
<1>6. q3 = TpRec(pc, o.at, o.inode, b, o.vars, o.got, v, o.late)
  BY <1>5, <1>4 DEF IsTp, TpRec
<1> QED
  BY <1>1, <1>2, <1>3, <1>4, <1>5, <1>6

\* A call ends with what it wrote.
LEMMA TpPcVerdictGot ==
  ASSUME NEW o, IsTp(o), NEW pc, NEW v, NEW x
  PROVE  [o EXCEPT !.pc = pc, !.verdict = v, !.got = x]
           = TpRec(pc, o.at, o.inode, o.body, o.vars, x, v, o.late)
<1>1. PICK q1 : q1 = [o EXCEPT !.pc = pc]
  OBVIOUS
<1>2. q1 = TpRec(pc, o.at, o.inode, o.body, o.vars, o.got, o.verdict, o.late)
  BY <1>1 DEF IsTp, TpRec
<1>3. PICK q2 : q2 = [q1 EXCEPT !.verdict = v]
  OBVIOUS
<1>4. q2 = TpRec(pc, o.at, o.inode, o.body, o.vars, o.got, v, o.late)
  BY <1>3, <1>2 DEF IsTp, TpRec
<1>5. PICK q3 : q3 = [q2 EXCEPT !.got = x]
  OBVIOUS
<1>6. q3 = TpRec(pc, o.at, o.inode, o.body, o.vars, x, v, o.late)
  BY <1>5, <1>4 DEF IsTp, TpRec
<1> QED
  BY <1>1, <1>2, <1>3, <1>4, <1>5, <1>6

(***************************************************************************)
(* Calls of the template store that go on                                   *)
(***************************************************************************)
\* What the assumptions say of a call.
LEMMA TpGiven ==
  ASSUME NEW s \in TpSettings
  PROVE  /\ \A c \in DOMAIN s.jobs : /\ c \in TpCallers /\ s.jobs[c].tool \in TpTools
                                     /\ s.jobs[c].vars \in {"script", "yaml", "none"}
         /\ s.ticks \in Nat
  BY TpAssumption DEF TpAssumption, TpSettingsOK

\* Whose step it is at each point.
LEMMA TpAt ==
  ASSUME TpInv, NEW c \in TpJobs
  PROVE  /\ TpCallOK(c, tpCall[c]) /\ IsTp(tpCall[c]) /\ c \in TpCallers /\ DOMAIN tpCall = TpJobs
         /\ Job(c).tool \in TpTools /\ Job(c).vars \in {"script", "yaml", "none"}
         /\ tpCall[c].pc \in {"open", "write", "replace"} => Job(c).tool = "save"
         /\ tpCall[c].pc = "move" => Job(c).tool = "rename"
         /\ tpCall[c].pc = "unlink" => Job(c).tool = "delete"
         /\ tpCall[c].pc = "stat" => Job(c).tool \in {"save", "rename"}
         /\ tpCall[c].pc = "read" => Job(c).tool \in {"get", "render"}
         /\ tpCall[c].pc \in {"script", "exec", "render", "template", "audit", "write audit", "out", "write out"} =>
              Job(c).tool = "render"
         /\ tpCall[c].pc = "idle" => tpCall[c].at = 0 /\ tpCall[c].late = {} /\ tpCall[c].verdict = "none"
<1>1. TpCallOK(c, tpCall[c]) /\ DOMAIN tpCall = TpJobs /\ tpSetting \in TpSettings
  BY DEF TpInv, TpWorldOK
<1>2. c \in TpCallers /\ Job(c).tool \in TpTools /\ Job(c).vars \in {"script", "yaml", "none"}
  BY <1>1, TpGiven DEF TpJobs, Job
<1>3. IsTp(tpCall[c]) /\ RightPlace(Job(c).tool, tpCall[c].pc)
  BY <1>1 DEF TpCallOK
<1>4. tpCall[c].pc = "idle" => tpCall[c].at = 0 /\ tpCall[c].late = {} /\ tpCall[c].verdict = "none"
  BY <1>1 DEF TpCallOK, NoTpCall
<1> QED
  BY <1>1, <1>2, <1>3, <1>4 DEF RightPlace, TpTools

\* What a call does not undo: its directory, and whom it has seen.
Kept(c, r) ==
  /\ r.pc # "idle"
  /\ tpCall[c].pc # "idle" => r.at = tpCall[c].at /\ r.late = tpCall[c].late

\* A step of c to r.
StepsTo(c, r) == TpMoves(c, r) /\ SameTime /\ Kept(c, r) /\ TpCallOK(c, r)

\* What it leaves as it was.
LEMMA TpStands ==
  ASSUME TpInv, NEW c \in TpJobs, NEW r, StepsTo(c, r)
  PROVE  /\ tpCall'[c] = r /\ \A d \in TpJobs \ {c} : tpCall'[d] = tpCall[d]
         /\ DOMAIN tpCall' = TpJobs /\ TpJobs' = TpJobs /\ \A d : Job(d)' = Job(d)
         /\ tpSetting' = tpSetting /\ tpNow' = tpNow
         /\ \A d \in TpJobs : tpCall[d].pc # "idle" => tpCall'[d].at = tpCall[d].at /\ tpCall'[d].late = tpCall[d].late
  BY DEF StepsTo, TpMoves, SameTime, Kept, TpJobs, Job, TpInv, TpWorldOK

\* Two renders of one directory have it in common for good.
LEMMA SameRunStays ==
  ASSUME TpInv, tpSetting' = tpSetting, DOMAIN tpCall' = TpJobs,
         \A d \in TpJobs : tpCall[d].pc # "idle" => tpCall'[d].at = tpCall[d].at,
         NEW c \in TpJobs, SameRun(c)
  PROVE  SameRun(c)'
<1>1. PICK d \in TpJobs \ {c} :
        Job(d).tool = "render" /\ Job(d).vars = "script" /\ tpCall[d].at # 0 /\ RunDir(d) = RunDir(c)
  BY DEF SameRun, TpInv, TpWorldOK
<1>2. tpCall[d].at = tpCall[c].at /\ Job(d).name = Job(c).name
  BY <1>1 DEF RunDir
<1>3. tpCall[c].pc # "idle" /\ tpCall[d].pc # "idle"
  BY <1>1, <1>2, TpAt
<1>4. tpCall'[d].at = tpCall[d].at /\ tpCall'[c].at = tpCall[c].at
  BY <1>3
<1>5. \A e : Job(e)' = Job(e)
  BY DEF Job
<1> QED
  BY <1>1, <1>2, <1>4, <1>5 DEF SameRun, RunDir, TpJobs

\* What is right of a call stays right.
LEMMA TpStillOK ==
  ASSUME TpInv, tpSetting' = tpSetting, tpNow' \in Nat, tpNow <= tpNow', NEW c \in TpJobs, NEW r, TpCallOK(c, r),
         SameRun(c) => SameRun(c)'
  PROVE  TpCallOK(c, r)'
<1>1. Job(c)' = Job(c) /\ TpJobs' = TpJobs /\ (TpFault("full")' <=> TpFault("full")) /\ tpNow \in Nat
  BY DEF Job, TpJobs, TpFault, TpInv, TpWorldOK
<1>2. OwnVars(c, r) => OwnVars(c, r)'
  BY DEF OwnVars
<1>3. Job(c).tool = "render" => RenderOK(c, r)'
  <2>1. SUFFICES ASSUME Job(c).tool = "render"
                 PROVE  RenderOK(c, r)'
    OBVIOUS
  <2>2. RenderOK(c, r)
    BY <2>1 DEF TpCallOK
  <2>3. r.at \in 1..tpNow => r.at \in 1..tpNow'
    BY <1>1
  <2> QED
    BY <1>1, <1>2, <2>2, <2>3 DEF RenderOK, Parses, Reads
<1>4. RightPlace(Job(c)'.tool, r.pc)
  <2>1. RightPlace(Job(c).tool, r.pc)
    BY DEF TpCallOK
  <2> QED
    BY <1>1, <2>1
<1>5. IsTp(r)'
  <2>1. IsTp(r)
    BY DEF TpCallOK
  <2> QED
    BY <2>1 DEF IsTp, TpRec
<1>6. (r.pc = "idle" => r = NoTpCall)'
  <2>1. r.pc = "idle" => r = NoTpCall
    BY DEF TpCallOK
  <2> QED
    BY <2>1 DEF NoTpCall, NoFile
<1>7. r.late \subseteq TpJobs' /\ (Job(c).tool = "deploy" /\ r.verdict = "ok" => Pushable(r)')
  BY <1>1 DEF TpCallOK, Pushable
<1>8. r.verdict \in {"none", "ok", "error", "raised", "preflight", "warned"} /\ (r.pc # "over" => r.verdict = "none")
  BY DEF TpCallOK
<1> QED
  BY <1>1, <1>3, <1>4, <1>5, <1>6, <1>7, <1>8 DEF TpCallOK

\* All calls are right after a step of one.
LEMMA TpCallsOK ==
  ASSUME TpInv, NEW c \in TpJobs, NEW r, StepsTo(c, r)
  PROVE  \A d \in TpJobs : TpCallOK(d, tpCall[d])'
<1>1. SUFFICES ASSUME NEW d \in TpJobs
               PROVE  TpCallOK(d, tpCall[d])'
  OBVIOUS
<1>2. PICK x : x = IF d = c THEN r ELSE tpCall[d]
  OBVIOUS
<1>3. TpCallOK(d, x) /\ tpCall'[d] = x
  BY <1>2, TpStands, TpAt DEF StepsTo
<1>4. tpNow \in Nat
  BY DEF TpInv, TpWorldOK
<1>5. SameRun(d) => SameRun(d)'
  BY TpStands, SameRunStays
<1>6. TpCallOK(d, x)'
  BY <1>3, <1>4, <1>5, TpStands, TpStillOK
<1> QED
  BY <1>3, <1>6

\* The scripts of others are what they were.
LEMMA ScriptsStay ==
  ASSUME TpInv, NEW c \in TpJobs, NEW r, StepsTo(c, r), script' = script,
         r.pc \in {"script", "exec"} => tpCall[c].pc = r.pc
  PROVE  \A d \in TpJobs : ScriptOK(d)'
<1>1. SUFFICES ASSUME NEW d \in TpJobs, tpCall'[d].pc \in {"script", "exec"}
               PROVE  ScriptOK(d)'
  BY DEF ScriptOK
<1>2. tpCall[d].pc = tpCall'[d].pc /\ tpCall'[d].at = tpCall[d].at
  BY <1>1, TpStands
<1>3. RunDir(d)' = RunDir(d)
  BY <1>2, TpStands DEF RunDir
<1>4. SameRun(d) => SameRun(d)'
  BY TpStands, SameRunStays
<1>5. ScriptOK(d)
  BY DEF TpInv
<1> QED
  BY <1>2, <1>3, <1>4, <1>5 DEF ScriptOK

\* The rendered files are what they were, while who writes one still does.
LEMMA RenderedStays ==
  ASSUME TpInv, NEW c \in TpJobs, NEW r, StepsTo(c, r), rendered' = rendered,
         tpCall[c].pc \in {"write audit", "write out"} => r.pc = tpCall[c].pc \/ TpFault("full"),
         r.pc \in {"write audit", "write out"} => r.pc = tpCall[c].pc
  PROVE  RenderedOK'
<1>1. (TpFault("full")' <=> TpFault("full")) /\ RenderedOK
  BY TpStands DEF TpFault, TpInv
<1>2. ASSUME NEW f, NEW d \in TpJobs, WritesTo(d, f), ~TpFault("full")
      PROVE  WritesTo(d, f)'
  <2>1. tpCall'[d].pc = tpCall[d].pc /\ tpCall'[d].at = tpCall[d].at
    BY <1>2, TpStands DEF WritesTo
  <2>2. AuditFile(d)' = AuditFile(d) /\ OutFile' = OutFile
    BY <2>1, TpStands DEF AuditFile, RunDir, OutFile
  <2> QED
    BY <1>2, <2>1, <2>2 DEF WritesTo
<1>3. ASSUME NEW f, NEW d \in TpJobs, WritesTo(d, f)'
      PROVE  WritesTo(d, f)
  <2>1. tpCall'[d].pc \in {"write audit", "write out"}
    BY <1>3 DEF WritesTo
  <2>2. tpCall'[d].pc = tpCall[d].pc /\ tpCall'[d].at = tpCall[d].at
    BY <2>1, TpStands
  <2>3. AuditFile(d)' = AuditFile(d) /\ OutFile' = OutFile
    BY <2>2, TpStands DEF AuditFile, RunDir, OutFile
  <2> QED
    BY <1>3, <2>2, <2>3 DEF WritesTo
<1>4. SUFFICES ASSUME NEW f \in DOMAIN rendered
               PROVE  TextOK(rendered[f], f)'
  BY DEF RenderedOK
<1>5. PICK x : x = rendered[f] /\ rendered'[f] = x
  OBVIOUS
<1>6. TextOK(x, f)
  BY <1>1, <1>5 DEF RenderedOK
<1> QED
  BY <1>1, <1>2, <1>3, <1>5, <1>6, TpStands DEF TextOK

\* What a step must keep of the names: who begins to look sees who is at
\* work, and who is to take a name has not seen it taken.
Fair(c, r) ==
  /\ Asks(c) /\ r.pc # "over" /\ tpCall[c].pc = "idle" => r.late = Other(c, {"save", "rename"})
  /\ r.pc # "over" => tpCall[c].pc # "over"
  /\ Wants(c, r) => ~Exists(Takes(c))' \/ (Wants(c, tpCall[c]) /\ Exists(Takes(c)))
  /\ Busy(c) \/ DOMAIN tpDisk' \subseteq DOMAIN tpDisk

\* Of those at work each two have met, and a name that was free is taken
\* only by one that the one which looked has met.
LEMMA NamesStay ==
  ASSUME TpInv, NEW c \in TpJobs, NEW r, StepsTo(c, r), Fair(c, r)
  PROVE  MetOK' /\ \A d \in TpJobs : FreeOK(d)'
<1>1. \A d : (Asks(d)' <=> Asks(d)) /\ Takes(d)' = Takes(d) /\ \A x : Wants(d, x)' <=> Wants(d, x)
  BY TpStands DEF Asks, Takes, Wants, J2
<1>2. ASSUME NEW d \in TpJobs, NEW e \in TpJobs, Seen(d, e)
      PROVE  Seen(d, e)'
  <2>1. CASE e \in tpCall[d].late
    <3>1. tpCall[d].pc # "idle"
      BY <2>1, TpAt
    <3> QED
      BY <2>1, <3>1, TpStands DEF Seen
  <2>2. CASE d \in tpCall[e].late
    <3>1. tpCall[e].pc # "idle"
      BY <2>2, TpAt
    <3> QED
      BY <2>2, <3>1, TpStands DEF Seen
  <2> QED
    BY <1>2, <2>1, <2>2 DEF Seen
<1>3. ASSUME NEW d \in TpJobs \ {c}, Busy(c)', Busy(d)'
      PROVE  Seen(c, d)'
  <2>1. Busy(d) /\ r.pc # "over" /\ Asks(c)
    BY <1>1, <1>3, TpStands DEF Busy
  <2>2. CASE tpCall[c].pc = "idle"
    <3>1. d \in Other(c, {"save", "rename"})
      BY <2>1, TpAt DEF Other, Busy, Asks
    <3>2. d \in r.late
      BY <2>1, <2>2, <3>1 DEF Fair
    <3> QED
      BY <3>2, TpStands DEF Seen
  <2>3. CASE tpCall[c].pc # "idle"
    <3>1. Busy(c)
      BY <2>1, <2>3 DEF Busy, Fair
    <3>2. Seen(c, d)
      BY <2>1, <3>1 DEF TpInv, MetOK
    <3> QED
      BY <1>2, <3>2
  <2> QED
    BY <2>2, <2>3
<1>4. \A d \in TpJobs \ {c} : Busy(d)' => Busy(d)
  BY <1>1, TpStands DEF Busy
<1>5. \A d, e : Seen(d, e) <=> Seen(e, d)
  BY DEF Seen
<1>6. \A d, e : Seen(d, e)' <=> Seen(e, d)'
  BY DEF Seen
<1>7. MetOK'
  <2>1. SUFFICES ASSUME NEW d \in TpJobs, NEW e \in TpJobs, d # e, Busy(d)', Busy(e)'
                 PROVE  Seen(d, e)'
    BY TpStands DEF MetOK
  <2>2. CASE d = c \/ e = c
    BY <1>3, <1>6, <2>1, <2>2
  <2>3. CASE d # c /\ e # c
    BY <1>2, <1>4, <2>1, <2>3 DEF TpInv, MetOK
  <2> QED
    BY <2>2, <2>3
<1>8. ASSUME NEW d \in TpJobs
      PROVE  FreeOK(d)'
  <2>1. SUFFICES ASSUME Wants(d, tpCall'[d]), Exists(Takes(d))'
                 PROVE  \E e \in TpJobs \ {d} : Seen(d, e)'
    BY <1>1, TpStands DEF FreeOK
  <2>2. CASE Wants(d, tpCall[d]) /\ Exists(Takes(d))
    <3>1. PICK e \in TpJobs \ {d} : Seen(d, e)
      BY <2>2 DEF TpInv, FreeOK
    <3> QED
      BY <1>2, <3>1
  <2>3. CASE d = c
    <3>1. Wants(c, r)
      BY <2>1, <2>3, TpStands
    <3> QED
      BY <2>1, <2>2, <2>3, <3>1 DEF Fair
  <2>4. CASE d # c /\ ~Exists(Takes(d))
    <3>1. Busy(c)
      BY <1>1, <2>1, <2>4 DEF Fair, Exists
    <3>2. Wants(d, tpCall[d])
      BY <2>1, <2>4, TpStands
    <3>3. Busy(d)
      BY <3>2, TpAt DEF Wants, Busy, Asks
    <3>4. Seen(d, c)
      BY <2>4, <3>1, <3>3 DEF TpInv, MetOK
    <3> QED
      BY <1>2, <2>4, <3>4
  <2>5. CASE d # c /\ Exists(Takes(d))
    <3>1. Wants(d, tpCall[d])
      BY <2>1, <2>5, TpStands
    <3> QED
      BY <2>2, <2>5, <3>1
  <2> QED
    BY <2>3, <2>4, <2>5
<1> QED
  BY <1>7, <1>8

\* Inodes are where they were, or new and of a call.
Filed ==
  DOMAIN text' = DOMAIN text /\ \A p \in DOMAIN tpDisk' : tpDisk'[p] \in DOMAIN text

\* A step of a call that keeps its files.
LEMMA TpStepKeeps ==
  ASSUME TpInv, NEW c \in TpJobs, NEW r, StepsTo(c, r), Fair(c, r), Filed, RenderedOK',
         \A d \in TpJobs : ScriptOK(d)'
  PROVE  TpInv'
<1>0. tpCall' = [d \in TpJobs' |-> tpCall'[d]]
  BY TpStands DEF StepsTo, TpMoves, TpInv, TpWorldOK
<1>1. TpWorldOK'
  BY <1>0, TpStands DEF TpInv, TpWorldOK, Filed, TpJobs
<1> QED
  BY <1>1, TpStands, TpCallsOK, NamesStay DEF TpInv

\* A step that touches no file at all.
LEMMA TpQuiet ==
  ASSUME TpInv, NEW c \in TpJobs, NEW r, StepsTo(c, r), SameStore, SameRuns,
         r.pc \notin {"script", "exec", "write audit", "write out"},
         tpCall[c].pc \notin {"write audit", "write out"},
         Asks(c) /\ r.pc # "over" /\ tpCall[c].pc = "idle" => r.late = Other(c, {"save", "rename"}),
         r.pc # "over" => tpCall[c].pc # "over",
         Wants(c, r) => ~Exists(Takes(c))
  PROVE  TpInv'
<1>1. Filed
  BY DEF Filed, SameStore, TpInv, TpWorldOK
<1>2. Exists(Takes(c))' <=> Exists(Takes(c))
  <2>1. \A d : Job(d)' = Job(d)
    BY TpStands
  <2>2. Takes(c)' = Takes(c)
    BY <2>1 DEF Takes, J2
  <2> QED
    BY <2>2 DEF Exists, SameStore
<1>3. Fair(c, r)
  BY <1>2 DEF Fair, SameStore
<1>4. RenderedOK' /\ \A d \in TpJobs : ScriptOK(d)'
  BY RenderedStays, ScriptsStay DEF SameRuns
<1> QED
  BY <1>1, <1>3, <1>4, TpStepKeeps

(***************************************************************************)
(* Their actions                                                            *)
(***************************************************************************)
\* A call that ends, and not with an ok that is to be shown right.
LEMMA TpEndKeeps ==
  ASSUME TpInv, NEW c \in TpJobs, NEW v \in {"ok", "error", "raised", "preflight", "warned"}, TpEnds(c, v),
         v = "ok" => Job(c).tool \notin {"render", "deploy"},
         Job(c).tool = "render" => tpCall[c].pc # "idle", SameTime
  PROVE  \E r : /\ r.pc = "over" /\ r.late = tpCall[c].late /\ TpMoves(c, r)
                /\ StepsTo(c, r) /\ ~Wants(c, r)
<1> DEFINE o == tpCall[c]
<1>1. TpCallOK(c, o) /\ IsTp(o)
  BY TpAt
<1>2. PICK r : r = [o EXCEPT !.pc = "over", !.verdict = v]
  OBVIOUS
<1>3. r = TpRec("over", o.at, o.inode, o.body, o.vars, o.got, v, o.late)
  BY <1>1, <1>2, TpPcVerdict
<1>4. /\ r.pc = "over" /\ r.at = o.at /\ r.late = o.late /\ r.verdict = v /\ r.vars = o.vars /\ r.body = o.body
      /\ IsTp(r)
  BY <1>3 DEF TpRec, IsTp
<1>5. Job(c).tool = "render" => RenderOK(c, r)
  BY <1>1, <1>4 DEF TpCallOK, RenderOK
<1>6. RightPlace(Job(c).tool, r.pc) /\ r.late \subseteq TpJobs
  BY <1>1, <1>4 DEF TpCallOK, RightPlace
<1>7. TpCallOK(c, r)
  BY <1>4, <1>5, <1>6 DEF TpCallOK
<1>8. TpMoves(c, r)
  BY <1>2 DEF TpEnds
<1>9. Kept(c, r) /\ ~Wants(c, r)
  BY <1>4 DEF Kept, Wants
<1> QED
  BY <1>4, <1>7, <1>8, <1>9 DEF StepsTo

\* And touches no file.
LEMMA TpEndQuiet ==
  ASSUME TpInv, NEW c \in TpJobs, NEW v \in {"ok", "error", "raised", "preflight", "warned"}, TpEnds(c, v),
         v = "ok" => Job(c).tool \notin {"render", "deploy"},
         Job(c).tool = "render" => tpCall[c].pc # "idle", SameTime, SameStore, SameRuns,
         tpCall[c].pc \notin {"write audit", "write out"}
  PROVE  TpInv'
<1>1. PICK r : r.pc = "over" /\ StepsTo(c, r) /\ ~Wants(c, r)
  BY TpEndKeeps
<1> QED
  BY <1>1, TpQuiet

\* A call that goes on to pc.
LEMMA TpGoesTo ==
  ASSUME TpInv, NEW c \in TpJobs, NEW pc, TpGoes(c, pc)
  PROVE  \E r : LET o == tpCall[c] IN
           /\ TpMoves(c, r) /\ r.pc = pc /\ r.at = o.at /\ r.late = o.late /\ r.verdict = o.verdict
           /\ r.vars = o.vars /\ r.body = o.body /\ r.got = o.got /\ r.inode = o.inode /\ IsTp(r)
<1>1. IsTp(tpCall[c])
  BY TpAt
<1>2. PICK r : r = [tpCall[c] EXCEPT !.pc = pc]
  OBVIOUS
<1>3. r = TpRec(pc, tpCall[c].at, tpCall[c].inode, tpCall[c].body, tpCall[c].vars, tpCall[c].got,
                tpCall[c].verdict, tpCall[c].late)
  BY <1>1, <1>2 DEF IsTp, TpRec
<1> QED
  BY <1>2, <1>3 DEF TpGoes, TpRec, IsTp

\* A call that has looked who is at work.
LEMMA TpSees ==
  ASSUME TpInv, NEW c \in TpJobs, NEW pc,
         TpMoves(c, [tpCall[c] EXCEPT !.pc = pc, !.late = Other(c, {"save", "rename"})])
  PROVE  \E r : /\ TpMoves(c, r) /\ r.pc = pc /\ r.late = Other(c, {"save", "rename"})
                /\ r.verdict = tpCall[c].verdict /\ IsTp(r)
<1>1. PICK o : o = tpCall[c]
  OBVIOUS
<1>2. PICK ds : ds = Other(c, {"save", "rename"})
  OBVIOUS
<1>3. PICK r : r = [o EXCEPT !.pc = pc, !.late = ds]
  OBVIOUS
<1>4. r = TpRec(pc, o.at, o.inode, o.body, o.vars, o.got, o.verdict, ds)
  <2>1. IsTp(o)
    BY <1>1, TpAt
  <2> QED
    BY <1>3, <2>1, TpPcLate
<1>5. TpMoves(c, r)
  BY <1>1, <1>2, <1>3
<1> QED
  BY <1>1, <1>2, <1>4, <1>5 DEF TpRec, IsTp

\* Looking whether a name is free.
LEMMA TpLooks ==
  ASSUME TpInv, NEW c \in TpJobs, NEW pc \in {"open", "move"}, tpCall[c].pc = "idle",
         pc = "open" => Job(c).tool = "save", pc = "move" => Job(c).tool = "rename",
         TpMoves(c, [tpCall[c] EXCEPT !.pc = pc, !.late = Other(c, {"save", "rename"})]),
         SameTime, SameStore, SameRuns,
         (pc = "open" /\ ~Job(c).over) \/ pc = "move" => ~Exists(Takes(c))
  PROVE  TpInv'
<1> DEFINE o == tpCall[c]
<1>1. TpCallOK(c, o) /\ IsTp(o) /\ o.verdict = "none" /\ DOMAIN tpCall = TpJobs
  BY TpAt
<1>2. PICK ds : ds = Other(c, {"save", "rename"})
  OBVIOUS
<1>3. PICK r : /\ TpMoves(c, r) /\ r.pc = pc /\ r.late = Other(c, {"save", "rename"})
               /\ r.verdict = tpCall[c].verdict /\ IsTp(r)
  BY TpSees
<1>4. r.late = ds /\ r.verdict = o.verdict
  BY <1>2, <1>3
<1>5. r.verdict = "none"
  BY <1>1, <1>4
<1>6. ds \subseteq TpJobs
  BY <1>1, <1>2 DEF Other
<1>7. TpCallOK(c, r)
  BY <1>3, <1>4, <1>5, <1>6 DEF TpCallOK, RightPlace
<1>8. StepsTo(c, r)
  BY <1>3, <1>7 DEF StepsTo, Kept
<1>9. Wants(c, r) => ~Exists(Takes(c))
  BY <1>3 DEF Wants
<1> QED
  BY <1>2, <1>3, <1>4, <1>8, <1>9, TpQuiet

\* A save, a rename or a delete looks.
LEMMA ChecksKeep ==
  ASSUME TpInv, NEW c \in TpJobs, SaveCheck(c) \/ RenameCheck(c) \/ DeleteCheck(c)
  PROVE  TpInv'
<1>1. tpCall[c].pc = "idle" /\ SameStore /\ SameRuns /\ SameTime /\ Job(c).tool \in {"save", "rename", "delete"}
  BY DEF SaveCheck, RenameCheck, DeleteCheck
<1>2. CASE TpEnds(c, "error")
  BY <1>1, <1>2, TpEndQuiet
<1>3. CASE SaveCheck(c) /\ ~TpEnds(c, "error")
  <2>1. /\ Job(c).tool = "save" /\ (Exists(J2(Job(c).name)) => Job(c).over)
        /\ TpMoves(c, [tpCall[c] EXCEPT !.pc = "open", !.late = Other(c, {"save", "rename"})])
    BY <1>3 DEF SaveCheck
  <2>2. ~Job(c).over => ~Exists(Takes(c))
    BY <2>1 DEF Takes
  <2> QED
    BY <1>1, <2>1, <2>2, TpLooks
<1>4. CASE RenameCheck(c) /\ ~TpEnds(c, "error")
  <2>1. /\ Job(c).tool = "rename" /\ ~Exists(J2(Job(c).new))
        /\ TpMoves(c, [tpCall[c] EXCEPT !.pc = "move", !.late = Other(c, {"save", "rename"})])
    BY <1>4 DEF RenameCheck
  <2>2. ~Exists(Takes(c))
    BY <2>1 DEF Takes
  <2> QED
    BY <1>1, <2>1, <2>2, TpLooks
<1>5. CASE DeleteCheck(c) /\ ~TpEnds(c, "error")
  <2>1. Job(c).tool = "delete" /\ TpGoes(c, "unlink")
    BY <1>5 DEF DeleteCheck
  <2>2. PICK r : LET o == tpCall[c] IN
          /\ TpMoves(c, r) /\ r.pc = "unlink" /\ r.at = o.at /\ r.late = o.late /\ r.verdict = o.verdict /\ IsTp(r)
    BY <2>1, TpGoesTo
  <2>3. TpCallOK(c, r)
    BY <1>1, <2>1, <2>2, TpAt DEF TpCallOK, RightPlace
  <2>4. StepsTo(c, r) /\ ~Wants(c, r) /\ ~Asks(c)
    BY <1>1, <2>1, <2>2, <2>3 DEF StepsTo, Kept, Wants, Asks
  <2> QED
    BY <1>1, <2>2, <2>4, TpQuiet
<1> QED
  BY <1>2, <1>3, <1>4, <1>5

\* A call looks at what it has done.
LEMMA StatKeeps ==
  ASSUME TpInv, NEW c \in TpJobs, StatTemplate(c)
  PROVE  TpInv'
<1>1. tpCall[c].pc = "stat" /\ SameStore /\ SameRuns /\ SameTime
  BY DEF StatTemplate
<1>2. Job(c).tool \in {"save", "rename"}
  BY <1>1, TpAt
<1>3. PICK v \in {"ok", "raised"} : TpEnds(c, v)
  BY DEF StatTemplate
<1> QED
  BY <1>1, <1>2, <1>3, TpEndQuiet

\* A call looks for its template.
LEMMA ReadCheckKeeps ==
  ASSUME TpInv, NEW c \in TpJobs, ReadCheck(c)
  PROVE  TpInv'
<1> DEFINE o == tpCall[c]
<1>1. /\ o.pc = "render" \/ (o.pc = "idle" /\ Job(c).tool = "get")
      /\ SameStore /\ SameRuns /\ SameTime
  BY DEF ReadCheck
<1>2. Job(c).tool \in {"get", "render"} /\ TpCallOK(c, o) /\ (o.pc = "render" => Job(c).tool = "render")
  BY <1>1, TpAt
<1>3. CASE TpEnds(c, "error")
  BY <1>1, <1>2, <1>3, TpEndQuiet
<1>4. CASE TpGoes(c, "read")
  <2>1. PICK r : /\ TpMoves(c, r) /\ r.pc = "read" /\ r.at = o.at /\ r.late = o.late /\ r.verdict = o.verdict
                 /\ r.vars = o.vars /\ IsTp(r)
    BY <1>4, TpGoesTo
  <2>2. Job(c).tool = "render" => RenderOK(c, r)
    BY <1>1, <1>2, <2>1 DEF TpCallOK, RenderOK, OwnVars
  <2>3. TpCallOK(c, r)
    BY <1>1, <1>2, <2>1, <2>2, TpAt DEF TpCallOK, RightPlace
  <2>4. StepsTo(c, r) /\ ~Wants(c, r) /\ ~Asks(c)
    BY <1>1, <1>2, <2>1, <2>3 DEF StepsTo, Kept, Wants, Asks
  <2> QED
    BY <1>1, <2>1, <2>4, TpQuiet
<1> QED
  BY <1>3, <1>4 DEF ReadCheck

\* A step that changes the templates, of a call at work.
LEMMA TpStoreStep ==
  ASSUME TpInv, NEW c \in TpJobs, NEW r, StepsTo(c, r), SameRuns, Filed,
         r.pc \notin {"script", "exec", "write audit", "write out"},
         tpCall[c].pc \notin {"idle", "over", "write audit", "write out"},
         Wants(c, r) => Wants(c, tpCall[c]) /\ (Exists(Takes(c))' => Exists(Takes(c))),
         Asks(c) \/ DOMAIN tpDisk' \subseteq DOMAIN tpDisk
  PROVE  TpInv'
<1>1. Fair(c, r)
  BY DEF Fair, Busy
<1>2. \A d \in TpJobs : ScriptOK(d)'
  BY ScriptsStay DEF SameRuns
<1>3. RenderedOK'
  <2>1. tpCall[c].pc \notin {"write audit", "write out"} /\ r.pc \notin {"write audit", "write out"}
    OBVIOUS
  <2> QED
    BY <2>1, RenderedStays DEF SameRuns
<1> QED
  BY <1>1, <1>2, <1>3, TpStepKeeps

\* A call that is not a render goes on.
LEMMA TpCarry ==
  ASSUME TpInv, NEW c \in TpJobs, NEW r, TpMoves(c, r), SameTime, IsTp(r), RightPlace(Job(c).tool, r.pc),
         r.pc \notin {"idle", "over"}, r.at = tpCall[c].at, r.late = tpCall[c].late,
         r.verdict = tpCall[c].verdict, tpCall[c].pc \notin {"idle", "over"}, Job(c).tool # "render"
  PROVE  StepsTo(c, r)
<1>1. TpCallOK(c, tpCall[c])
  BY TpAt
<1>2. TpCallOK(c, r)
  BY <1>1 DEF TpCallOK
<1> QED
  BY <1>2 DEF StepsTo, Kept

\* A call that opens its .tmp.
LEMMA TpOpens ==
  ASSUME TpInv, NEW c \in TpJobs, NEW pc, NEW i, TpMoves(c, [tpCall[c] EXCEPT !.pc = pc, !.inode = i])
  PROVE  \E r : /\ TpMoves(c, r) /\ r.pc = pc /\ r.at = tpCall[c].at /\ r.late = tpCall[c].late
                /\ r.verdict = tpCall[c].verdict /\ IsTp(r)
<1>1. PICK o : o = tpCall[c]
  OBVIOUS
<1>2. PICK r : r = [o EXCEPT !.pc = pc, !.inode = i]
  OBVIOUS
<1>3. r = TpRec(pc, o.at, i, o.body, o.vars, o.got, o.verdict, o.late)
  <2>1. IsTp(o)
    BY <1>1, TpAt
  <2> QED
    BY <1>2, <2>1, TpPcInode
<1>4. TpMoves(c, r)
  BY <1>1, <1>2
<1> QED
  BY <1>1, <1>3, <1>4 DEF TpRec, IsTp

\* A save opens its .tmp, which is another file than the template.
LEMMA SaveOpenKeeps ==
  ASSUME TpInv, NEW c \in TpJobs, SaveOpen(c)
  PROVE  TpInv'
<1>1. tpCall[c].pc = "open" /\ SameRuns /\ SameTime
  BY DEF SaveOpen
<1>2. Job(c).tool = "save"
  BY <1>1, TpAt
<1>3. PICK i : i = IF Exists(TmpOf(Job(c).name)) THEN tpDisk[TmpOf(Job(c).name)] ELSE c
  OBVIOUS
<1>4. /\ tpDisk' = Put(tpDisk, TmpOf(Job(c).name), i) /\ text' = [text EXCEPT ![i] = "blank"]
      /\ TpMoves(c, [tpCall[c] EXCEPT !.pc = "write", !.inode = i])
  BY <1>3 DEF SaveOpen
<1>5. i \in DOMAIN text
  BY <1>3, TpAt DEF Exists, TpInv, TpWorldOK
<1>6. Filed
  BY <1>4, <1>5 DEF Filed, Put, TpInv, TpWorldOK
<1>7. PICK r : /\ TpMoves(c, r) /\ r.pc = "write" /\ r.at = tpCall[c].at /\ r.late = tpCall[c].late
               /\ r.verdict = tpCall[c].verdict /\ IsTp(r)
  BY <1>4, TpOpens
<1>8. StepsTo(c, r)
  BY <1>1, <1>2, <1>7, TpCarry DEF RightPlace
<1>9. Exists(Takes(c))' => Exists(Takes(c))
  <2>1. Takes(c) = J2(Job(c).name)
    BY <1>2 DEF Takes
  <2>2. Takes(c)' = J2(Job(c).name)
    BY <1>2, <1>8, TpStands DEF Takes, J2
  <2>3. J2(Job(c).name) # TmpOf(Job(c).name)
    BY DEF J2, TmpOf
  <2>4. DOMAIN tpDisk' = DOMAIN tpDisk \cup {TmpOf(Job(c).name)}
    BY <1>4 DEF Put
  <2> QED
    BY <2>1, <2>2, <2>3, <2>4 DEF Exists
<1>10. Wants(c, r) => Wants(c, tpCall[c])
  BY <1>1, <1>7 DEF Wants
<1> QED
  BY <1>1, <1>2, <1>6, <1>7, <1>8, <1>9, <1>10, TpStoreStep DEF Asks

\* A save writes.
LEMMA SaveWriteKeeps ==
  ASSUME TpInv, NEW c \in TpJobs, SaveWrite(c)
  PROVE  TpInv'
<1>1. tpCall[c].pc = "write" /\ SameRuns /\ SameTime /\ TpGoes(c, "replace") /\ tpDisk' = tpDisk
  BY DEF SaveWrite
<1>2. Job(c).tool = "save"
  BY <1>1, TpAt
<1>3. Filed
  BY <1>1 DEF SaveWrite, Filed, TpInv, TpWorldOK
<1>4. PICK r : /\ TpMoves(c, r) /\ r.pc = "replace" /\ r.at = tpCall[c].at /\ r.late = tpCall[c].late
               /\ r.verdict = tpCall[c].verdict /\ IsTp(r)
  BY <1>1, TpGoesTo
<1>5. StepsTo(c, r)
  BY <1>1, <1>2, <1>4, TpCarry DEF RightPlace
<1>6. Exists(Takes(c))' => Exists(Takes(c))
  <2>1. \A d : Job(d)' = Job(d)
    BY <1>5, TpStands
  <2>2. Takes(c)' = Takes(c)
    BY <2>1 DEF Takes, J2
  <2> QED
    BY <1>1, <2>2 DEF Exists
<1>7. Wants(c, r) => Wants(c, tpCall[c])
  BY <1>1, <1>4 DEF Wants
<1> QED
  BY <1>1, <1>2, <1>3, <1>4, <1>5, <1>6, <1>7, TpStoreStep DEF Asks

\* What a path leads to after a rename was there before.
LEMMA TpRenamed ==
  ASSUME TpInv, NEW p, NEW q, p \in DOMAIN tpDisk, tpDisk' = Renamed(tpDisk, p, q), text' = text
  PROVE  Filed
<1>1. PICK w : w = Without(tpDisk, p)
  OBVIOUS
<1>2. DOMAIN w = DOMAIN tpDisk \ {p} /\ \A x \in DOMAIN tpDisk \ {p} : w[x] = tpDisk[x]
  BY <1>1 DEF Without, Restrict
<1>3. tpDisk' = Put(w, q, tpDisk[p])
  BY <1>1 DEF Renamed
<1>4. DOMAIN tpDisk' = DOMAIN w \cup {q} /\ \A x \in DOMAIN tpDisk' : tpDisk'[x] = IF x = q THEN tpDisk[p] ELSE w[x]
  BY <1>3 DEF Put
<1> QED
  BY <1>2, <1>4 DEF Filed, TpInv, TpWorldOK

\* A save or a rename takes its name.
LEMMA TpTakesKeeps ==
  ASSUME TpInv, NEW c \in TpJobs, SaveReplace(c) \/ Move(c)
  PROVE  TpInv'
<1>1. tpCall[c].pc \in {"replace", "move"} /\ SameRuns /\ SameTime /\ text' = text
  BY DEF SaveReplace, Move
<1>2. Job(c).tool \in {"save", "rename"}
  BY <1>1, TpAt
<1>3. CASE tpDisk' = tpDisk /\ TpEnds(c, "raised")
  BY <1>1, <1>2, <1>3, TpEndQuiet DEF SameStore
<1>4. CASE TpGoes(c, "stat") /\ \E p, q : p \in DOMAIN tpDisk /\ tpDisk' = Renamed(tpDisk, p, q)
  <2>1. Filed
    BY <1>1, <1>4, TpRenamed
  <2>2. PICK r : /\ TpMoves(c, r) /\ r.pc = "stat" /\ r.at = tpCall[c].at /\ r.late = tpCall[c].late
                 /\ r.verdict = tpCall[c].verdict /\ IsTp(r)
    BY <1>4, TpGoesTo
  <2>3. StepsTo(c, r)
    BY <1>1, <1>2, <2>2, TpCarry DEF RightPlace
  <2>4. ~Wants(c, r)
    BY <2>2 DEF Wants
  <2> QED
    BY <1>1, <1>2, <2>1, <2>2, <2>3, <2>4, TpStoreStep DEF Asks
<1> QED
  BY <1>3, <1>4 DEF SaveReplace, Move, Exists

\* A delete takes one away.
LEMMA UnlinkKeeps ==
  ASSUME TpInv, NEW c \in TpJobs, Unlink(c)
  PROVE  TpInv'
<1>1. tpCall[c].pc = "unlink" /\ SameRuns /\ SameTime /\ text' = text
  BY DEF Unlink
<1>2. Job(c).tool = "delete"
  BY <1>1, TpAt
<1>3. CASE tpDisk' = tpDisk /\ TpEnds(c, "raised")
  BY <1>1, <1>2, <1>3, TpEndQuiet DEF SameStore
<1>4. CASE tpDisk' = Without(tpDisk, J2(Job(c).name)) /\ TpEnds(c, "ok")
  <2>1. /\ DOMAIN tpDisk' \subseteq DOMAIN tpDisk
        /\ \A p \in DOMAIN tpDisk' : tpDisk'[p] = tpDisk[p]
    BY <1>4 DEF Without, Restrict
  <2>2. Filed
    BY <1>1, <2>1 DEF Filed, TpInv, TpWorldOK
  <2>3. PICK r : r.pc = "over" /\ StepsTo(c, r) /\ ~Wants(c, r)
    BY <1>1, <1>2, <1>4, TpEndKeeps
  <2> QED
    BY <1>1, <2>1, <2>2, <2>3, TpStoreStep
<1> QED
  BY <1>3, <1>4 DEF Unlink

\* Somebody edits a template, or a second passes, or nothing happens.
LEMMA TpOutsideKeeps ==
  ASSUME TpInv, TpTick \/ Editor \/ UNCHANGED tpVars
  PROVE  TpInv'
<1>1. /\ UNCHANGED <<tpSetting, tpDisk, script, rendered, tpCall>> /\ tpNow \in Nat \ {0}
      /\ tpNow' \in Nat \ {0} /\ tpNow <= tpNow' /\ DOMAIN text' = DOMAIN text
  BY DEF TpTick, Editor, tpVars, TpInv, TpWorldOK
<1>2. TpJobs' = TpJobs /\ \A d : Job(d)' = Job(d)
  BY <1>1 DEF TpJobs, Job
<1>3. TpWorldOK'
  BY <1>1, <1>2 DEF TpInv, TpWorldOK
<1>4. \A d : AuditFile(d)' = AuditFile(d) /\ RunDir(d)' = RunDir(d) /\ Takes(d)' = Takes(d)
  BY <1>1, <1>2 DEF AuditFile, RunDir, Takes, J2
<1>5. RenderedOK'
  <2>1. \A d, f : WritesTo(d, f)' <=> WritesTo(d, f)
    BY <1>1, <1>4 DEF WritesTo, OutFile
  <2>2. TpFault("full")' <=> TpFault("full")
    BY <1>1 DEF TpFault
  <2> QED
    BY <1>1, <1>2, <2>1, <2>2 DEF TpInv, RenderedOK, TextOK
<1>6. MetOK'
  BY <1>1, <1>2 DEF TpInv, MetOK, Busy, Asks, Seen
<1>7. ASSUME NEW d \in TpJobs
      PROVE  TpCallOK(d, tpCall[d])' /\ ScriptOK(d)' /\ FreeOK(d)'
  <2>1. SameRun(d)' <=> SameRun(d)
    BY <1>1, <1>2, <1>4 DEF SameRun
  <2>2. TpCallOK(d, tpCall[d])'
    BY <1>1, <2>1, TpAt, TpStillOK
  <2>3. ScriptOK(d)'
    BY <1>1, <1>4, <2>1 DEF TpInv, ScriptOK
  <2>4. FreeOK(d)'
    <3>1. Wants(d, tpCall[d])' <=> Wants(d, tpCall[d])
      BY <1>1, <1>2 DEF Wants
    <3>2. Exists(Takes(d))' <=> Exists(Takes(d))
      BY <1>1, <1>4 DEF Exists
    <3>3. \A e : Seen(d, e)' <=> Seen(d, e)
      BY <1>1 DEF Seen
    <3> QED
      BY <1>2, <3>1, <3>2, <3>3 DEF TpInv, FreeOK
  <2> QED
    BY <2>2, <2>3, <2>4
<1> QED
  BY <1>2, <1>3, <1>5, <1>6, <1>7 DEF TpInv

(***************************************************************************)
(* Renders                                                                  *)
(***************************************************************************)
\* A step of c to r, which has these fields.
TpTo(c, r, pc, at, body, vars, verdict) ==
  /\ TpMoves(c, r) /\ IsTp(r) /\ r.late = tpCall[c].late
  /\ r.pc = pc /\ r.at = at /\ r.body = body /\ r.vars = vars /\ r.verdict = verdict

\* A call that has read its template.
LEMMA TpReadsBody ==
  ASSUME TpInv, NEW c \in TpJobs, NEW b, NEW pc, NEW v,
         TpMoves(c, [tpCall[c] EXCEPT !.body = b, !.pc = pc, !.verdict = v])
  PROVE  \E r : TpTo(c, r, pc, tpCall[c].at, b, tpCall[c].vars, v)
<1>1. PICK o : o = tpCall[c]
  OBVIOUS
<1>2. PICK r : r = [o EXCEPT !.body = b, !.pc = pc, !.verdict = v]
  OBVIOUS
<1>3. r = TpRec(pc, o.at, o.inode, b, o.vars, o.got, v, o.late)
  <2>1. IsTp(o)
    BY <1>1, TpAt
  <2> QED
    BY <1>2, <2>1, TpBodyPcVerdict
<1>4. TpMoves(c, r)
  BY <1>1, <1>2
<1> QED
  BY <1>1, <1>3, <1>4 DEF TpTo, TpRec, IsTp

\* A render that has its variables.
LEMMA TpHasVars ==
  ASSUME TpInv, NEW c \in TpJobs, NEW pc, NEW w, TpMoves(c, [tpCall[c] EXCEPT !.pc = pc, !.vars = w])
  PROVE  \E r : TpTo(c, r, pc, tpCall[c].at, tpCall[c].body, w, tpCall[c].verdict)
<1>1. PICK o : o = tpCall[c]
  OBVIOUS
<1>2. PICK r : r = [o EXCEPT !.pc = pc, !.vars = w]
  OBVIOUS
<1>3. r = TpRec(pc, o.at, o.inode, o.body, w, o.got, o.verdict, o.late)
  <2>1. IsTp(o)
    BY <1>1, TpAt
  <2> QED
    BY <1>2, <2>1, TpPcVars
<1>4. TpMoves(c, r)
  BY <1>1, <1>2
<1> QED
  BY <1>1, <1>3, <1>4 DEF TpTo, TpRec, IsTp

\* A render that makes its directory.
LEMMA TpMakesDir ==
  ASSUME TpInv, NEW c \in TpJobs, NEW pc, NEW n, TpMoves(c, [tpCall[c] EXCEPT !.pc = pc, !.at = n])
  PROVE  \E r : TpTo(c, r, pc, n, tpCall[c].body, tpCall[c].vars, tpCall[c].verdict)
<1>1. PICK o : o = tpCall[c]
  OBVIOUS
<1>2. PICK r : r = [o EXCEPT !.pc = pc, !.at = n]
  OBVIOUS
<1>3. r = TpRec(pc, n, o.inode, o.body, o.vars, o.got, o.verdict, o.late)
  <2>1. IsTp(o)
    BY <1>1, TpAt
  <2> QED
    BY <1>2, <2>1, TpPcAt
<1>4. TpMoves(c, r)
  BY <1>1, <1>2
<1> QED
  BY <1>1, <1>3, <1>4 DEF TpTo, TpRec, IsTp

\* A call reads its template, and refuses what does not parse.
LEMMA ReadTemplateKeeps ==
  ASSUME TpInv, NEW c \in TpJobs, ReadTemplate(c)
  PROVE  TpInv'
<1>1. tpCall[c].pc = "read" /\ SameStore /\ SameRuns /\ SameTime
  BY DEF ReadTemplate
<1>2. Job(c).tool \in {"get", "render"} /\ TpCallOK(c, tpCall[c]) /\ tpCall[c].verdict = "none"
  BY <1>1, TpAt DEF TpCallOK
<1>3. CASE TpEnds(c, "error") \/ TpEnds(c, "raised")
  BY <1>1, <1>2, <1>3, TpEndQuiet
<1>4. CASE ~(TpEnds(c, "error") \/ TpEnds(c, "raised"))
  <2>1. PICK b : b = BodyAt(J2(Job(c).name))
    OBVIOUS
  <2>2. PICK pc : pc = IF Job(c).tool = "get" THEN "over" ELSE "template"
    OBVIOUS
  <2>3. PICK v : v = IF Job(c).tool = "get" THEN "ok" ELSE "none"
    OBVIOUS
  <2>4. Parses(b) /\ TpMoves(c, [tpCall[c] EXCEPT !.body = b, !.pc = pc, !.verdict = v])
    BY <1>4, <2>1, <2>2, <2>3 DEF ReadTemplate
  <2>5. PICK r : TpTo(c, r, pc, tpCall[c].at, b, tpCall[c].vars, v)
    BY <2>4, TpReadsBody
  <2>6. Job(c).tool = "render" => r.pc = "template" /\ r.verdict = "none"
    BY <2>2, <2>3, <2>5 DEF TpTo
  <2>7. Job(c).tool = "render" => RenderOK(c, r)
    BY <1>1, <1>2, <2>4, <2>5, <2>6 DEF TpTo, TpCallOK, RenderOK, OwnVars
  <2>8. Job(c).tool = "get" => r.pc = "over" /\ r.verdict = "ok"
    BY <2>2, <2>3, <2>5 DEF TpTo
  <2>9. TpCallOK(c, r)
    BY <1>2, <2>5, <2>6, <2>7, <2>8 DEF TpTo, TpCallOK, RightPlace
  <2>10. StepsTo(c, r) /\ ~Wants(c, r) /\ ~Asks(c) /\ r.pc \in {"over", "template"}
    BY <1>1, <1>2, <2>5, <2>6, <2>8, <2>9 DEF TpTo, StepsTo, Kept, Wants, Asks
  <2> QED
    BY <1>1, <2>10, TpQuiet
<1> QED
  BY <1>3, <1>4

\* The scripts of others, when c writes to its own directory.
LEMMA ScriptsMove ==
  ASSUME TpInv, NEW c \in TpJobs, NEW r, StepsTo(c, r), Job(c).tool = "render", Job(c).vars = "script", r.at # 0,
         DOMAIN script \subseteq DOMAIN script',
         \A x \in DOMAIN script \ {<<Job(c).name, r.at>>} : script'[x] = script[x]
  PROVE  \A d \in TpJobs \ {c} : ScriptOK(d)'
<1>1. SUFFICES ASSUME NEW d \in TpJobs \ {c}, tpCall'[d].pc \in {"script", "exec"}
               PROVE  ScriptOK(d)'
  BY DEF ScriptOK
<1>2. tpCall[d] = tpCall'[d] /\ RunDir(d)' = RunDir(d)
  BY TpStands DEF RunDir
<1>3. RunDir(c)' = <<Job(c).name, r.at>>
  BY TpStands DEF RunDir
<1>4. ScriptOK(d)
  BY DEF TpInv
<1>5. CASE RunDir(d) = <<Job(c).name, r.at>>
  <2>1. SameRun(d)'
    <3>1. Job(c)'.tool = "render" /\ Job(c)'.vars = "script" /\ tpCall'[c].at # 0 /\ c \in DOMAIN tpCall' \ {d}
      BY TpStands
    <3>2. RunDir(c)' = RunDir(d)'
      BY <1>2, <1>3, <1>5
    <3> QED
      BY <3>1, <3>2 DEF SameRun
  <2> QED
    BY <1>1, <1>2, <1>4, <2>1 DEF ScriptOK
<1>6. CASE RunDir(d) # <<Job(c).name, r.at>>
  <2>1. SameRun(d) => SameRun(d)'
    BY TpStands, SameRunStays
  <2> QED
    BY <1>1, <1>2, <1>4, <1>6, <2>1 DEF ScriptOK
<1> QED
  BY <1>5, <1>6

\* A step of a render that changes no template.
LEMMA TpRenderStep ==
  ASSUME TpInv, NEW c \in TpJobs, NEW r, StepsTo(c, r), Job(c).tool = "render", SameStore,
         r.pc # "over" => tpCall[c].pc # "over", RenderedOK', \A d \in TpJobs : ScriptOK(d)'
  PROVE  TpInv'
<1>1. RightPlace("render", r.pc) /\ ~Asks(c)
  BY DEF StepsTo, TpCallOK, Asks
<1>2. ~Wants(c, r)
  BY <1>1 DEF RightPlace, Wants
<1>3. Fair(c, r)
  BY <1>1, <1>2 DEF Fair, SameStore
<1>4. Filed
  BY DEF Filed, SameStore, TpInv, TpWorldOK
<1> QED
  BY <1>3, <1>4, TpStepKeeps

\* A render begins: with the directory of its second, or with the variables
\* it was given.
LEMMA StartRenderKeeps ==
  ASSUME TpInv, NEW c \in TpJobs, StartRender(c)
  PROVE  TpInv'
<1>1. tpCall[c].pc = "idle" /\ Job(c).tool = "render" /\ rendered' = rendered /\ SameStore /\ SameTime
  BY DEF StartRender
<1>2. /\ TpCallOK(c, tpCall[c]) /\ tpCall[c].verdict = "none" /\ tpCall[c].late = {}
      /\ tpCall[c].at = 0 /\ Job(c).vars \in {"script", "yaml", "none"}
  BY <1>1, TpAt
<1>3. tpNow \in Nat \ {0}
  BY DEF TpInv, TpWorldOK
<1>4. CASE Job(c).vars = "script"
  <2>1. /\ TpMoves(c, [tpCall[c] EXCEPT !.pc = "script", !.at = tpNow])
        /\ script' = Put(script, <<Job(c).name, tpNow>>, "blank")
    BY <1>4 DEF StartRender
  <2>2. PICK r : TpTo(c, r, "script", tpNow, tpCall[c].body, tpCall[c].vars, tpCall[c].verdict)
    BY <2>1, TpMakesDir
  <2>3. RenderOK(c, r)
    <3>1. r.at \in 1..tpNow
      BY <1>3, <2>2 DEF TpTo
    <3> QED
      BY <1>2, <1>4, <2>2, <3>1 DEF TpTo, RenderOK
  <2>4. TpCallOK(c, r)
    BY <1>1, <1>2, <2>2, <2>3 DEF TpTo, TpCallOK, RightPlace
  <2>5. StepsTo(c, r)
    BY <1>1, <2>2, <2>4 DEF TpTo, StepsTo, Kept
  <2>6. /\ DOMAIN script' = DOMAIN script \cup {<<Job(c).name, tpNow>>}
        /\ \A x \in DOMAIN script \ {<<Job(c).name, r.at>>} : script'[x] = script[x]
    BY <2>1, <2>2 DEF TpTo, Put
  <2>7. \A d \in TpJobs \ {c} : ScriptOK(d)'
    BY <1>1, <1>3, <1>4, <2>2, <2>5, <2>6, ScriptsMove DEF TpTo
  <2>8. ScriptOK(c)'
    <3>1. RunDir(c)' = <<Job(c).name, tpNow>> /\ tpCall'[c].pc = "script"
      BY <2>2, <2>5, TpStands DEF TpTo, RunDir
    <3> QED
      BY <2>6, <3>1 DEF ScriptOK
  <2>9. RenderedOK'
    <3>1. r.pc = "script"
      BY <2>2 DEF TpTo
    <3>2. r.pc \notin {"write audit", "write out"} /\ tpCall[c].pc \notin {"write audit", "write out"}
      BY <1>1, <3>1
    <3> QED
      BY <1>1, <2>5, <3>2, RenderedStays
  <2> QED
    BY <1>1, <2>5, <2>7, <2>8, <2>9, TpRenderStep
<1>5. CASE Job(c).vars # "script"
  <2>1. PICK w : w = IF Job(c).vars = "yaml" THEN c ELSE "none"
    OBVIOUS
  <2>2. TpMoves(c, [tpCall[c] EXCEPT !.pc = "render", !.vars = w]) /\ script' = script
    BY <1>5, <2>1 DEF StartRender
  <2>3. PICK r : TpTo(c, r, "render", tpCall[c].at, tpCall[c].body, w, tpCall[c].verdict)
    BY <2>2, TpHasVars
  <2>4. RenderOK(c, r)
    BY <1>2, <1>5, <2>1, <2>3 DEF TpTo, RenderOK, OwnVars
  <2>5. TpCallOK(c, r)
    BY <1>1, <1>2, <2>3, <2>4 DEF TpTo, TpCallOK, RightPlace
  <2>6. StepsTo(c, r) /\ ~Asks(c) /\ ~Wants(c, r)
    BY <1>1, <2>3, <2>5 DEF TpTo, StepsTo, Kept, Asks, Wants
  <2> QED
    BY <1>1, <2>2, <2>3, <2>6, TpQuiet DEF TpTo, SameRuns
<1> QED
  BY <1>4, <1>5

\* A render goes on: what it has is right.
LEMMA TpRenderGoes ==
  ASSUME TpInv, NEW c \in TpJobs, NEW pc \in {"exec", "audit", "write audit", "out", "write out"}, TpGoes(c, pc),
         SameTime, Job(c).tool = "render",
         pc = "exec" => tpCall[c].pc = "script",
         pc # "exec" => /\ tpCall[c].pc \in {"template", "audit", "write audit", "out", "write out"}
                        /\ tpCall[c].vars # "none" /\ (Reads(tpCall[c].body) => tpCall[c].vars # "blank")
  PROVE  \E r : StepsTo(c, r) /\ r.pc = pc
<1>1. TpCallOK(c, tpCall[c]) /\ tpCall[c].pc \notin {"idle", "over"}
  BY TpAt
<1>2. PICK r : /\ TpMoves(c, r) /\ r.pc = pc /\ r.at = tpCall[c].at /\ r.late = tpCall[c].late
               /\ r.verdict = tpCall[c].verdict /\ r.vars = tpCall[c].vars /\ r.body = tpCall[c].body /\ IsTp(r)
  BY TpGoesTo
<1>3. RenderOK(c, r)
  BY <1>1, <1>2 DEF TpCallOK, RenderOK, OwnVars
<1>4. TpCallOK(c, r)
  BY <1>1, <1>2, <1>3 DEF TpCallOK, RightPlace
<1> QED
  BY <1>1, <1>2, <1>4 DEF StepsTo, Kept

\* A render writes its script.
LEMMA WriteScriptKeeps ==
  ASSUME TpInv, NEW c \in TpJobs, WriteScript(c)
  PROVE  TpInv'
<1>1. /\ tpCall[c].pc = "script" /\ script' = [script EXCEPT ![RunDir(c)] = c] /\ TpGoes(c, "exec")
      /\ rendered' = rendered /\ SameStore /\ SameTime
  BY DEF WriteScript
<1>2. Job(c).tool = "render" /\ TpCallOK(c, tpCall[c])
  BY <1>1, TpAt
<1>3. Job(c).vars = "script" /\ tpCall[c].at # 0
  BY <1>1, <1>2 DEF TpCallOK, RenderOK
<1>4. RunDir(c) \in DOMAIN script
  BY <1>1 DEF TpInv, ScriptOK
<1>5. PICK r : StepsTo(c, r) /\ r.pc = "exec"
  BY <1>1, <1>2, TpRenderGoes
<1>6. r.at = tpCall[c].at /\ tpCall'[c] = r
  BY <1>1, <1>5, TpStands
<1>7. RunDir(c)' = RunDir(c) /\ RunDir(c) = <<Job(c).name, r.at>>
  BY <1>5, <1>6, TpStands DEF RunDir
<1>8. \A d \in TpJobs \ {c} : ScriptOK(d)'
  <2>1. r.at # 0 /\ DOMAIN script \subseteq DOMAIN script'
    BY <1>1, <1>3, <1>6
  <2>2. \A x \in DOMAIN script \ {<<Job(c).name, r.at>>} : script'[x] = script[x]
    BY <1>1, <1>7
  <2> QED
    BY <1>2, <1>3, <1>5, <2>1, <2>2, ScriptsMove
<1>9. ScriptOK(c)'
  BY <1>1, <1>4, <1>7 DEF ScriptOK
<1>10. RenderedOK'
  BY <1>1, <1>5, RenderedStays
<1> QED
  BY <1>1, <1>2, <1>5, <1>8, <1>9, <1>10, TpRenderStep

\* The script runs: the variables are those of the script that is there.
LEMMA ExecKeeps ==
  ASSUME TpInv, NEW c \in TpJobs, Exec(c)
  PROVE  TpInv'
<1>1. tpCall[c].pc = "exec" /\ SameStore /\ SameRuns /\ SameTime
  BY DEF Exec
<1>2. Job(c).tool = "render" /\ TpCallOK(c, tpCall[c])
  BY <1>1, TpAt
<1>3. CASE TpEnds(c, "error")
  BY <1>1, <1>2, <1>3, TpEndQuiet
<1>4. CASE \E w \in {script[RunDir(c)], "cut"} : TpMoves(c, [tpCall[c] EXCEPT !.pc = "render", !.vars = w])
  <2>1. PICK w \in {script[RunDir(c)], "cut"} : TpMoves(c, [tpCall[c] EXCEPT !.pc = "render", !.vars = w])
    BY <1>4
  <2>2. PICK r : TpTo(c, r, "render", tpCall[c].at, tpCall[c].body, w, tpCall[c].verdict)
    BY <2>1, TpHasVars
  <2>3. OwnVars(c, r)
    <3>1. script[RunDir(c)] = c \/ SameRun(c)
      BY <1>1 DEF TpInv, ScriptOK
    <3> QED
      BY <2>1, <2>2, <3>1 DEF OwnVars, TpTo
  <2>4. RenderOK(c, r)
    BY <1>1, <1>2, <2>2, <2>3 DEF TpTo, TpCallOK, RenderOK
  <2>5. TpCallOK(c, r)
    BY <1>1, <1>2, <2>2, <2>4 DEF TpTo, TpCallOK, RightPlace
  <2>6. StepsTo(c, r) /\ ~Asks(c) /\ ~Wants(c, r) /\ r.pc = "render"
    BY <1>1, <1>2, <2>2, <2>5 DEF TpTo, StepsTo, Kept, Asks, Wants
  <2> QED
    BY <1>1, <2>6, TpQuiet
<1> QED
  BY <1>3, <1>4 DEF Exec

\* The template is rendered, unless a variable is missing.
LEMMA RenderKeeps ==
  ASSUME TpInv, NEW c \in TpJobs, Render(c)
  PROVE  TpInv'
<1>1. tpCall[c].pc = "template" /\ SameStore /\ SameRuns /\ SameTime
  BY DEF Render
<1>2. Job(c).tool = "render" /\ TpCallOK(c, tpCall[c])
  BY <1>1, TpAt
<1>3. CASE TpEnds(c, "error") \/ TpEnds(c, "preflight")
  BY <1>1, <1>2, <1>3, TpEndQuiet
<1>4. CASE ~(TpEnds(c, "error") \/ TpEnds(c, "preflight"))
  <2>1. PICK pc : pc = IF Job(c).vars = "script" THEN "audit" ELSE "out"
    OBVIOUS
  <2>2. pc \in {"audit", "out"}
    BY <2>1
  <2>3. TpGoes(c, pc) /\ tpCall[c].vars # "none" /\ (Reads(tpCall[c].body) => tpCall[c].vars # "blank")
    BY <1>4, <2>1 DEF Render, Undefined
  <2>a. /\ pc \in {"exec", "audit", "write audit", "out", "write out"} /\ pc # "exec"
        /\ SameTime /\ Job(c).tool = "render"
        /\ tpCall[c].pc \in {"template", "audit", "write audit", "out", "write out"}
    BY <1>1, <1>2, <2>2
  <2>4. PICK r : StepsTo(c, r) /\ r.pc = pc
    BY <2>3, <2>a, TpRenderGoes
  <2>5. ~Asks(c) /\ ~Wants(c, r)
    BY <1>2, <2>2, <2>4 DEF Asks, Wants
  <2> QED
    BY <1>1, <2>2, <2>4, <2>5, TpQuiet
<1> QED
  BY <1>3, <1>4

\* The rendered files, when c writes one.
LEMMA RenderedMoves ==
  ASSUME TpInv, NEW c \in TpJobs, NEW r, StepsTo(c, r), NEW f, DOMAIN rendered' \subseteq DOMAIN rendered \cup {f},
         \A g \in DOMAIN rendered \ {f} : rendered'[g] = rendered[g],
         f \in DOMAIN rendered' => TextOK(rendered[f], f)',
         \A g : WritesTo(c, g) \/ WritesTo(c, g)' => g = f
  PROVE  RenderedOK'
<1>1. (TpFault("full")' <=> TpFault("full")) /\ RenderedOK
  BY TpStands DEF TpFault, TpInv
<1>2. ASSUME NEW g \in DOMAIN rendered', g # f
      PROVE  TextOK(rendered[g], g)'
  <2>1. g \in DOMAIN rendered /\ rendered'[g] = rendered[g]
    BY <1>2
  <2>2. ASSUME NEW d \in TpJobs
        PROVE  WritesTo(d, g)' <=> WritesTo(d, g)
    <3>1. CASE d # c
      <4>1. tpCall'[d] = tpCall[d]
        BY <3>1, TpStands
      <4>2. AuditFile(d)' = AuditFile(d) /\ OutFile' = OutFile
        BY <4>1, TpStands DEF AuditFile, RunDir, OutFile
      <4> QED
        BY <4>1, <4>2 DEF WritesTo
    <3>2. CASE d = c
      BY <1>2, <3>2
    <3> QED
      BY <3>1, <3>2
  <2>3. PICK x : x = rendered[g] /\ rendered'[g] = x
    BY <2>1
  <2>4. TextOK(x, g)
    BY <1>1, <2>1, <2>3 DEF RenderedOK
  <2> QED
    BY <1>1, <2>2, <2>3, <2>4, TpStands DEF TextOK
<1> QED
  BY <1>2 DEF RenderedOK

\* A render empties the file it is to write.
LEMMA OpenOutKeeps ==
  ASSUME TpInv, NEW c \in TpJobs, OpenOut(c)
  PROVE  TpInv'
<1>1. tpCall[c].pc \in {"audit", "out"} /\ script' = script /\ SameStore /\ SameTime
  BY DEF OpenOut
<1>2. Job(c).tool = "render" /\ TpCallOK(c, tpCall[c])
  BY <1>1, TpAt
<1>3. PICK pc : pc = IF tpCall[c].pc = "audit" THEN "write audit" ELSE "write out"
  OBVIOUS
<1>4. PICK f : f = IF tpCall[c].pc = "audit" THEN AuditFile(c) ELSE OutFile
  OBVIOUS
<1>h. PICK hands : hands = {c} \cup {d \in DOMAIN tpCall : WritesTo(d, f)}
  OBVIOUS
<1>5. TpGoes(c, pc) /\ rendered' = Put(rendered, f, Emptied(hands))
  BY <1>3, <1>4, <1>h DEF OpenOut
<1>6. pc \in {"write audit", "write out"}
  BY <1>3
<1>7. tpCall[c].vars # "none" /\ (Reads(tpCall[c].body) => tpCall[c].vars # "blank")
  BY <1>1, <1>2 DEF TpCallOK, RenderOK
<1>a. /\ pc \in {"exec", "audit", "write audit", "out", "write out"} /\ pc # "exec"
      /\ SameTime /\ Job(c).tool = "render" /\ TpGoes(c, pc)
      /\ tpCall[c].pc \in {"template", "audit", "write audit", "out", "write out"}
  BY <1>1, <1>2, <1>5, <1>6
<1>8. PICK r : StepsTo(c, r) /\ r.pc = pc
  BY <1>7, <1>a, TpRenderGoes
<1>9. tpCall'[c] = r /\ r.at = tpCall[c].at /\ \A d : Job(d)' = Job(d)
  BY <1>1, <1>8, TpStands
<1>10. WritesTo(c, f)'
  <2>1. AuditFile(c)' = AuditFile(c) /\ OutFile' = OutFile
    BY <1>9 DEF AuditFile, RunDir, OutFile
  <2> QED
    BY <1>1, <1>3, <1>4, <1>8, <1>9, <2>1 DEF WritesTo
<1>11. RenderedOK'
  <2>1. /\ DOMAIN rendered' \subseteq DOMAIN rendered \cup {f} /\ rendered'[f] = Emptied(hands)
        /\ \A g \in DOMAIN rendered \ {f} : rendered'[g] = rendered[g]
    BY <1>5 DEF Put
  <2>2. rendered'[f].size = "blank" /\ rendered'[f].hands = hands
    BY <2>1 DEF Emptied, NoFile
  <2>3. \A g : WritesTo(c, g) \/ WritesTo(c, g)' => g = f
    <3>1. AuditFile(c)' = AuditFile(c) /\ OutFile' = OutFile
      BY <1>9 DEF AuditFile, RunDir, OutFile
    <3> QED
      BY <1>1, <1>3, <1>4, <1>8, <1>9, <3>1 DEF WritesTo
  <2>4. ASSUME NEW d \in TpJobs, WritesTo(d, f)'
        PROVE  d \in hands
    <3>1. CASE d = c
      BY <1>h, <3>1
    <3>2. CASE d # c
      <4>1. tpCall'[d] = tpCall[d] /\ DOMAIN tpCall = TpJobs
        BY <1>8, <3>2, TpStands DEF TpInv, TpWorldOK
      <4>2. AuditFile(d)' = AuditFile(d) /\ OutFile' = OutFile
        BY <1>9, <4>1 DEF AuditFile, RunDir, OutFile
      <4> QED
        BY <1>h, <2>4, <4>1, <4>2 DEF WritesTo
    <3> QED
      BY <3>1, <3>2
  <2>5. TpJobs' = TpJobs
    BY <1>8, TpStands
  <2>6. TextOK(rendered[f], f)'
    BY <1>10, <2>2, <2>4, <2>5 DEF TextOK
  <2> QED
    BY <1>8, <2>1, <2>3, <2>6, RenderedMoves
<1>12. \A d \in TpJobs : ScriptOK(d)'
  BY <1>1, <1>6, <1>8, ScriptsStay
<1> QED
  BY <1>1, <1>2, <1>8, <1>11, <1>12, TpRenderStep

\* A render that ends with its file written.
LEMMA TpEndsRight ==
  ASSUME TpInv, NEW c \in TpJobs, NEW x,
         TpMoves(c, [tpCall[c] EXCEPT !.pc = "over", !.verdict = "ok", !.got = x])
  PROVE  \E r : TpTo(c, r, "over", tpCall[c].at, tpCall[c].body, tpCall[c].vars, "ok")
<1>1. PICK o : o = tpCall[c]
  OBVIOUS
<1>2. PICK r : r = [o EXCEPT !.pc = "over", !.verdict = "ok", !.got = x]
  OBVIOUS
<1>3. r = TpRec("over", o.at, o.inode, o.body, o.vars, x, "ok", o.late)
  <2>1. IsTp(o)
    BY <1>1, TpAt
  <2> QED
    BY <1>2, <2>1, TpPcVerdictGot
<1>4. TpMoves(c, r)
  BY <1>1, <1>2
<1> QED
  BY <1>1, <1>3, <1>4 DEF TpTo, TpRec, IsTp

\* A write of c leaves f as `size` says: a mixture only if another had it.
LeavesText(c, f, size) ==
  /\ rendered' = [rendered EXCEPT ![f] = Statements(c, f, size)]
  /\ size = "mixed" => rendered[f].hands # {c}

\* Where a write of a rendered file leads: it is written to its end, or a part
\* of it is, or none and the disk is full.
WriteLeads(c, r, f) ==
  \/ r.pc \in {"over", "out"} /\ \E size \in {"whole", "mixed"} : LeavesText(c, f, size)
  \/ r = tpCall[c] /\ \E size \in {"part", "mixed"} : LeavesText(c, f, size)
  \/ r.pc \in {"over", "out"} /\ rendered' = rendered /\ TpFault("full")

LEMMA WriteOutLeads ==
  ASSUME TpInv, NEW c \in TpJobs, WriteOut(c), NEW f,
         f = IF tpCall[c].pc = "write audit" THEN AuditFile(c) ELSE OutFile
  PROVE  \E r : StepsTo(c, r) /\ WriteLeads(c, r, f)
<1>1. tpCall[c].pc \in {"write audit", "write out"} /\ SameTime
  BY DEF WriteOut
<1>2. Job(c).tool = "render" /\ TpCallOK(c, tpCall[c])
  BY <1>1, TpAt
<1>3. tpCall[c].vars # "none" /\ (Reads(tpCall[c].body) => tpCall[c].vars # "blank")
  BY <1>1, <1>2 DEF TpCallOK, RenderOK
<1>4. CASE /\ TpGoes(c, "out")
           /\ \/ \E size \in {"whole", "mixed"} : LeavesText(c, f, size)
              \/ rendered' = rendered /\ TpFault("full")
  <2>1. PICK r : StepsTo(c, r) /\ r.pc = "out"
    BY <1>1, <1>2, <1>3, <1>4, TpRenderGoes
  <2> QED
    BY <1>4, <2>1 DEF WriteLeads
<1>5. CASE /\ TpMoves(c, [tpCall[c] EXCEPT !.pc = "over", !.verdict = "ok", !.got = Statements(c, f, "whole")])
           /\ \E size \in {"whole", "mixed"} : LeavesText(c, f, size)
  <2>1. PICK x : x = Statements(c, f, "whole")
    OBVIOUS
  <2>2. TpMoves(c, [tpCall[c] EXCEPT !.pc = "over", !.verdict = "ok", !.got = x])
    BY <1>5, <2>1
  <2>3. PICK r : TpTo(c, r, "over", tpCall[c].at, tpCall[c].body, tpCall[c].vars, "ok")
    BY <2>2, TpEndsRight
  <2>4. RenderOK(c, r)
    BY <1>1, <1>2, <1>3, <2>3 DEF TpTo, TpCallOK, RenderOK, OwnVars
  <2>5. TpCallOK(c, r)
    BY <1>1, <1>2, <2>3, <2>4 DEF TpTo, TpCallOK, RightPlace
  <2>6. StepsTo(c, r) /\ r.pc = "over"
    BY <1>1, <2>3, <2>5 DEF TpTo, StepsTo, Kept
  <2> QED
    BY <1>5, <2>6 DEF WriteLeads
<1>6. CASE tpCall' = tpCall /\ \E size \in {"part", "mixed"} : LeavesText(c, f, size)
  <2>1. PICK r : r = tpCall[c]
    OBVIOUS
  <2>2. TpMoves(c, r)
    BY <1>6, <2>1 DEF TpMoves, TpInv, TpWorldOK
  <2>3. StepsTo(c, r)
    BY <1>1, <1>2, <2>1, <2>2 DEF StepsTo, Kept
  <2> QED
    BY <1>6, <2>1, <2>3 DEF WriteLeads
<1>7. CASE TpEnds(c, "warned") /\ rendered' = rendered /\ TpFault("full")
  <2>1. PICK r : r.pc = "over" /\ StepsTo(c, r)
    BY <1>1, <1>2, <1>7, TpEndKeeps
  <2> QED
    BY <1>7, <2>1 DEF WriteLeads
<1> QED
  BY <1>4, <1>5, <1>6, <1>7 DEF WriteOut, LeavesText

\* A render writes its file.
LEMMA WriteOutKeeps ==
  ASSUME TpInv, NEW c \in TpJobs, WriteOut(c)
  PROVE  TpInv'
<1>1. tpCall[c].pc \in {"write audit", "write out"} /\ script' = script /\ SameStore /\ SameTime
  BY DEF WriteOut
<1>2. Job(c).tool = "render"
  BY <1>1, TpAt
<1>3. PICK f : f = IF tpCall[c].pc = "write audit" THEN AuditFile(c) ELSE OutFile
  OBVIOUS
<1>4. PICK r : StepsTo(c, r) /\ WriteLeads(c, r, f)
  BY <1>3, WriteOutLeads
<1>c. r.pc \in {"over", "out"} \/ r = tpCall[c]
  BY <1>4 DEF WriteLeads
<1>5. RenderedOK'
  <2>1. tpCall'[c] = r /\ TpJobs' = TpJobs /\ (TpFault("full")' <=> TpFault("full")) /\ r.at = tpCall[c].at
    BY <1>1, <1>4, TpStands DEF TpFault
  <2>2. AuditFile(c)' = AuditFile(c) /\ OutFile' = OutFile
    BY <1>4, <2>1, TpStands DEF AuditFile, RunDir, OutFile
  <2>3. \A g : WritesTo(c, g) \/ WritesTo(c, g)' => g = f
    BY <1>1, <1>3, <1>c, <2>1, <2>2 DEF WritesTo
  <2>4. CASE rendered' = rendered /\ TpFault("full")
    BY <1>1, <1>4, <1>c, <2>4, RenderedStays
  <2>5. ASSUME NEW size \in {"whole", "part", "mixed"}, LeavesText(c, f, size), size = "part" => r = tpCall[c]
        PROVE  RenderedOK'
    <3>1. DOMAIN rendered' = DOMAIN rendered /\ \A g \in DOMAIN rendered \ {f} : rendered'[g] = rendered[g]
      BY <2>5 DEF LeavesText
    <3>2. ASSUME f \in DOMAIN rendered'
          PROVE  TextOK(rendered[f], f)'
      <4>1. rendered'[f].size = size /\ rendered'[f].hands = rendered[f].hands
        BY <2>5, <3>1, <3>2 DEF LeavesText, Statements
      <4>2. PICK x : x = rendered[f]
        OBVIOUS
      <4>3. TextOK(x, f)
        BY <3>1, <3>2, <4>2 DEF TpInv, RenderedOK
      <4>4. WritesTo(c, f)
        BY <1>1, <1>3 DEF WritesTo
      <4>5. c \in x.hands
        BY <4>3, <4>4 DEF TextOK
      <4>6. size = "mixed" => \E d, e \in x.hands : d # e
        BY <2>5, <4>2, <4>5 DEF LeavesText
      <4>7. size = "part" => WritesTo(c, f)'
        BY <2>1, <2>2, <2>5, <4>4 DEF WritesTo
      <4>8. ASSUME NEW d \in TpJobs, WritesTo(d, f)'
            PROVE  d \in x.hands
        <5>1. CASE d # c
          <6>1. tpCall'[d] = tpCall[d]
            BY <1>4, <5>1, TpStands
          <6>2. AuditFile(d)' = AuditFile(d)
            BY <1>4, <6>1, TpStands DEF AuditFile, RunDir
          <6> QED
            BY <2>2, <4>3, <4>8, <6>1, <6>2 DEF WritesTo, TextOK
        <5> QED
          BY <4>5, <5>1
      <4> QED
        BY <2>1, <4>1, <4>2, <4>6, <4>7, <4>8 DEF TextOK
    <3> QED
      BY <1>4, <2>3, <3>1, <3>2, RenderedMoves
  <2> QED
    BY <1>4, <2>4, <2>5 DEF WriteLeads
<1>6. r.pc # "over" => tpCall[c].pc # "over"
  BY <1>1
<1>7. \A d \in TpJobs : ScriptOK(d)'
  BY <1>1, <1>4, <1>c, ScriptsStay
<1> QED
  BY <1>1, <1>2, <1>4, <1>5, <1>6, <1>7, TpRenderStep

\* A step of c to r, which has read x while ds wrote.
TpHasRead(c, r, x, ds) ==
  TpMoves(c, r) /\ IsTp(r) /\ r.pc = "over" /\ r.verdict = "ok" /\ r.got = x /\ r.late = ds

\* A deployment that has read its statements.
LEMMA TpDeploys ==
  ASSUME TpInv, NEW c \in TpJobs, NEW x, NEW ds,
         TpMoves(c, [tpCall[c] EXCEPT !.pc = "over", !.verdict = "ok", !.got = x, !.late = ds])
  PROVE  \E r : TpHasRead(c, r, x, ds)
<1>1. PICK o : o = tpCall[c]
  OBVIOUS
<1>2. PICK q : q = [o EXCEPT !.pc = "over", !.verdict = "ok", !.got = x]
  OBVIOUS
<1>3. q = TpRec("over", o.at, o.inode, o.body, o.vars, x, "ok", o.late)
  <2>1. IsTp(o)
    BY <1>1, TpAt
  <2> QED
    BY <1>2, <2>1, TpPcVerdictGot
<1>4. PICK r : r = [q EXCEPT !.late = ds]
  OBVIOUS
<1>5. r = TpRec("over", o.at, o.inode, o.body, o.vars, x, "ok", ds)
  BY <1>3, <1>4 DEF TpRec
<1>6. TpMoves(c, r)
  BY <1>1, <1>2, <1>4
<1> QED
  BY <1>5, <1>6 DEF TpHasRead, TpRec, IsTp

\* A deployment reads a rendered file: who is writing it is seen.
LEMMA DeployKeeps ==
  ASSUME TpInv, NEW c \in TpJobs, Deploy(c)
  PROVE  TpInv'
<1>1. tpCall[c].pc = "idle" /\ Job(c).tool = "deploy" /\ SameStore /\ SameRuns /\ SameTime
  BY DEF Deploy
<1>2. CASE TpEnds(c, "error")
  BY <1>1, <1>2, TpEndQuiet
<1>3. CASE ~TpEnds(c, "error")
  <2>1. PICK f \in DOMAIN rendered :
          TpMoves(c, [tpCall[c] EXCEPT !.pc = "over", !.verdict = "ok", !.got = rendered[f],
                                       !.late = {d \in DOMAIN tpCall : WritesTo(d, f)}])
          /\ rendered[f].size # "blank"
    BY <1>3 DEF Deploy
  <2>2. PICK ds : ds = {d \in DOMAIN tpCall : WritesTo(d, f)}
    OBVIOUS
  <2>3. PICK x : x = rendered[f]
    OBVIOUS
  <2>4. TpMoves(c, [tpCall[c] EXCEPT !.pc = "over", !.verdict = "ok", !.got = x, !.late = ds])
    BY <2>1, <2>2, <2>3
  <2>5. PICK r : TpHasRead(c, r, x, ds)
    BY <2>4, TpDeploys
  <2>6. r.pc = "over" /\ r.got = x /\ r.verdict = "ok" /\ r.late = ds /\ IsTp(r)
    BY <2>5 DEF TpHasRead
  <2>7. Pushable(r)
    <3>1. TextOK(x, f)
      BY <2>3 DEF TpInv, RenderedOK
    <3>2. CASE \E d \in TpJobs : WritesTo(d, f)
      BY <2>2, <2>6, <3>2 DEF Pushable, TpInv, TpWorldOK
    <3>3. CASE x.size \in {"whole", "mixed"} \/ TpFault("full")
      BY <2>6, <3>1, <3>3 DEF TextOK, Pushable
    <3> QED
      BY <3>1, <3>2, <3>3 DEF TextOK
  <2>8. ds \subseteq TpJobs
    BY <2>2 DEF TpInv, TpWorldOK
  <2>9. TpCallOK(c, r)
    BY <1>1, <2>6, <2>7, <2>8 DEF TpCallOK, RightPlace
  <2>10. StepsTo(c, r) /\ ~Asks(c) /\ ~Wants(c, r)
    BY <1>1, <2>5, <2>6, <2>9 DEF TpHasRead, StepsTo, Kept, Asks, Wants
  <2> QED
    BY <1>1, <2>6, <2>10, TpQuiet
<1> QED
  BY <1>2, <1>3

(***************************************************************************)
(* The theorems of the template store                                       *)
(***************************************************************************)
\* At first nobody is at work and nothing is rendered.
LEMMA TpInitOK ==
  ASSUME TpInit
  PROVE  TpInv
<1>1. /\ tpSetting \in TpSettings /\ tpNow = 1 /\ tpCall = [c \in TpJobs |-> NoTpCall]
      /\ DOMAIN rendered = {} /\ \A p \in DOMAIN tpDisk : tpDisk[p] = p
      /\ DOMAIN text = Range(tpDisk) \cup TpCallers
  BY DEF TpInit, TpJobs
<1>2. NoTpCall.pc = "idle" /\ NoTpCall.verdict = "none" /\ NoTpCall.late = {} /\ IsTp(NoTpCall)
  BY DEF NoTpCall, IsTp, TpRec
<1>3. TpWorldOK
  BY <1>1 DEF TpWorldOK, Range
<1>4. RenderedOK
  BY <1>1 DEF RenderedOK
<1>5. \A c \in TpJobs : ~Busy(c) /\ ~Wants(c, tpCall[c]) /\ ScriptOK(c)
  BY <1>1, <1>2 DEF Busy, Wants, ScriptOK
<1>6. ASSUME NEW c \in TpJobs
      PROVE  TpCallOK(c, tpCall[c])
  <2>1. Job(c).tool \in TpTools
    BY <1>1, TpGiven DEF Job, TpJobs
  <2>2. RenderOK(c, NoTpCall)
    BY <1>2 DEF RenderOK
  <2>3. RightPlace(Job(c).tool, NoTpCall.pc)
    BY <1>2, <2>1 DEF RightPlace, TpTools
  <2> QED
    BY <1>1, <1>2, <2>2, <2>3 DEF TpCallOK
<1> QED
  BY <1>3, <1>4, <1>5, <1>6 DEF TpInv, MetOK, FreeOK

\* The invariant of the template store holds in every behaviour: it is
\* inductive, step by step over the calls, the clock and the editor.
THEOREM TpInvariance == TpSpec => []TpInv
<1>1. TpInit => TpInv
  BY TpInitOK
<1>2. TpInv /\ [TpNext]_tpVars => TpInv'
  <2>1. SUFFICES ASSUME TpInv, [TpNext]_tpVars
                 PROVE  TpInv'
    OBVIOUS
  <2>2. CASE TpTick \/ Editor \/ UNCHANGED tpVars
    BY <2>1, <2>2, TpOutsideKeeps
  <2>3. ASSUME NEW c \in DOMAIN tpCall, TpStep(c)
        PROVE  TpInv'
    <3>1. c \in TpJobs
      BY <2>1 DEF TpInv, TpWorldOK
    <3>2. CASE SaveCheck(c) \/ RenameCheck(c) \/ DeleteCheck(c)
      BY <2>1, <3>1, <3>2, ChecksKeep
    <3>3. CASE SaveOpen(c) \/ SaveWrite(c) \/ SaveReplace(c) \/ Move(c) \/ Unlink(c) \/ StatTemplate(c)
      BY <2>1, <3>1, <3>3, SaveOpenKeeps, SaveWriteKeeps, TpTakesKeeps, UnlinkKeeps, StatKeeps
    <3>4. CASE ReadCheck(c) \/ ReadTemplate(c) \/ StartRender(c) \/ WriteScript(c) \/ Exec(c)
      BY <2>1, <3>1, <3>4, ReadCheckKeeps, ReadTemplateKeeps, StartRenderKeeps, WriteScriptKeeps, ExecKeeps
    <3>5. CASE Render(c) \/ OpenOut(c) \/ WriteOut(c) \/ Deploy(c)
      BY <2>1, <3>1, <3>5, RenderKeeps, OpenOutKeeps, WriteOutKeeps, DeployKeeps
    <3> QED
      BY <2>3, <3>2, <3>3, <3>4, <3>5 DEF TpStep
  <2> QED
    BY <2>1, <2>2, <2>3 DEF TpNext
<1> QED
  BY <1>1, <1>2, PTL DEF TpSpec

\* The variables of the template store have their types.
THEOREM TpTypeCorrect == TpSpec => []TpTypeOK
<1>1. TpInv => TpTypeOK
  <2>1. SUFFICES ASSUME TpInv
                 PROVE  TpTypeOK
    OBVIOUS
  <2>2. tpNow \in Nat /\ Range(tpDisk) \subseteq DOMAIN text /\ DOMAIN tpCall = TpJobs
    BY <2>1 DEF TpInv, TpWorldOK, Range
  <2>3. \A f \in DOMAIN rendered : rendered[f].size \in {"blank", "part", "whole", "mixed"}
    BY <2>1 DEF TpInv, RenderedOK, TextOK
  <2>4. ASSUME NEW c \in TpJobs
        PROVE  /\ tpCall[c].pc \in {"idle", "open", "write", "replace", "stat", "unlink", "move", "read", "template",
                                    "render", "script", "exec", "audit", "out", "write audit", "write out", "over"}
               /\ tpCall[c].verdict \in {"none", "ok", "error", "raised", "preflight", "warned"}
               /\ tpCall[c].late \subseteq TpJobs
    <3>1. TpCallOK(c, tpCall[c]) /\ Job(c).tool \in TpTools
      BY <2>1, TpAt
    <3>2. RightPlace(Job(c).tool, tpCall[c].pc)
      BY <3>1 DEF TpCallOK
    <3>3. tpCall[c].pc \in {"idle", "open", "write", "replace", "stat", "unlink", "move", "read", "template",
                            "render", "script", "exec", "audit", "out", "write audit", "write out", "over"}
      BY <3>1, <3>2 DEF RightPlace, TpTools
    <3> QED
      BY <3>1, <3>3 DEF TpCallOK
  <2> QED
    BY <2>2, <2>3, <2>4 DEF TpTypeOK
<1> QED
  BY <1>1, TpInvariance, PTL

\* A render that answers ok is of its caller's variables, and a deployment
\* pushes the whole of one render, but for the overlaps the model names.
THEOREM TemplatesSound == TpSpec => []TemplatesHold
<1>1. TpInv => TemplatesHold
  <2>1. SUFFICES ASSUME TpInv, NEW c \in DOMAIN tpCall, tpCall[c].verdict = "ok"
                 PROVE  /\ Job(c).tool = "render" =>
                             /\ tpCall[c].vars = c \/ SameRun(c) \/ tpCall[c].vars = "cut"
                             /\ Reads(tpCall[c].body) => tpCall[c].vars \notin {"none", "blank"}
                             /\ Parses(tpCall[c].body)
                        /\ Job(c).tool = "deploy" => Pushable(tpCall[c])
    BY DEF TemplatesHold, RendersItsOwn, DeploysWhole, Pushable
  <2>2. TpCallOK(c, tpCall[c])
    BY <2>1, TpAt DEF TpInv, TpWorldOK
  <2> QED
    BY <2>1, <2>2 DEF TpCallOK, RenderOK, OwnVars
<1> QED
  BY <1>1, TpInvariance, PTL

\* A template that was there when a save without overwrite or a rename looked
\* is replaced by none of them.
THEOREM TemplatesKeep == TpSpec => TemplatesStay
<1>1. TpInv => NothingOverwritten
  <2>1. SUFFICES ASSUME TpInv, NEW c \in DOMAIN tpCall, tpCall[c].pc \in {"replace", "move"},
                        Job(c).tool = "save" => ~Job(c).over, Exists(Takes(c))
                 PROVE  \E d \in DOMAIN tpCall \ {c} : d \in tpCall[c].late \/ c \in tpCall[d].late
    BY DEF NothingOverwritten
  <2>2. c \in TpJobs /\ DOMAIN tpCall = TpJobs
    BY <2>1 DEF TpInv, TpWorldOK
  <2>3. Wants(c, tpCall[c])
    BY <2>1, <2>2, TpAt DEF Wants
  <2> QED
    BY <2>1, <2>2, <2>3 DEF TpInv, FreeOK, Seen
<1> QED
  BY <1>1, TpInvariance, PTL DEF TemplatesStay

\* Both stores keep what they were given.
THEOREM StoresKept == ArSpec /\ TpSpec => StoresKeep
  BY ArchivesKeep, TemplatesKeep DEF StoresKeep

(***************************************************************************)
(* The gate of the gNMI calls                                               *)
(***************************************************************************)
GateTypeOK ==
  /\ clock \in Nat /\ last \in Nat /\ last <= clock
  /\ gate \in [GateThreads -> [pc : {"idle", "sleep"}, wake : Nat, left : Nat]]
  /\ sent \in [GateThreads -> Nat] /\ behind \in [GateThreads -> SUBSET Nat]

\* No call went out after the last one the gate knows; and a sleep ends the
\* interval after each call that had gone out when it began.
GateInv ==
  /\ GateTypeOK
  /\ \A t \in GateThreads : sent[t] <= last
  /\ \A t \in GateThreads : gate[t].pc = "sleep" => \A before \in behind[t] : gate[t].wake >= before + Interval

\* A thread that arrives sleeps until the interval after the last call.
LEMMA GateKeeps ==
  ASSUME GateInv, NEW t \in GateThreads, Gate(t)
  PROVE  GateInv'
<1>1. Interval \in Nat /\ clock \in Nat /\ last \in Nat /\ last <= clock
  BY GateAssumption DEF GateInv, GateTypeOK
<1>2. PICK w : w = clock + Wait(clock)
  OBVIOUS
<1>3. w \in Nat /\ w >= last + Interval
  BY <1>1, <1>2 DEF Wait
<1>4. gate' = [gate EXCEPT ![t] = [pc |-> "sleep", wake |-> w, left |-> gate[t].left - 1]]
  BY <1>2 DEF Gate
<1>5. gate[t].left \in Nat /\ gate[t].left > 0
  BY DEF Gate, GateInv, GateTypeOK
<1>6. behind' = [behind EXCEPT ![t] = {sent[u] : u \in GateThreads} \ {0}] /\ UNCHANGED <<clock, last, sent>>
  BY DEF Gate
<1>7. \A b \in {sent[u] : u \in GateThreads} : b \in Nat /\ b <= last
  BY DEF GateInv, GateTypeOK
<1>8. gate' \in [GateThreads -> [pc : {"idle", "sleep"}, wake : Nat, left : Nat]]
  BY <1>3, <1>4, <1>5 DEF GateInv, GateTypeOK
<1>9. behind' \in [GateThreads -> SUBSET Nat]
  BY <1>6, <1>7 DEF GateInv, GateTypeOK
<1>10. ASSUME NEW u \in GateThreads, gate'[u].pc = "sleep", NEW b \in behind'[u]
       PROVE  gate'[u].wake >= b + Interval
  <2>1. CASE u = t
    <3>1. b \in Nat /\ b <= last
      BY <1>6, <1>7, <1>10, <2>1 DEF GateInv, GateTypeOK
    <3>2. gate'[u].wake = w
      BY <1>4, <2>1 DEF GateInv, GateTypeOK
    <3> QED
      BY <1>1, <1>3, <3>1, <3>2
  <2>2. CASE u # t
    BY <1>4, <1>6, <1>10, <2>2 DEF GateInv, GateTypeOK
  <2> QED
    BY <2>1, <2>2
<1> QED
  BY <1>6, <1>8, <1>9, <1>10 DEF GateInv, GateTypeOK

\* A thread whose sleep is over calls.
LEMMA CallKeeps ==
  ASSUME GateInv, NEW t \in GateThreads, Call(t)
  PROVE  GateInv'
<1>1. /\ last' = clock /\ clock' = clock /\ behind' = behind /\ sent' = [sent EXCEPT ![t] = clock]
      /\ gate' = [gate EXCEPT ![t].pc = "idle"] /\ clock \in Nat /\ last <= clock /\ last \in Nat
  BY DEF Call, GateInv, GateTypeOK
<1>2. gate' \in [GateThreads -> [pc : {"idle", "sleep"}, wake : Nat, left : Nat]] /\ gate'[t].pc = "idle"
  BY <1>1 DEF GateInv, GateTypeOK
<1>3. \A u \in GateThreads \ {t} : gate'[u] = gate[u]
  BY <1>1 DEF GateInv, GateTypeOK
<1>4. \A u \in GateThreads : sent'[u] \in Nat /\ sent'[u] <= last'
  BY <1>1 DEF GateInv, GateTypeOK
<1>5. sent' \in [GateThreads -> Nat]
  BY <1>1 DEF GateInv, GateTypeOK
<1> QED
  BY <1>1, <1>2, <1>3, <1>4, <1>5 DEF GateInv, GateTypeOK

\* The invariant of the gate holds in every behaviour.
THEOREM GateInvariance == GateSpec => []GateInv
<1>1. GateInit => GateInv
  BY GateAssumption DEF GateInit, GateInv, GateTypeOK
<1>2. GateInv /\ [GateNext]_gateVars => GateInv'
  <2>1. SUFFICES ASSUME GateInv, [GateNext]_gateVars
                 PROVE  GateInv'
    OBVIOUS
  <2>2. CASE Pass \/ UNCHANGED gateVars
    BY <2>1, <2>2 DEF Pass, gateVars, GateInv, GateTypeOK
  <2>3. CASE \E t \in GateThreads : Gate(t) \/ Call(t)
    BY <2>1, <2>3, GateKeeps, CallKeeps
  <2> QED
    BY <2>1, <2>2, <2>3 DEF GateNext
<1> QED
  BY <1>1, <1>2, PTL DEF GateSpec

\* A call of gNMI keeps the interval behind every call that had gone out when
\* it arrived, however many threads pass the gate.
THEOREM GatePaces == GateSpec => PacedBehindThePast
<1>1. GateInv /\ [GateNext]_gateVars =>
        \A t \in GateThreads : sent'[t] # sent[t] => \A before \in behind[t] : sent'[t] >= before + Interval
  <2>1. SUFFICES ASSUME GateInv, [GateNext]_gateVars, NEW t \in GateThreads, sent'[t] # sent[t],
                        NEW before \in behind[t]
                 PROVE  sent'[t] >= before + Interval
    OBVIOUS
  <2>2. PICK u \in GateThreads : Call(u)
    BY <2>1 DEF GateNext, Pass, Gate, gateVars
  <2>3. t = u /\ sent'[t] = clock
    BY <2>1, <2>2 DEF Call, GateInv, GateTypeOK
  <2>4. gate[t].pc = "sleep" /\ clock >= gate[t].wake
    BY <2>2, <2>3 DEF Call
  <2>5. gate[t].wake \in Nat /\ clock \in Nat /\ before \in Nat /\ Interval \in Nat
    BY <2>1, GateAssumption DEF GateInv, GateTypeOK
  <2>6. gate[t].wake >= before + Interval
    BY <2>1, <2>4 DEF GateInv
  <2> QED
    BY <2>3, <2>4, <2>5, <2>6
<1> QED
  BY <1>1, GateInvariance, PTL DEF GateSpec, PacedBehindThePast

(***************************************************************************)
(* The mounts on the controllers                                            *)
(***************************************************************************)
RcOf == DOMAIN rcSetting.orders

\* A record of a call has these fields.
RcRec(pc, ep, name, host, doc, verdict, saw, bare) ==
  [pc |-> pc, ep |-> ep, name |-> name, host |-> host, doc |-> doc, verdict |-> verdict, saw |-> saw, bare |-> bare]
IsRc(k) == k = RcRec(k.pc, k.ep, k.name, k.host, k.doc, k.verdict, k.saw, k.bare)

\* The chassis that a mount of this name on this controller is of: the one it
\* was given before the first call, and the one of each add.
GivenTo(ep, name) == {rcSetting.device[m.dev] : m \in {m \in rcSetting.mounts : m.ep = ep /\ m.name = name}}
AddsOf(ep, name) == {c \in RcOf : /\ Ask(c).tool = "add" /\ Ask(c).ep = ep /\ Ask(c).name = name
                                  /\ Ask(c).dev \in DOMAIN rcSetting.device}
Owners(ep, name) == GivenTo(ep, name) \cup {Meant(Ask(c).dev) : c \in AddsOf(ep, name)}

EntryOK(e) == e.ep # "none" /\ e.name # "none" /\ e.dev \in Owners(e.ep, e.name)
Firm == AddressesFirm /\ NamesFirm

\* A mount is told the address of its chassis, and has a session with no other.
NodeOK(n) ==
  /\ n = Node(n.ep, n.name, n.host, n.with, n.state)
  /\ n.state \in {"connecting", "connected", "unable"} /\ (n.state = "connected" => n.with # "none")
  /\ Firm => \E b \in Owners(n.ep, n.name) : n.host = rcSetting.address[b] /\ n.with \in {"none", b}
NodesOK ==
  /\ \A n \in odl : NodeOK(n)
  /\ \A m, n \in odl : m.ep = n.ep /\ m.name = n.name => m = n

Requests == RcWrites \cup {"get", "keys"}

\* Where the calls of each tool are.
RcPlaces(tool) ==
  IF tool = "add" THEN {"idle", "mount", "wait", "load", "open", "save", "over"}
  ELSE IF tool = "remove" THEN {"idle", "load", "open", "save", "over"}
  ELSE IF tool = "status" THEN {"idle", "over"} ELSE {"idle", "send", "over"}

\* What an add or a remove is at is what it was asked for.
AtItsMount(c, k) == k.ep = Ask(c).ep /\ k.name = Ask(c).name /\ k.ep \in rcSetting.controllers
ChangeOK(c, k) ==
  /\ Ask(c).tool \in {"add", "remove"} /\ (k.pc \notin {"idle", "over"} \/ k.name # "none") => AtItsMount(c, k)
  /\ \A e \in k.doc : EntryOK(e)
  /\ Ask(c).tool = "add" =>
       /\ k.pc \notin {"idle", "over"} => Ask(c).dev \in DOMAIN rcSetting.device
       /\ k.pc = "mount" /\ AddressesFirm => k.host = rcSetting.address[Meant(Ask(c).dev)]
       /\ k.verdict = "ok" => k.name # "none"
       /\ k.pc \in {"load", "open", "save"} => Ask(c).persist
  /\ Ask(c).tool = "remove" /\ k.pc \in {"load", "open", "save"} => Ask(c).persist

\* What a request is sent to is a mount of its device.
RequestOK(c, k) ==
  /\ k.pc = "send" /\ Ask(c).dev # "none" /\ Ask(c).name = "none" =>
       IF k.bare THEN Ask(c).ep # "none" ELSE Meant(Ask(c).dev) \in Owners(k.ep, k.name)
  /\ k.pc # "over" => k.saw = "none"
  /\ Firm /\ Ask(c).dev # "none" /\ Ask(c).name = "none" => k.saw \in OwnBox(c) \cup {"none"}
AppliedOK(c, k, a) ==
  /\ k.pc # "over" \/ k.verdict \in {"dry_run", "raised"} => a = {}
  /\ a = {} \/ \E x \in a : a = {x}
  /\ k.verdict = "ok" /\ Ask(c).tool \in RcWrites => a # {}
  /\ Firm /\ Ask(c).dev # "none" /\ Ask(c).name = "none" => a \subseteq OwnBox(c)

RcCallOK(c, k, a) ==
  /\ IsRc(k) /\ k.pc \in RcPlaces(Ask(c).tool)
  /\ k.verdict \in {"none", "ok", "error", "raised", "dry_run", "killed"}
  /\ k.pc # "over" => k.verdict \in {"none", "error"}
  /\ k.pc # "over" /\ Ask(c).tool # "remove" => k.verdict = "none"
  /\ ChangeOK(c, k)
  /\ Ask(c).tool \in Requests => RequestOK(c, k) /\ AppliedOK(c, k, a)

RcWorldOK ==
  /\ rcSetting \in RcSettings /\ overlap \in BOOLEAN
  /\ DOMAIN boxAddress = DOMAIN rcSetting.address /\ (rcSetting.swaps = 0 => boxAddress = rcSetting.address)
  /\ \A x, y \in DOMAIN boxAddress : boxAddress[x] = boxAddress[y] => x = y
  /\ endpoints = [mounts |-> endpoints.mounts, cut |-> endpoints.cut]
  /\ \A e \in endpoints.mounts : EntryOK(e)
  /\ rcCall = [c \in RcOf |-> rcCall[c]] /\ applied = [c \in RcOf |-> applied[c]]

\* No failure, and no two calls at the file or at a mount at a time.
Calm == rcSetting.faults \subseteq {"drop"} /\ ~overlap

\* A mount that an entry names is there, or its remove has yet to come to the
\* file or was told to leave it alone.
Leaves(c, ep, name) ==
  Removes(c, ep, name) /\ (~Ask(c).persist \/ rcCall[c].pc \in {"load", "open", "save"})
Stands(ep, name) == NodesAt(ep, name) # {} \/ \E c \in RcOf : Leaves(c, ep, name)

AloneAtFile ==
  /\ \A c, d \in RcOf : Changing(c) /\ Changing(d) => c = d
  /\ endpoints.cut => \E c \in RcOf : rcCall[c].pc = "save"
OwnEntry == \A c \in RcOf : Changing(c) =>
  IF Ask(c).tool = "add" THEN InFile(rcCall[c].doc, rcCall[c].ep, rcCall[c].name)
  ELSE ~InFile(rcCall[c].doc, rcCall[c].ep, rcCall[c].name)
EntriesStand ==
  /\ \A e \in endpoints.mounts : Stands(e.ep, e.name)
  /\ \A c \in RcOf : Changing(c) => \A e \in rcCall[c].doc : Stands(e.ep, e.name)
FiledStand == \A c \in RcOf :
  Ask(c).tool = "add" /\ rcCall[c].pc \in {"load", "open", "save"} => NodesAt(rcCall[c].ep, rcCall[c].name) # {}
InEach(ep, name) ==
  /\ ~endpoints.cut => InFile(endpoints.mounts, ep, name)
  /\ \A d \in RcOf : Changing(d) => InFile(rcCall[d].doc, ep, name)
AddedAreFiled == \A c \in RcOf :
  Ask(c).tool = "add" /\ rcCall[c].verdict = "ok" /\ Ask(c).persist =>
    InEach(rcCall[c].ep, rcCall[c].name) \/ \E d \in RcOf : Removes(d, rcCall[c].ep, rcCall[c].name)
FileOK == Calm => AloneAtFile /\ OwnEntry /\ EntriesStand /\ FiledStand /\ AddedAreFiled

RcInv ==
  /\ RcWorldOK /\ NodesOK /\ FileOK
  /\ \A c \in RcOf : RcCallOK(c, rcCall[c], applied[c])

\* What the assumption says of a setting.
LEMMA RcGiven ==
  ASSUME NEW s \in RcSettings
  PROVE  /\ \A c \in DOMAIN s.orders :
              s.orders[c].tool \in RcTools /\ (s.orders[c].tool \in {"add", "remove"} => s.orders[c].name # "none")
         /\ "none" \notin s.controllers /\ "none" \notin DOMAIN s.address
         /\ \A x, y \in DOMAIN s.address : s.address[x] = s.address[y] => x = y
         /\ \A x \in DOMAIN s.device :
              /\ s.device[x] \in DOMAIN s.address
              /\ s.device[x] \in DOMAIN s.device => s.device[s.device[x]] = s.device[x]
         /\ \A m \in s.mounts : m.ep \in s.controllers /\ m.name # "none" /\ m.dev \in DOMAIN s.device
         /\ \A m, n \in s.mounts : m.ep = n.ep /\ m.name = n.name => m = n
  BY RcAssumption DEF RcAssumption, RcSettingsOK, IsInjective

\* What the settings fix is fixed.
LEMMA RcFixed ==
  ASSUME rcSetting' = rcSetting, DOMAIN rcCall' = DOMAIN rcCall
  PROVE  /\ RcOf' = RcOf /\ \A d : Ask(d)' = Ask(d) /\ OwnBox(d)' = OwnBox(d)
         /\ \A x : Meant(x)' = Meant(x)
         /\ \A ep, name : Owners(ep, name)' = Owners(ep, name)
         /\ AddressesFirm' <=> AddressesFirm
         /\ NamesFirm' <=> NamesFirm
         /\ Firm' <=> Firm
<1>1. RcOf' = RcOf /\ \A d : Ask(d)' = Ask(d)
  BY DEF RcOf, Ask
<1>2. \A x : Meant(x)' = Meant(x)
  BY DEF Meant
<1>3. \A d : OwnBox(d)' = OwnBox(d)
  BY <1>1, <1>2 DEF OwnBox
<1>4. \A ep, name : GivenTo(ep, name)' = GivenTo(ep, name)
  BY DEF GivenTo
<1>5. \A ep, name : AddsOf(ep, name)' = AddsOf(ep, name)
  BY <1>1 DEF AddsOf
<1>6. \A ep, name : Owners(ep, name)' = Owners(ep, name)
  BY <1>1, <1>2, <1>4, <1>5 DEF Owners
<1>7. AddressesFirm' <=> AddressesFirm
  BY <1>1 DEF AddressesFirm
<1>8. NamesFirm' <=> NamesFirm
  BY <1>1, <1>2 DEF NamesFirm
<1> QED
  BY <1>1, <1>2, <1>3, <1>6, <1>7, <1>8 DEF Firm

\* What is right of an entry, a mount and a call stays right.
LEMMA RcStillOK ==
  ASSUME rcSetting' = rcSetting, DOMAIN rcCall' = DOMAIN rcCall
  PROVE  /\ \A e : EntryOK(e) => EntryOK(e)'
         /\ \A n : NodeOK(n) => NodeOK(n)'
         /\ \A c, k, a : RcCallOK(c, k, a) => RcCallOK(c, k, a)'
<1>1. /\ \A d : Ask(d)' = Ask(d) /\ OwnBox(d)' = OwnBox(d)
      /\ \A x : Meant(x)' = Meant(x)
      /\ \A ep, name : Owners(ep, name)' = Owners(ep, name)
      /\ AddressesFirm' <=> AddressesFirm
      /\ Firm' <=> Firm
  BY RcFixed
<1>2. \A e : EntryOK(e) => EntryOK(e)'
  BY <1>1 DEF EntryOK
<1>3. \A n : NodeOK(n) => NodeOK(n)'
  BY <1>1 DEF NodeOK, Node
<1>4. ASSUME NEW c, NEW k, NEW a, RcCallOK(c, k, a)
      PROVE  RcCallOK(c, k, a)'
  <2>1. ChangeOK(c, k)'
    <3>1. ChangeOK(c, k)
      BY <1>4 DEF RcCallOK
    <3>2. \A e \in k.doc : EntryOK(e)'
      BY <1>2, <3>1 DEF ChangeOK
    <3> QED
      BY <1>1, <3>1, <3>2 DEF ChangeOK, AtItsMount
  <2>2. Ask(c).tool \in Requests => RequestOK(c, k)'
    BY <1>1, <1>4 DEF RcCallOK, RequestOK
  <2>3. Ask(c).tool \in Requests => AppliedOK(c, k, a)'
    BY <1>1, <1>4 DEF RcCallOK, AppliedOK
  <2>4. IsRc(k)'
    BY <1>4 DEF RcCallOK, IsRc, RcRec
  <2>5. Requests' = Requests /\ RcPlaces(Ask(c).tool)' = RcPlaces(Ask(c).tool)
    BY <1>1 DEF Requests, RcPlaces, RcWrites
  <2> QED
    BY <1>1, <1>4, <2>1, <2>2, <2>3, <2>4, <2>5 DEF RcCallOK
<1> QED
  BY <1>2, <1>3, <1>4

\* Where names are firm a mount is of one chassis.
LEMMA OwnersAreOne ==
  ASSUME rcSetting \in RcSettings, DOMAIN rcCall = RcOf, NamesFirm, NEW ep, NEW name,
         NEW x \in Owners(ep, name), NEW y \in Owners(ep, name)
  PROVE  x = y
<1>1. \A m \in rcSetting.mounts : rcSetting.device[m.dev] = Meant(m.dev)
  BY RcGiven DEF Meant
<1>2. ASSUME NEW u \in GivenTo(ep, name), NEW v \in GivenTo(ep, name)
      PROVE  u = v
  BY <1>2, RcGiven DEF GivenTo
<1>3. ASSUME NEW u \in GivenTo(ep, name), NEW d \in AddsOf(ep, name)
      PROVE  u = Meant(Ask(d).dev)
  BY <1>1, <1>3 DEF GivenTo, AddsOf, NamesFirm
<1>4. ASSUME NEW c \in AddsOf(ep, name), NEW d \in AddsOf(ep, name)
      PROVE  Meant(Ask(c).dev) = Meant(Ask(d).dev)
  BY <1>4 DEF AddsOf, NamesFirm
<1> QED
  BY <1>2, <1>3, <1>4 DEF Owners

\* An owner is a chassis, which is what it means itself.
LEMMA OwnersAreBoxes ==
  ASSUME rcSetting \in RcSettings, NEW ep, NEW name, NEW x \in Owners(ep, name)
  PROVE  x \in DOMAIN rcSetting.address /\ Meant(x) = x
<1>1. PICK z \in DOMAIN rcSetting.device : x = rcSetting.device[z]
  BY RcGiven DEF Owners, GivenTo, AddsOf, Meant
<1> QED
  BY <1>1, RcGiven DEF Meant

\* Call c is k from here on.
RcMoves(c, k) == rcCall' = [rcCall EXCEPT ![c] = k]

\* The fields of a record, and that it is one.
LEMMA RcFields ==
  ASSUME NEW p, NEW e, NEW n, NEW h, NEW d, NEW v, NEW s, NEW b, NEW k, k = RcRec(p, e, n, h, d, v, s, b)
  PROVE  /\ IsRc(k) /\ k.pc = p /\ k.ep = e /\ k.name = n /\ k.host = h /\ k.doc = d /\ k.verdict = v
         /\ k.saw = s /\ k.bare = b
  BY DEF IsRc, RcRec

\* A call goes on.
LEMMA RcPc ==
  ASSUME NEW o, IsRc(o), NEW pc
  PROVE  [o EXCEPT !.pc = pc] = RcRec(pc, o.ep, o.name, o.host, o.doc, o.verdict, o.saw, o.bare)
  BY DEF IsRc, RcRec

\* A call ends.
LEMMA RcPcVerdict ==
  ASSUME NEW o, IsRc(o), NEW pc, NEW v
  PROVE  [o EXCEPT !.pc = pc, !.verdict = v] = RcRec(pc, o.ep, o.name, o.host, o.doc, v, o.saw, o.bare)
<1>1. PICK q1 : q1 = [o EXCEPT !.pc = pc]
  OBVIOUS
<1>2. q1 = RcRec(pc, o.ep, o.name, o.host, o.doc, o.verdict, o.saw, o.bare)
  BY <1>1 DEF IsRc, RcRec
<1>3. PICK q2 : q2 = [q1 EXCEPT !.verdict = v]
  OBVIOUS
<1>4. q2 = RcRec(pc, o.ep, o.name, o.host, o.doc, v, o.saw, o.bare)
  BY <1>3, <1>2 DEF IsRc, RcRec
<1> QED
  BY <1>1, <1>2, <1>3, <1>4

\* A read ends with what it saw.
LEMMA RcPcVerdictSaw ==
  ASSUME NEW o, IsRc(o), NEW pc, NEW v, NEW s
  PROVE  [o EXCEPT !.pc = pc, !.verdict = v, !.saw = s] = RcRec(pc, o.ep, o.name, o.host, o.doc, v, s, o.bare)
<1>1. PICK q1 : q1 = [o EXCEPT !.pc = pc]
  OBVIOUS
<1>2. q1 = RcRec(pc, o.ep, o.name, o.host, o.doc, o.verdict, o.saw, o.bare)
  BY <1>1 DEF IsRc, RcRec
<1>3. PICK q2 : q2 = [q1 EXCEPT !.verdict = v]
  OBVIOUS
<1>4. q2 = RcRec(pc, o.ep, o.name, o.host, o.doc, v, o.saw, o.bare)
  BY <1>3, <1>2 DEF IsRc, RcRec
<1>5. PICK q3 : q3 = [q2 EXCEPT !.saw = s]
  OBVIOUS
<1>6. q3 = RcRec(pc, o.ep, o.name, o.host, o.doc, v, s, o.bare)
  BY <1>5, <1>4 DEF IsRc, RcRec
<1> QED
  BY <1>1, <1>2, <1>3, <1>4, <1>5, <1>6

\* A call has read the file.
LEMMA RcPcDoc ==
  ASSUME NEW o, IsRc(o), NEW pc, NEW d
  PROVE  [o EXCEPT !.pc = pc, !.doc = d] = RcRec(pc, o.ep, o.name, o.host, d, o.verdict, o.saw, o.bare)
<1>1. PICK q1 : q1 = [o EXCEPT !.pc = pc]
  OBVIOUS
<1>2. q1 = RcRec(pc, o.ep, o.name, o.host, o.doc, o.verdict, o.saw, o.bare)
  BY <1>1 DEF IsRc, RcRec
<1>3. PICK q2 : q2 = [q1 EXCEPT !.doc = d]
  OBVIOUS
<1>4. q2 = RcRec(pc, o.ep, o.name, o.host, d, o.verdict, o.saw, o.bare)
  BY <1>3, <1>2 DEF IsRc, RcRec
<1> QED
  BY <1>1, <1>2, <1>3, <1>4

\* An add has its mount.
LEMMA RcPcMount ==
  ASSUME NEW o, IsRc(o), NEW pc, NEW e, NEW n, NEW h
  PROVE  [o EXCEPT !.pc = pc, !.ep = e, !.name = n, !.host = h] = RcRec(pc, e, n, h, o.doc, o.verdict, o.saw, o.bare)
<1>1. PICK q1 : q1 = [o EXCEPT !.pc = pc]
  OBVIOUS
<1>2. q1 = RcRec(pc, o.ep, o.name, o.host, o.doc, o.verdict, o.saw, o.bare)
  BY <1>1 DEF IsRc, RcRec
<1>3. PICK q2 : q2 = [q1 EXCEPT !.ep = e]
  OBVIOUS
<1>4. q2 = RcRec(pc, e, o.name, o.host, o.doc, o.verdict, o.saw, o.bare)
  BY <1>3, <1>2 DEF IsRc, RcRec
<1>5. PICK q3 : q3 = [q2 EXCEPT !.name = n]
  OBVIOUS
<1>6. q3 = RcRec(pc, e, n, o.host, o.doc, o.verdict, o.saw, o.bare)
  BY <1>5, <1>4 DEF IsRc, RcRec
<1>7. PICK q4 : q4 = [q3 EXCEPT !.host = h]
  OBVIOUS
<1>8. q4 = RcRec(pc, e, n, h, o.doc, o.verdict, o.saw, o.bare)
  BY <1>7, <1>6 DEF IsRc, RcRec
<1> QED
  BY <1>1, <1>2, <1>3, <1>4, <1>5, <1>6, <1>7, <1>8

\* A remove has its mount.
LEMMA RcPcRemove ==
  ASSUME NEW o, IsRc(o), NEW pc, NEW e, NEW n, NEW v
  PROVE  [o EXCEPT !.pc = pc, !.ep = e, !.name = n, !.verdict = v] = RcRec(pc, e, n, o.host, o.doc, v, o.saw, o.bare)
<1>1. PICK q1 : q1 = [o EXCEPT !.pc = pc]
  OBVIOUS
<1>2. q1 = RcRec(pc, o.ep, o.name, o.host, o.doc, o.verdict, o.saw, o.bare)
  BY <1>1 DEF IsRc, RcRec
<1>3. PICK q2 : q2 = [q1 EXCEPT !.ep = e]
  OBVIOUS
<1>4. q2 = RcRec(pc, e, o.name, o.host, o.doc, o.verdict, o.saw, o.bare)
  BY <1>3, <1>2 DEF IsRc, RcRec
<1>5. PICK q3 : q3 = [q2 EXCEPT !.name = n]
  OBVIOUS
<1>6. q3 = RcRec(pc, e, n, o.host, o.doc, o.verdict, o.saw, o.bare)
  BY <1>5, <1>4 DEF IsRc, RcRec
<1>7. PICK q4 : q4 = [q3 EXCEPT !.verdict = v]
  OBVIOUS
<1>8. q4 = RcRec(pc, e, n, o.host, o.doc, v, o.saw, o.bare)
  BY <1>7, <1>6 DEF IsRc, RcRec
<1> QED
  BY <1>1, <1>2, <1>3, <1>4, <1>5, <1>6, <1>7, <1>8

\* A request has its mount.
LEMMA RcPcSend ==
  ASSUME NEW o, IsRc(o), NEW pc, NEW e, NEW n, NEW b, NEW k,
         k = [o EXCEPT !.pc = pc, !.ep = e, !.name = n, !.bare = b]
  PROVE  k = RcRec(pc, e, n, o.host, o.doc, o.verdict, o.saw, b)
<1>1. PICK q1 : q1 = [o EXCEPT !.pc = pc]
  OBVIOUS
<1>2. q1 = RcRec(pc, o.ep, o.name, o.host, o.doc, o.verdict, o.saw, o.bare)
  BY <1>1 DEF IsRc, RcRec
<1>3. PICK q2 : q2 = [q1 EXCEPT !.ep = e]
  OBVIOUS
<1>4. q2 = RcRec(pc, e, o.name, o.host, o.doc, o.verdict, o.saw, o.bare)
  BY <1>3, <1>2 DEF IsRc, RcRec
<1>5. PICK q3 : q3 = [q2 EXCEPT !.name = n]
  OBVIOUS
<1>6. q3 = RcRec(pc, e, n, o.host, o.doc, o.verdict, o.saw, o.bare)
  BY <1>5, <1>4 DEF IsRc, RcRec
<1>7. PICK q4 : q4 = [q3 EXCEPT !.bare = b]
  OBVIOUS
<1>8. q4 = RcRec(pc, e, n, o.host, o.doc, o.verdict, o.saw, b)
  BY <1>7, <1>6 DEF IsRc, RcRec
<1> QED
  BY <1>1, <1>2, <1>3, <1>4, <1>5, <1>6, <1>7, <1>8

\* What is known of a call.
LEMMA RcAt ==
  ASSUME RcInv, NEW c \in RcOf
  PROVE  /\ RcCallOK(c, rcCall[c], applied[c]) /\ IsRc(rcCall[c]) /\ DOMAIN rcCall = RcOf /\ Ask(c).tool \in RcTools
         /\ rcCall[c].pc \in {"mount", "wait"} => Ask(c).tool = "add"
         /\ rcCall[c].pc \in {"load", "open", "save"} => Ask(c).tool \in {"add", "remove"}
         /\ rcCall[c].pc = "send" => Ask(c).tool \in Requests
         /\ Ask(c).tool \in {"add", "remove"} => Ask(c).name # "none"
<1>1. RcCallOK(c, rcCall[c], applied[c]) /\ DOMAIN rcCall = RcOf /\ rcSetting \in RcSettings
  BY DEF RcInv, RcWorldOK
<1>2. Ask(c).tool \in RcTools /\ (Ask(c).tool \in {"add", "remove"} => Ask(c).name # "none")
  BY <1>1, RcGiven DEF RcOf, Ask
<1>3. IsRc(rcCall[c]) /\ rcCall[c].pc \in RcPlaces(Ask(c).tool)
  BY <1>1 DEF RcCallOK
<1> QED
  BY <1>1, <1>2, <1>3 DEF RcPlaces, RcTools, Requests, RcWrites

\* A call that ends, or goes on.
LEMMA RcEndsAs ==
  ASSUME RcInv, NEW c \in RcOf, NEW v, RcEnds(c, v)
  PROVE  \E k : /\ RcMoves(c, k)
                /\ k = RcRec("over", rcCall[c].ep, rcCall[c].name, rcCall[c].host, rcCall[c].doc, v,
                             rcCall[c].saw, rcCall[c].bare)
<1>1. PICK o : o = rcCall[c]
  OBVIOUS
<1>2. PICK k : k = [o EXCEPT !.pc = "over", !.verdict = v]
  OBVIOUS
<1>3. RcMoves(c, k)
  BY <1>1, <1>2 DEF RcEnds, RcMoves, RcInv, RcWorldOK
<1>4. k = RcRec("over", o.ep, o.name, o.host, o.doc, v, o.saw, o.bare)
  <2>1. IsRc(o)
    BY <1>1, RcAt
  <2> QED
    BY <1>2, <2>1, RcPcVerdict
<1> QED
  BY <1>1, <1>3, <1>4

\* A step of a call to its next place.
LEMMA RcGoesAs ==
  ASSUME RcInv, NEW c \in RcOf, NEW pc, RcGoes(c, pc)
  PROVE  \E k : /\ RcMoves(c, k)
                /\ k = RcRec(pc, rcCall[c].ep, rcCall[c].name, rcCall[c].host, rcCall[c].doc, rcCall[c].verdict,
                             rcCall[c].saw, rcCall[c].bare)
<1>1. PICK o : o = rcCall[c]
  OBVIOUS
<1>2. PICK k : k = [o EXCEPT !.pc = pc]
  OBVIOUS
<1>3. RcMoves(c, k)
  BY <1>1, <1>2 DEF RcGoes, RcMoves, RcInv, RcWorldOK
<1>4. k = RcRec(pc, o.ep, o.name, o.host, o.doc, o.verdict, o.saw, o.bare)
  <2>1. IsRc(o)
    BY <1>1, RcAt
  <2> QED
    BY <1>2, <2>1, RcPc
<1> QED
  BY <1>1, <1>3, <1>4

(***************************************************************************)
(* Steps of a call that leave the file alone                                *)
(***************************************************************************)
\* A step of c to k, with a where its write was carried out.
WritesAt(c, a) == applied' = [applied EXCEPT ![c] = a]
RcSteps(c, k, a) == RcMoves(c, k) /\ RcCallOK(c, k, a) /\ WritesAt(c, a) /\ LabStays

\* What it leaves as it was.
LEMMA RcStands ==
  ASSUME RcInv, NEW c \in RcOf, NEW k, NEW a, RcSteps(c, k, a)
  PROVE  /\ rcCall'[c] = k /\ applied'[c] = a
         /\ \A d \in RcOf \ {c} : rcCall'[d] = rcCall[d] /\ applied'[d] = applied[d]
         /\ DOMAIN rcCall' = RcOf /\ DOMAIN rcCall = RcOf /\ RcOf' = RcOf /\ \A d : Ask(d)' = Ask(d)
         /\ rcSetting' = rcSetting /\ boxAddress' = boxAddress
         /\ rcCall' = [d \in RcOf |-> rcCall'[d]] /\ applied' = [d \in RcOf |-> applied'[d]]
  BY DEF RcSteps, RcMoves, WritesAt, LabStays, RcOf, Ask, RcInv, RcWorldOK

\* The mounts stay right where they stay.
LEMMA NodesStay ==
  ASSUME RcInv, rcSetting' = rcSetting, DOMAIN rcCall' = DOMAIN rcCall, odl' = odl
  PROVE  NodesOK'
  BY RcStillOK DEF NodesOK, RcInv

\* A step that keeps the mounts and the file right.
LEMMA RcStepKeeps ==
  ASSUME RcInv, NEW c \in RcOf, NEW k, NEW a, RcSteps(c, k, a), NodesOK', FileOK', overlap' \in BOOLEAN,
         endpoints' = [mounts |-> endpoints'.mounts, cut |-> endpoints'.cut],
         \A e \in endpoints'.mounts : EntryOK(e)
  PROVE  RcInv'
<1>1. DOMAIN rcCall' = DOMAIN rcCall /\ rcSetting' = rcSetting /\ RcOf' = RcOf
  BY RcStands
<1>2. ASSUME NEW d \in RcOf
      PROVE  RcCallOK(d, rcCall[d], applied[d])'
  <2>1. PICK x : x = IF d = c THEN k ELSE rcCall[d]
    OBVIOUS
  <2>2. PICK y : y = IF d = c THEN a ELSE applied[d]
    OBVIOUS
  <2>3. rcCall'[d] = x /\ applied'[d] = y
    BY <2>1, <2>2, RcStands
  <2>4. RcCallOK(d, x, y)
    BY <2>1, <2>2, RcAt DEF RcSteps
  <2>5. RcCallOK(d, x, y)'
    BY <1>1, <2>4, RcStillOK
  <2> QED
    BY <2>3, <2>5
<1>3. \A e \in endpoints'.mounts : EntryOK(e)'
  BY <1>1, RcStillOK
<1>4. RcWorldOK'
  BY <1>1, <1>3, RcStands DEF RcInv, RcWorldOK
<1> QED
  BY <1>1, <1>2, <1>4 DEF RcInv

\* A mount stays, or its remove is on its way to the file or leaves it alone.
MountStays(c, ep, name) ==
  NodesAt(ep, name) # {} =>
    \/ NodesAt(ep, name)' # {}
    \/ Leaves(c, ep, name)' /\ ~\E d \in RcOf : Filing(d, ep, name)

\* A call that steps aside of the file: it is neither at it, nor comes to it.
Aside(c, k) ==
  /\ rcCall[c].pc \notin {"load", "open", "save"} /\ k.pc \notin {"open", "save"}
  /\ \/ k.ep = rcCall[c].ep /\ k.name = rcCall[c].name
     \/ Ask(c).tool \in {"add", "remove"} => k.ep = Ask(c).ep /\ k.name = Ask(c).name
  /\ Ask(c).tool = "add" /\ Ask(c).persist => k.verdict # "ok"
  /\ k.pc = "load" /\ Ask(c).tool = "add" => NodesAt(k.ep, k.name)' # {}

\* Others are at the file as before, and it is not.
LEMMA AsideChanging ==
  ASSUME RcInv, NEW c \in RcOf, NEW k, NEW a, RcSteps(c, k, a), Aside(c, k), NEW d \in RcOf
  PROVE  /\ Changing(d)' <=> Changing(d)
         /\ Changing(d) => d # c
<1>1. (d # c => rcCall'[d] = rcCall[d]) /\ rcCall'[c] = k
  BY RcStands
<1> QED
  BY <1>1 DEF Changing, Aside

\* What a call removes it goes on removing.
LEMMA AsideNames ==
  ASSUME RcInv, NEW c \in RcOf, NEW k, NEW a, RcSteps(c, k, a), Aside(c, k),
         NEW d \in RcOf, NEW ep, NEW name, name # "none"
  PROVE  /\ Removes(d, ep, name) => Removes(d, ep, name)'
         /\ Leaves(d, ep, name) => Leaves(d, ep, name)'
<1>1. Ask(d)' = Ask(d) /\ (d # c => rcCall'[d] = rcCall[d]) /\ rcCall'[c] = k
  BY RcStands
<1>4. Removes(d, ep, name) => Removes(d, ep, name)'
  <2>1. CASE d # c
    BY <1>1, <2>1 DEF Removes
  <2>2. CASE d = c /\ Ask(c).tool = "remove" /\ rcCall[c].name = name
    <3>1. AtItsMount(c, rcCall[c])
      BY <2>2, RcAt DEF RcCallOK, ChangeOK
    <3>2. k.ep = rcCall[c].ep /\ k.name = rcCall[c].name
      BY <2>2, <3>1 DEF AtItsMount, Aside
    <3> QED
      BY <1>1, <2>2, <3>2 DEF Removes
  <2> QED
    BY <2>1, <2>2 DEF Removes
<1>5. Leaves(d, ep, name) => Leaves(d, ep, name)'
  BY <1>1, <1>4 DEF Leaves, Aside
<1> QED
  BY <1>4, <1>5

\* It keeps the file right.
LEMMA FileAside ==
  ASSUME RcInv, NEW c \in RcOf, NEW k, NEW a, RcSteps(c, k, a), Aside(c, k),
         UNCHANGED endpoints, overlap => overlap',
         Calm' => \A ep, name : MountStays(c, ep, name)
  PROVE  FileOK'
<1>1. SUFFICES ASSUME Calm'
               PROVE  (AloneAtFile /\ OwnEntry /\ EntriesStand /\ FiledStand /\ AddedAreFiled)'
  BY DEF FileOK
<1>2. Calm
  BY <1>1, RcStands DEF Calm
<1>3. AloneAtFile /\ OwnEntry /\ EntriesStand /\ FiledStand /\ AddedAreFiled
  BY <1>2 DEF RcInv, FileOK
<1>4. /\ RcOf' = RcOf /\ rcCall'[c] = k /\ \A d \in RcOf \ {c} : rcCall'[d] = rcCall[d]
      /\ \A d : Ask(d)' = Ask(d)
  BY RcStands
<1>5. \A d \in RcOf : Changing(d)' <=> Changing(d)
  BY AsideChanging
<1>6. \A d \in RcOf : Changing(d) => d # c
  BY AsideChanging
<1>7. AloneAtFile'
  <2>1. endpoints.cut => \E d \in RcOf : rcCall'[d].pc = "save"
    BY <1>3, <1>4 DEF AloneAtFile, Aside
  <2> QED
    BY <1>3, <1>4, <1>5, <2>1 DEF AloneAtFile
<1>8. OwnEntry'
  BY <1>3, <1>4, <1>5, <1>6 DEF OwnEntry, InFile
<1>9. ASSUME NEW ep, NEW name, name # "none", Stands(ep, name)
      PROVE  Stands(ep, name)'
  <2>1. CASE NodesAt(ep, name) # {}
    BY <1>1, <1>4, <2>1 DEF MountStays, Stands
  <2>2. CASE \E d \in RcOf : Leaves(d, ep, name)
    BY <1>4, <1>9, <2>2, AsideNames DEF Stands
  <2> QED
    BY <1>9, <2>1, <2>2 DEF Stands
<1>10. EntriesStand'
  <2>1. \A e \in endpoints.mounts : e.name # "none"
    BY DEF RcInv, RcWorldOK, EntryOK
  <2>2. \A d \in RcOf : \A e \in rcCall[d].doc : e.name # "none"
    BY RcAt DEF RcCallOK, ChangeOK, EntryOK
  <2>3. \A e \in endpoints.mounts : Stands(e.ep, e.name)'
    BY <1>3, <1>9, <2>1 DEF EntriesStand
  <2>4. \A d \in RcOf : Changing(d) => \A e \in rcCall[d].doc : Stands(e.ep, e.name)'
    BY <1>3, <1>9, <2>2 DEF EntriesStand
  <2> QED
    BY <1>4, <1>5, <1>6, <2>3, <2>4 DEF EntriesStand
<1>11. FiledStand'
  <2>1. SUFFICES ASSUME NEW d \in RcOf, Ask(d).tool = "add", rcCall'[d].pc \in {"load", "open", "save"}
                 PROVE  (NodesAt(rcCall[d].ep, rcCall[d].name) # {})'
    BY <1>4 DEF FiledStand
  <2>2. CASE d = c
    BY <1>4, <2>1, <2>2 DEF Aside
  <2>3. CASE d # c
    <3>1. PICK ep, name : ep = rcCall[d].ep /\ name = rcCall[d].name
      OBVIOUS
    <3>2. rcCall'[d] = rcCall[d] /\ NodesAt(ep, name) # {} /\ Filing(d, ep, name)
      BY <1>3, <1>4, <2>1, <2>3, <3>1 DEF FiledStand, Filing
    <3>3. NodesAt(ep, name)' # {}
      BY <1>1, <3>2 DEF MountStays
    <3> QED
      BY <3>1, <3>2, <3>3
  <2> QED
    BY <2>2, <2>3
<1>12. AddedAreFiled'
  <2>1. SUFFICES ASSUME NEW d \in RcOf, Ask(d).tool = "add", rcCall'[d].verdict = "ok", Ask(d).persist
                 PROVE  \/ InEach(rcCall[d].ep, rcCall[d].name)'
                        \/ \E x \in RcOf : Removes(x, rcCall[d].ep, rcCall[d].name)'
    BY <1>4 DEF AddedAreFiled
  <2>2. d # c /\ rcCall'[d] = rcCall[d]
    BY <1>4, <2>1 DEF Aside
  <2>3. PICK ep, name : ep = rcCall[d].ep /\ name = rcCall[d].name
    OBVIOUS
  <2>4. name # "none"
    BY <2>1, <2>2, <2>3, RcAt DEF RcCallOK, ChangeOK
  <2>5. CASE InEach(ep, name)
    <3>1. InEach(ep, name)'
      BY <1>4, <1>5, <1>6, <2>5 DEF InEach, InFile
    <3> QED
      BY <2>2, <2>3, <3>1
  <2>6. CASE \E x \in RcOf : Removes(x, ep, name)
    <3>1. \E x \in RcOf : Removes(x, ep, name)'
      BY <2>4, <2>6, AsideNames
    <3> QED
      BY <2>2, <2>3, <3>1
  <2> QED
    BY <1>3, <2>1, <2>2, <2>3, <2>5, <2>6 DEF AddedAreFiled
<1> QED
  BY <1>7, <1>8, <1>10, <1>11, <1>12

\* A call that ends with v, having written at a.
EndsRight(c, v, a) ==
  /\ Ask(c).tool = "add" /\ v = "ok" => rcCall[c].pc # "idle"
  /\ Ask(c).tool \in Requests =>
       /\ v \in {"dry_run", "raised"} => a = {}
       /\ a = {} \/ \E x \in a : a = {x}
       /\ v = "ok" /\ Ask(c).tool \in RcWrites => a # {}
       /\ Firm /\ Ask(c).dev # "none" /\ Ask(c).name = "none" => a \subseteq OwnBox(c)

\* An end that is right is a step that is right.
LEMMA RcEndsOK ==
  ASSUME RcInv, NEW c \in RcOf, NEW v \in {"ok", "error", "raised", "dry_run", "killed"}, NEW a, RcEnds(c, v),
         rcCall[c].pc # "over", EndsRight(c, v, a), WritesAt(c, a), LabStays
  PROVE  \E k : /\ RcSteps(c, k, a) /\ k.pc = "over" /\ k.ep = rcCall[c].ep /\ k.name = rcCall[c].name
                /\ k.verdict = v /\ k.doc = rcCall[c].doc
<1>1. PICK o : o = rcCall[c]
  OBVIOUS
<1>2. PICK k : RcMoves(c, k) /\ k = RcRec("over", o.ep, o.name, o.host, o.doc, v, o.saw, o.bare)
  BY <1>1, RcEndsAs
<1>3. /\ IsRc(k) /\ k.pc = "over" /\ k.ep = o.ep /\ k.name = o.name /\ k.host = o.host /\ k.doc = o.doc
      /\ k.verdict = v /\ k.saw = o.saw /\ k.bare = o.bare
  BY <1>2, RcFields
<1>4. RcCallOK(c, o, applied[c]) /\ Ask(c).tool \in RcTools
  BY <1>1, RcAt
<1>5. k.pc \in RcPlaces(Ask(c).tool)
  BY <1>3 DEF RcPlaces
<1>6. ChangeOK(c, k)
  <2>1. ChangeOK(c, o) /\ o.pc # "over"
    BY <1>1, <1>4 DEF RcCallOK
  <2>2. Ask(c).tool = "add" /\ v = "ok" => o.name # "none"
    <3>1. SUFFICES ASSUME Ask(c).tool = "add", v = "ok"
                   PROVE  o.name # "none"
      OBVIOUS
    <3>2. o.pc # "idle"
      BY <1>1, <3>1 DEF EndsRight
    <3> QED
      BY <2>1, <3>1, <3>2, RcAt DEF ChangeOK, AtItsMount
  <2> QED
    BY <1>3, <2>1, <2>2 DEF ChangeOK, AtItsMount
<1>7. Ask(c).tool \in Requests => RequestOK(c, k) /\ AppliedOK(c, k, a)
  <2>1. SUFFICES ASSUME Ask(c).tool \in Requests
                 PROVE  RequestOK(c, k) /\ AppliedOK(c, k, a)
    OBVIOUS
  <2>2. RequestOK(c, o) /\ o.pc # "over"
    BY <1>1, <1>4, <2>1 DEF RcCallOK
  <2>3. k.saw = "none"
    BY <1>3, <2>2 DEF RequestOK
  <2>4. RequestOK(c, k)
    BY <1>3, <2>3 DEF RequestOK
  <2>5. AppliedOK(c, k, a)
    BY <1>3, <2>1 DEF AppliedOK, EndsRight
  <2> QED
    BY <2>4, <2>5
<1>8. RcCallOK(c, k, a)
  BY <1>3, <1>5, <1>6, <1>7 DEF RcCallOK
<1> QED
  BY <1>1, <1>2, <1>3, <1>8 DEF RcSteps

\* It ends aside of the file.
LEMMA RcEndAside ==
  ASSUME RcInv, NEW c \in RcOf, NEW v \in {"ok", "error", "raised", "dry_run", "killed"}, NEW a, RcEnds(c, v),
         rcCall[c].pc \notin {"load", "open", "save", "over"}, EndsRight(c, v, a),
         Ask(c).tool = "add" /\ Ask(c).persist => v # "ok",
         WritesAt(c, a), LabStays, UNCHANGED endpoints, overlap' \in BOOLEAN, overlap => overlap',
         NodesOK', Calm' => \A ep, name : MountStays(c, ep, name)
  PROVE  RcInv'
<1>0. rcCall[c].pc # "over"
  OBVIOUS
<1>1. PICK k : /\ RcSteps(c, k, a) /\ k.pc = "over" /\ k.ep = rcCall[c].ep /\ k.name = rcCall[c].name
               /\ k.verdict = v /\ k.doc = rcCall[c].doc
  BY <1>0, RcEndsOK
<1>2. Aside(c, k)
  BY <1>1 DEF Aside
<1>3. FileOK'
  BY <1>1, <1>2, FileAside
<1> QED
  BY <1>1, <1>3, RcStepKeeps DEF RcInv, RcWorldOK

\* And changes nothing else.
LEMMA RcEndQuiet ==
  ASSUME RcInv, NEW c \in RcOf, NEW v \in {"ok", "error", "raised", "dry_run", "killed"}, RcEnds(c, v),
         rcCall[c].pc \notin {"load", "open", "save", "over"},
         Ask(c).tool = "add" /\ v = "ok" => rcCall[c].pc # "idle" /\ ~Ask(c).persist,
         v = "ok" => Ask(c).tool \notin RcWrites, BoxesStay, LabStays, FileStays
  PROVE  RcInv'
<1>1. PICK a : a = applied[c]
  OBVIOUS
<1>2. RcCallOK(c, rcCall[c], a)
  BY <1>1, RcAt
<1>3. Ask(c).tool \in Requests => a = {}
  BY <1>2 DEF RcCallOK, AppliedOK
<1>4. EndsRight(c, v, a)
  BY <1>3 DEF EndsRight
<1>5. WritesAt(c, a)
  BY <1>1 DEF WritesAt, BoxesStay, RcInv, RcWorldOK
<1>6. DOMAIN rcCall' = DOMAIN rcCall /\ rcSetting' = rcSetting
  BY DEF RcEnds, LabStays
<1>7. NodesOK'
  BY <1>6, NodesStay DEF BoxesStay
<1>8. \A ep, name : MountStays(c, ep, name)
  BY DEF MountStays, NodesAt, BoxesStay
<1>9. overlap' \in BOOLEAN /\ overlap' = overlap /\ UNCHANGED endpoints
  BY DEF FileStays, RcInv, RcWorldOK
<1> QED
  BY <1>4, <1>5, <1>7, <1>8, <1>9, RcEndAside

\* Nothing but the fields of the mounts changes.
KeysStay == \A ep, name : NodesAt(ep, name) # {} => NodesAt(ep, name)' # {}

\* A mount is told the address of its chassis.
LEMMA MountedOK ==
  ASSUME RcInv, NEW c \in RcOf, rcCall[c].pc = "mount", odl' = Mounted(c),
         rcSetting' = rcSetting, DOMAIN rcCall' = DOMAIN rcCall
  PROVE  NodesOK' /\ KeysStay
<1>1. PICK ep, name, host : ep = rcCall[c].ep /\ name = rcCall[c].name /\ host = rcCall[c].host
  OBVIOUS
<1>2. ChangeOK(c, rcCall[c]) /\ Ask(c).tool = "add"
  BY RcAt DEF RcCallOK
<1>3. /\ ep = Ask(c).ep /\ name = Ask(c).name /\ Ask(c).dev \in DOMAIN rcSetting.device
      /\ AddressesFirm => host = rcSetting.address[Meant(Ask(c).dev)]
  BY <1>1, <1>2 DEF ChangeOK, AtItsMount
<1>4. PICK b : b = Meant(Ask(c).dev)
  OBVIOUS
<1>5. b \in Owners(ep, name)
  BY <1>2, <1>3, <1>4 DEF Owners, AddsOf
<1>6. rcSetting \in RcSettings /\ DOMAIN rcCall = RcOf /\ \A n \in odl : NodeOK(n)
  BY DEF RcInv, RcWorldOK, NodesOK
<1>7. \A m, n \in odl : m.ep = n.ep /\ m.name = n.name => m = n
  BY DEF RcInv, NodesOK
<1>8. PICK old : old = NodesAt(ep, name)
  OBVIOUS
<1>9. CASE old = {}
  <2>1. PICK new : new = Node(ep, name, host, "none", "connecting")
    OBVIOUS
  <2>2. odl' = odl \cup {new} /\ new.ep = ep /\ new.name = name /\ new.host = host /\ new.with = "none"
        /\ new.state = "connecting" /\ new = Node(new.ep, new.name, new.host, new.with, new.state)
    BY <1>1, <1>8, <1>9, <2>1 DEF Mounted, Node
  <2>3. NodeOK(new)
    BY <1>3, <1>4, <1>5, <2>2 DEF NodeOK, Firm
  <2>4. \A n \in odl : ~(n.ep = ep /\ n.name = name)
    BY <1>8, <1>9 DEF NodesAt
  <2>5. \A n \in odl' : NodeOK(n)'
    BY <1>6, <2>2, <2>3, RcStillOK
  <2>6. \A m, n \in odl' : m.ep = n.ep /\ m.name = n.name => m = n
    BY <1>7, <2>2, <2>4
  <2>7. KeysStay
    BY <2>2 DEF KeysStay, NodesAt
  <2> QED
    BY <2>5, <2>6, <2>7 DEF NodesOK
<1>10. CASE old # {}
  <2>1. PICK n \in odl : n.ep = ep /\ n.name = name
    BY <1>8, <1>10 DEF NodesAt
  <2>2. old = {n}
    BY <1>7, <1>8, <2>1 DEF NodesAt
  <2>3. PICK new : new = [n EXCEPT !.host = host]
    OBVIOUS
  <2>4. NodeOK(n)
    BY <1>6, <2>1
  <2>5. /\ new.ep = ep /\ new.name = name /\ new.host = host /\ new.with = n.with /\ new.state = n.state
        /\ new = Node(new.ep, new.name, new.host, new.with, new.state)
    BY <2>1, <2>3, <2>4 DEF NodeOK, Node
  <2>6. odl' = (odl \ {n}) \cup {new}
    BY <1>1, <1>8, <1>10, <2>2, <2>3 DEF Mounted
  <2>7. NodeOK(new)
    <3>1. Firm => \E x \in Owners(ep, name) : host = rcSetting.address[x] /\ n.with \in {"none", x}
      <4>1. SUFFICES ASSUME Firm
                     PROVE  host = rcSetting.address[b] /\ n.with \in {"none", b}
        BY <1>5
      <4>2. PICK x \in Owners(ep, name) : n.with \in {"none", x}
        BY <2>1, <2>4, <4>1 DEF NodeOK
      <4>3. x = b
        BY <1>5, <1>6, <4>1, OwnersAreOne DEF Firm
      <4> QED
        BY <1>3, <1>4, <4>1, <4>2, <4>3 DEF Firm
    <3> QED
      BY <2>4, <2>5, <3>1 DEF NodeOK
  <2>8. \A m \in odl' : NodeOK(m)'
    BY <1>6, <2>6, <2>7, RcStillOK
  <2>9. \A m \in odl \ {n} : ~(m.ep = ep /\ m.name = name)
    BY <1>7, <2>1
  <2>10. \A l, m \in odl' : l.ep = m.ep /\ l.name = m.name => l = m
    BY <1>7, <2>5, <2>6, <2>9
  <2>11. KeysStay
    BY <2>1, <2>5, <2>6 DEF KeysStay, NodesAt
  <2> QED
    BY <2>8, <2>10, <2>11 DEF NodesOK
<1> QED
  BY <1>9, <1>10

\* Where mounts stay, they do whatever a call removes.
LEMMA KeysMounts ==
  ASSUME KeysStay, NEW c
  PROVE  \A ep, name : MountStays(c, ep, name)
  BY DEF KeysStay, MountStays

\* A call goes on aside of the file.
LEMMA RcGoAside ==
  ASSUME RcInv, NEW c \in RcOf, NEW k, NEW a, RcSteps(c, k, a), Aside(c, k), NodesOK', FileStays,
         Calm' => \A ep, name : MountStays(c, ep, name)
  PROVE  RcInv'
<1>1. UNCHANGED endpoints /\ overlap' = overlap
  BY DEF FileStays
<1>2. FileOK'
  BY <1>1, FileAside
<1> QED
  BY <1>1, <1>2, RcStepKeeps DEF RcInv, RcWorldOK

(***************************************************************************)
(* mount add, up to the file                                                *)
(***************************************************************************)
\* An add or a remove that goes on to pc, at its mount.
LEMMA RcChanges ==
  ASSUME RcInv, NEW c \in RcOf, NEW k, Ask(c).tool \in {"add", "remove"},
         IsRc(k), k.pc \in RcPlaces(Ask(c).tool), AtItsMount(c, k), \A e \in k.doc : EntryOK(e),
         k.verdict \in {"none", "error"} \/ (k.pc = "over" /\ k.verdict = "ok"), Ask(c).tool = "add" => k.verdict = "none",
         Ask(c).tool = "add" => Ask(c).dev \in DOMAIN rcSetting.device,
         k.pc = "mount" /\ AddressesFirm => k.host = rcSetting.address[Meant(Ask(c).dev)],
         k.pc \in {"load", "open", "save"} => Ask(c).persist
  PROVE  RcCallOK(c, k, applied[c])
<1>1. ChangeOK(c, k)
  BY DEF ChangeOK
<1>2. Ask(c).tool \notin Requests
  BY DEF Requests, RcWrites
<1> QED
  BY <1>1, <1>2 DEF RcCallOK

\* What a call has read is right.
LEMMA DocOK ==
  ASSUME RcInv, NEW c \in RcOf
  PROVE  \A e \in rcCall[c].doc : EntryOK(e)
  BY RcAt DEF RcCallOK, ChangeOK

\* A write that is not carried out.
LEMMA AppliedStays ==
  ASSUME RcInv, NEW c \in RcOf, UNCHANGED applied
  PROVE  WritesAt(c, applied[c])
  BY DEF WritesAt, RcInv, RcWorldOK

\* An add starts: an endpoint that is a controller, a device that is known.
LEMMA AddStartKeeps ==
  ASSUME RcInv, NEW c \in RcOf, AddStart(c)
  PROVE  RcInv'
<1>1. rcCall[c].pc = "idle" /\ Ask(c).tool = "add" /\ BoxesStay /\ FileStays /\ LabStays
  BY DEF AddStart
<1>2. CASE RcEnds(c, "raised") \/ RcEnds(c, "error")
  BY <1>1, <1>2, RcEndQuiet
<1>3. CASE ~RcEnds(c, "raised") /\ ~RcEnds(c, "error")
  <2>1. PICK h : h = IF Ask(c).verify THEN boxAddress[Meant(Ask(c).dev)] ELSE rcSetting.cached[Meant(Ask(c).dev)]
    OBVIOUS
  <2>2. PICK o : o = rcCall[c]
    OBVIOUS
  <2>3. PICK k : k = [o EXCEPT !.pc = "mount", !.ep = Ask(c).ep, !.name = Ask(c).name, !.host = h]
    OBVIOUS
  <2>4. /\ Ask(c).ep \in rcSetting.controllers /\ Ask(c).dev \in DOMAIN rcSetting.device
        /\ rcCall' = [rcCall EXCEPT ![c].pc = "mount", ![c].ep = Ask(c).ep, ![c].name = Ask(c).name, ![c].host = h]
    BY <1>3, <2>1 DEF AddStart, Loads
  <2>5. RcMoves(c, k)
    BY <2>2, <2>3, <2>4 DEF RcMoves, RcInv, RcWorldOK
  <2>6. RcCallOK(c, o, applied[c]) /\ IsRc(o)
    BY <2>2, RcAt
  <2>7. k = RcRec("mount", Ask(c).ep, Ask(c).name, h, o.doc, o.verdict, o.saw, o.bare)
    BY <2>3, <2>6, RcPcMount
  <2>8. /\ IsRc(k) /\ k.pc = "mount" /\ k.ep = Ask(c).ep /\ k.name = Ask(c).name /\ k.host = h /\ k.doc = o.doc
        /\ k.verdict = o.verdict
    BY <2>7, RcFields
  <2>9. o.verdict = "none"
    BY <1>1, <2>2, <2>6 DEF RcCallOK
  <2>10. AddressesFirm => h = rcSetting.address[Meant(Ask(c).dev)]
    BY <1>1, <2>1, RcAt DEF AddressesFirm, RcInv, RcWorldOK
  <2>11. RcCallOK(c, k, applied[c])
    <3>1. k.pc \in RcPlaces(Ask(c).tool)
      BY <1>1, <2>8 DEF RcPlaces
    <3> QED
      BY <1>1, <2>2, <2>4, <2>8, <2>9, <2>10, <3>1, RcChanges, DocOK DEF AtItsMount
  <2>12. RcSteps(c, k, applied[c])
    BY <1>1, <2>5, <2>11, AppliedStays DEF RcSteps, BoxesStay
  <2>13. Aside(c, k)
    BY <1>1, <2>8, <2>9 DEF Aside
  <2>14. NodesOK' /\ KeysStay
    BY <1>1, <2>12, RcStands, NodesStay DEF BoxesStay, KeysStay, NodesAt
  <2> QED
    BY <1>1, <2>12, <2>13, <2>14, KeysMounts, RcGoAside
<1> QED
  BY <1>2, <1>3

\* An add at its mount goes on.
LEMMA AddGoes ==
  ASSUME RcInv, NEW c \in RcOf, NEW pc \in {"wait", "load"}, RcGoes(c, pc), rcCall[c].pc \in {"mount", "wait"},
         UNCHANGED applied, FileStays, LabStays, NodesOK', KeysStay,
         pc = "load" => Ask(c).persist /\ NodesAt(rcCall[c].ep, rcCall[c].name) # {}
  PROVE  RcInv'
<1>1. PICK o : o = rcCall[c]
  OBVIOUS
<1>2. PICK k : RcMoves(c, k) /\ k = RcRec(pc, o.ep, o.name, o.host, o.doc, o.verdict, o.saw, o.bare)
  BY <1>1, RcGoesAs
<1>3. IsRc(k) /\ k.pc = pc /\ k.ep = o.ep /\ k.name = o.name /\ k.doc = o.doc /\ k.verdict = o.verdict
  BY <1>2, RcFields
<1>4. RcCallOK(c, o, applied[c]) /\ Ask(c).tool = "add"
  BY <1>1, RcAt
<1>5. AtItsMount(c, o) /\ o.verdict = "none" /\ Ask(c).dev \in DOMAIN rcSetting.device
  BY <1>1, <1>4 DEF RcCallOK, ChangeOK
<1>6. RcCallOK(c, k, applied[c])
  <2>1. AtItsMount(c, k)
    BY <1>3, <1>5 DEF AtItsMount
  <2>2. k.pc \in RcPlaces(Ask(c).tool)
    BY <1>3, <1>4 DEF RcPlaces
  <2> QED
    BY <1>1, <1>3, <1>4, <1>5, <2>1, <2>2, RcChanges, DocOK
<1>7. RcSteps(c, k, applied[c])
  BY <1>2, <1>6, AppliedStays DEF RcSteps
<1>8. Aside(c, k)
  <2>1. pc = "load" => NodesAt(k.ep, k.name)' # {}
    <3>1. PICK ep, name : ep = k.ep /\ name = k.name
      OBVIOUS
    <3>2. pc = "load" => NodesAt(ep, name) # {}
      BY <1>1, <1>3, <3>1
    <3> QED
      BY <3>1, <3>2 DEF KeysStay
  <2> QED
    BY <1>1, <1>3, <1>5, <2>1 DEF Aside
<1> QED
  BY <1>7, <1>8, KeysMounts, RcGoAside

\* It tells the controller, which has the mount then, or has not heard.
LEMMA PutMountKeeps ==
  ASSUME RcInv, NEW c \in RcOf, PutMount(c)
  PROVE  RcInv'
<1>1. rcCall[c].pc = "mount" /\ UNCHANGED applied /\ FileStays /\ LabStays /\ Ask(c).tool = "add"
  BY RcAt DEF PutMount
<1>2. DOMAIN rcCall' = DOMAIN rcCall /\ rcSetting' = rcSetting
  BY DEF PutMount, RcGoes, RcEnds, LabStays
<1>3. odl' \in {odl, Mounted(c)}
  BY DEF PutMount
<1>4. NodesOK' /\ KeysStay
  <2>1. CASE odl' = odl
    BY <1>2, <2>1, NodesStay DEF KeysStay, NodesAt
  <2>2. CASE odl' = Mounted(c)
    BY <1>1, <1>2, <2>2, MountedOK
  <2> QED
    BY <1>3, <2>1, <2>2
<1>5. CASE RcGoes(c, "wait")
  BY <1>1, <1>4, <1>5, AddGoes
<1>6. CASE RcEnds(c, "error")
  <2>1. EndsRight(c, "error", applied[c])
    BY <1>1 DEF EndsRight, Requests, RcWrites
  <2>2. overlap' \in BOOLEAN /\ overlap' = overlap /\ UNCHANGED endpoints
    BY <1>1 DEF FileStays, RcInv, RcWorldOK
  <2>3. WritesAt(c, applied[c])
    BY <1>1, AppliedStays
  <2> QED
    BY <1>1, <1>4, <1>6, <2>1, <2>2, <2>3, KeysMounts, RcEndAside
<1> QED
  BY <1>5, <1>6 DEF PutMount

\* It waits for a session, and goes to the file with a mount that is there.
LEMMA WaitConnectedKeeps ==
  ASSUME RcInv, NEW c \in RcOf, WaitConnected(c)
  PROVE  RcInv'
<1>1. rcCall[c].pc = "wait" /\ BoxesStay /\ FileStays /\ LabStays
  BY DEF WaitConnected
<1>2. CASE RcEnds(c, "error") \/ (~Ask(c).persist /\ RcEnds(c, "ok"))
  <2>1. Ask(c).tool = "add" /\ Ask(c).tool \notin RcWrites
    BY <1>1, RcAt DEF RcWrites
  <2> QED
    BY <1>1, <1>2, <2>1, RcEndQuiet
<1>3. CASE IsConnected(c) /\ Ask(c).persist /\ RcGoes(c, "load")
  <2>1. NodesAt(rcCall[c].ep, rcCall[c].name) # {}
    BY <1>3 DEF IsConnected
  <2>2. DOMAIN rcCall' = DOMAIN rcCall /\ rcSetting' = rcSetting /\ odl' = odl /\ UNCHANGED applied
    BY <1>1, <1>3 DEF RcGoes, LabStays, BoxesStay
  <2>3. NodesOK' /\ KeysStay
    BY <2>2, NodesStay DEF KeysStay, NodesAt
  <2> QED
    BY <1>1, <1>3, <2>1, <2>2, <2>3, AddGoes
<1> QED
  BY <1>2, <1>3 DEF WaitConnected

(***************************************************************************)
(* mount remove, up to the file                                             *)
(***************************************************************************)
\* A remove has its mount.
LEMMA RemoveGoesAs ==
  ASSUME RcInv, NEW c \in RcOf, NEW v, RemoveGoes(c, v)
  PROVE  \E k : /\ RcMoves(c, k)
                /\ k = RcRec(IF Ask(c).persist THEN "load" ELSE "over", Ask(c).ep, Ask(c).name, rcCall[c].host,
                             rcCall[c].doc, v, rcCall[c].saw, rcCall[c].bare)
<1>1. PICK o, x, y, z : /\ o = rcCall[c] /\ x = Ask(c).ep /\ y = Ask(c).name
                        /\ z = IF Ask(c).persist THEN "load" ELSE "over"
  OBVIOUS
<1>2. PICK k : k = [o EXCEPT !.pc = z, !.ep = x, !.name = y, !.verdict = v]
  OBVIOUS
<1>3. RcMoves(c, k)
  BY <1>1, <1>2 DEF RemoveGoes, RcMoves, RcInv, RcWorldOK
<1>4. IsRc(o)
  BY <1>1, RcAt
<1>5. k = RcRec(z, x, y, o.host, o.doc, v, o.saw, o.bare)
  BY <1>2, <1>4, RcPcRemove
<1> QED
  BY <1>1, <1>3, <1>5

\* A remove takes the mount away, and goes to the file with its name.
LEMMA DeleteMountKeeps ==
  ASSUME RcInv, NEW c \in RcOf, DeleteMount(c)
  PROVE  RcInv'
<1>1. rcCall[c].pc = "idle" /\ Ask(c).tool = "remove" /\ UNCHANGED applied /\ UNCHANGED endpoints /\ LabStays
  BY DEF DeleteMount
<1>2. overlap' = (overlap \/ (odl' # odl /\ \E d \in DOMAIN rcCall : Filing(d, Ask(c).ep, Ask(c).name)))
  BY DEF DeleteMount
<1>3. overlap \in BOOLEAN /\ DOMAIN rcCall = RcOf /\ rcSetting \in RcSettings
  BY DEF RcInv, RcWorldOK
<1>4. CASE (RcEnds(c, "raised") \/ RcEnds(c, "error")) /\ UNCHANGED odl
  <2>1. FileStays /\ BoxesStay
    BY <1>1, <1>2, <1>3, <1>4 DEF FileStays, BoxesStay
  <2> QED
    BY <1>1, <1>4, <2>1, RcEndQuiet
<1>5. CASE \E v \in {"none", "ok", "error"} :
             /\ RemoveGoes(c, v) /\ (v = "none" => Ask(c).persist) /\ (v = "ok" => ~Ask(c).persist)
             /\ Ask(c).ep \in rcSetting.controllers /\ odl' \in {odl, odl \ NodesAt(Ask(c).ep, Ask(c).name)}
  <2>1. PICK v \in {"none", "ok", "error"} :
             /\ RemoveGoes(c, v) /\ (v = "none" => Ask(c).persist) /\ (v = "ok" => ~Ask(c).persist)
             /\ Ask(c).ep \in rcSetting.controllers /\ odl' \in {odl, odl \ NodesAt(Ask(c).ep, Ask(c).name)}
    BY <1>5
  <2>2. PICK pc : pc = IF Ask(c).persist THEN "load" ELSE "over"
    OBVIOUS
  <2>3. PICK o : o = rcCall[c]
    OBVIOUS
  <2>4. PICK k : RcMoves(c, k) /\ k = RcRec(pc, Ask(c).ep, Ask(c).name, o.host, o.doc, v, o.saw, o.bare)
    BY <2>1, <2>2, <2>3, RemoveGoesAs
  <2>5. IsRc(k) /\ k.pc = pc /\ k.ep = Ask(c).ep /\ k.name = Ask(c).name /\ k.doc = o.doc /\ k.verdict = v
    BY <2>4, RcFields
  <2>6. RcCallOK(c, k, applied[c])
    <3>1. k.pc \in RcPlaces(Ask(c).tool) /\ AtItsMount(c, k)
      BY <1>1, <2>1, <2>2, <2>5 DEF RcPlaces, AtItsMount
    <3>2. k.pc \notin {"mount"} /\ (k.pc \in {"load", "open", "save"} => Ask(c).persist)
      BY <2>2, <2>5
    <3>3. k.verdict \in {"none", "error"} \/ (k.pc = "over" /\ k.verdict = "ok")
      BY <2>1, <2>2, <2>5
    <3> QED
      BY <1>1, <2>3, <2>5, <3>1, <3>2, <3>3, RcChanges, DocOK
  <2>7. RcSteps(c, k, applied[c])
    BY <1>1, <2>4, <2>6, AppliedStays DEF RcSteps
  <2>8. Aside(c, k)
    BY <1>1, <2>2, <2>5 DEF Aside
  <2>9. NodesOK'
    <3>1. odl' \subseteq odl
      BY <2>1
    <3>2. \A n \in odl : NodeOK(n)'
      BY <2>7, RcStands, RcStillOK DEF RcInv, NodesOK
    <3> QED
      BY <3>1, <3>2 DEF RcInv, NodesOK
  <2>10. ASSUME Calm', NEW ep, NEW name
         PROVE  MountStays(c, ep, name)
    <3>1. SUFFICES ASSUME NodesAt(ep, name) # {}, NodesAt(ep, name)' = {}
                   PROVE  Leaves(c, ep, name)' /\ ~\E d \in RcOf : Filing(d, ep, name)
      BY DEF MountStays
    <3>2. odl' # odl
      BY <3>1 DEF NodesAt
    <3>3. ep = Ask(c).ep /\ name = Ask(c).name
      BY <2>1, <3>1, <3>2 DEF NodesAt
    <3>4. ~\E d \in RcOf : Filing(d, ep, name)
      BY <1>2, <1>3, <2>10, <3>2, <3>3 DEF Calm
    <3>5. rcCall'[c] = k /\ Ask(c)' = Ask(c)
      BY <2>7, RcStands
    <3>6. Leaves(c, ep, name)'
      BY <1>1, <2>2, <2>5, <3>3, <3>5 DEF Leaves, Removes
    <3> QED
      BY <3>4, <3>6
  <2>11. overlap' \in BOOLEAN /\ (overlap => overlap')
    BY <1>2, <1>3
  <2>12. FileOK'
    BY <1>1, <2>7, <2>8, <2>10, <2>11, FileAside
  <2> QED
    BY <1>1, <2>7, <2>9, <2>11, <2>12, RcStepKeeps DEF RcInv, RcWorldOK
<1> QED
  <2>1. CASE endpoints.cut \/ Ask(c).ep \notin rcSetting.controllers
    BY <1>4, <2>1 DEF DeleteMount, Loads
  <2>2. CASE ~endpoints.cut /\ Ask(c).ep \in rcSetting.controllers
    BY <1>5, <2>2 DEF DeleteMount
  <2> QED
    BY <2>1, <2>2

(***************************************************************************)
(* The file                                                                 *)
(***************************************************************************)
\* A call that keeps its mount, while the controllers keep theirs.
KeepsItsMount(c, k) == k.ep = rcCall[c].ep /\ k.name = rcCall[c].name

\* What that leaves.
LEMMA FileStepLeaves ==
  ASSUME RcInv, NEW c \in RcOf, NEW k, NEW a, RcSteps(c, k, a), KeepsItsMount(c, k), odl' = odl
  PROVE  /\ \A ep, name : NodesAt(ep, name)' = NodesAt(ep, name)
         /\ \A d \in RcOf : \A ep, name : Removes(d, ep, name)' <=> Removes(d, ep, name)
         /\ \A d \in RcOf : \A ep, name : d # c => (Leaves(d, ep, name)' <=> Leaves(d, ep, name))
         /\ \A ep, name : k.pc \in {"load", "open", "save"} /\ Leaves(c, ep, name) => Leaves(c, ep, name)'
         /\ \A d \in RcOf : d # c => (Changing(d)' <=> Changing(d))
         /\ Changing(c)' <=> k.pc \in {"open", "save"}
         /\ NodesOK'
<1>1. /\ rcCall'[c] = k /\ \A d \in RcOf : d # c => rcCall'[d] = rcCall[d]
      /\ \A d : Ask(d)' = Ask(d)
  BY RcStands
<1>2. \A ep, name : NodesAt(ep, name)' = NodesAt(ep, name)
  BY DEF NodesAt
<1>3. \A d \in RcOf : \A ep, name : Removes(d, ep, name)' <=> Removes(d, ep, name)
  BY <1>1 DEF Removes, KeepsItsMount
<1>4. \A d \in RcOf : \A ep, name : d # c => (Leaves(d, ep, name)' <=> Leaves(d, ep, name))
  BY <1>1, <1>3 DEF Leaves
<1>5. \A ep, name : k.pc \in {"load", "open", "save"} /\ Leaves(c, ep, name) => Leaves(c, ep, name)'
  BY <1>1, <1>3 DEF Leaves
<1>6. \A d \in RcOf : d # c => (Changing(d)' <=> Changing(d))
  BY <1>1 DEF Changing
<1>7. Changing(c)' <=> k.pc \in {"open", "save"}
  BY <1>1 DEF Changing
<1>8. NodesOK'
  BY RcStands, NodesStay
<1> QED
  BY <1>2, <1>3, <1>4, <1>5, <1>6, <1>7, <1>8

\* A call reads the file.
LEMMA LoadFileOK ==
  ASSUME RcInv, NEW c \in RcOf, NEW k, NEW a, RcSteps(c, k, a), KeepsItsMount(c, k), odl' = odl,
         UNCHANGED endpoints, ~endpoints.cut, rcCall[c].pc = "load",
         overlap' = (overlap \/ \E d \in DOMAIN rcCall \ {c} : Changing(d)),
         \/ /\ k.pc = "over" /\ Ask(c).tool = "remove" /\ ~InFile(endpoints.mounts, k.ep, k.name)
         \/ /\ k.pc = "open"
            /\ \A e \in k.doc : e \in endpoints.mounts \/ (Ask(c).tool = "add" /\ e.ep = k.ep /\ e.name = k.name)
            /\ \A e \in endpoints.mounts : e \in k.doc \/ (e.ep = k.ep /\ e.name = k.name)
            /\ Ask(c).tool = "add" => InFile(k.doc, k.ep, k.name)
            /\ Ask(c).tool = "remove" => ~InFile(k.doc, k.ep, k.name)
  PROVE  FileOK'
<1>1. SUFFICES ASSUME Calm'
               PROVE  (AloneAtFile /\ OwnEntry /\ EntriesStand /\ FiledStand /\ AddedAreFiled)'
  BY DEF FileOK
<1>2. Calm /\ \A d \in RcOf : d # c => ~Changing(d)
  BY <1>1, RcStands DEF Calm, RcInv, RcWorldOK
<1>3. AloneAtFile /\ OwnEntry /\ EntriesStand /\ FiledStand /\ AddedAreFiled
  BY <1>2 DEF RcInv, FileOK
<1>4. /\ RcOf' = RcOf /\ rcCall'[c] = k /\ \A d \in RcOf : d # c => rcCall'[d] = rcCall[d]
      /\ \A d : Ask(d)' = Ask(d)
  BY RcStands
<1>5. \A d \in RcOf : Changing(d)' <=> (d = c /\ k.pc = "open")
  BY <1>2, FileStepLeaves
<1>6. AloneAtFile'
  BY <1>4, <1>5 DEF AloneAtFile
<1>7. Ask(c).tool \in {"add", "remove"}
  BY RcAt
<1>8. OwnEntry'
  BY <1>4, <1>5, <1>7 DEF OwnEntry
<1>9. ASSUME NEW ep, NEW name, Stands(ep, name), k.pc = "open" \/ ~(ep = k.ep /\ name = k.name)
      PROVE  Stands(ep, name)'
  <2>1. CASE NodesAt(ep, name) # {}
    BY <2>1, FileStepLeaves DEF Stands
  <2>2. CASE \E d \in RcOf : Leaves(d, ep, name)
    <3>1. PICK d \in RcOf : Leaves(d, ep, name)
      BY <2>2
    <3>2. d # c \/ k.pc = "open"
      BY <1>9, <3>1 DEF Leaves, Removes, KeepsItsMount
    <3>3. Leaves(d, ep, name)'
      BY <3>1, <3>2, FileStepLeaves
    <3> QED
      BY <1>4, <3>3 DEF Stands
  <2> QED
    BY <1>9, <2>1, <2>2 DEF Stands
<1>10. FiledStand'
  BY <1>3, <1>4, FileStepLeaves DEF FiledStand, KeepsItsMount
<1>11. \A e \in endpoints.mounts : Stands(e.ep, e.name)'
  BY <1>3, <1>9 DEF EntriesStand, InFile
<1>12. ASSUME k.pc = "open", NEW e \in k.doc
       PROVE  Stands(e.ep, e.name)'
  <2>1. CASE e \in endpoints.mounts
    BY <1>11, <2>1
  <2>2. CASE Ask(c).tool = "add" /\ e.ep = k.ep /\ e.name = k.name
    <3>1. NodesAt(k.ep, k.name) # {}
      BY <1>3, <2>2 DEF FiledStand, KeepsItsMount
    <3> QED
      BY <2>2, <3>1, FileStepLeaves DEF Stands
  <2> QED
    BY <1>12, <2>1, <2>2
<1>13. EntriesStand'
  BY <1>4, <1>5, <1>11, <1>12 DEF EntriesStand
<1>14. AddedAreFiled'
  <2>1. SUFFICES ASSUME NEW d \in RcOf, Ask(d).tool = "add", rcCall'[d].verdict = "ok", Ask(d).persist
                 PROVE  \/ InEach(rcCall[d].ep, rcCall[d].name)'
                        \/ \E x \in RcOf : Removes(x, rcCall[d].ep, rcCall[d].name)'
    BY <1>4 DEF AddedAreFiled
  <2>2. PICK ep, name : ep = rcCall[d].ep /\ name = rcCall[d].name
    OBVIOUS
  <2>3. d # c
    <3>1. CASE k.pc = "over"
      BY <2>1, <3>1
    <3>2. CASE k.pc = "open"
      BY <1>4, <2>1, <3>2 DEF RcSteps, RcCallOK
    <3> QED
      BY <3>1, <3>2
  <2>4. rcCall'[d] = rcCall[d]
    BY <1>4, <2>3
  <2>5. CASE \E x \in RcOf : Removes(x, ep, name)
    BY <2>2, <2>4, <2>5, FileStepLeaves
  <2>6. CASE InEach(ep, name)
    <3>1. PICK e \in endpoints.mounts : e.ep = ep /\ e.name = name
      BY <2>6 DEF InEach, InFile
    <3>2. CASE k.pc = "open" => InFile(k.doc, ep, name)
      <4>1. InEach(ep, name)'
        BY <1>4, <1>5, <3>1, <3>2 DEF InEach, InFile
      <4> QED
        BY <2>2, <2>4, <4>1
    <3>3. CASE k.pc = "open" /\ ~InFile(k.doc, ep, name)
      <4>1. ep = k.ep /\ name = k.name /\ Ask(c).tool = "remove"
        BY <1>7, <3>1, <3>3 DEF InFile
      <4>2. Removes(c, ep, name)
        BY <4>1 DEF Removes, KeepsItsMount
      <4>3. Removes(c, ep, name)'
        BY <4>2, FileStepLeaves
      <4> QED
        BY <2>2, <2>4, <4>3
    <3> QED
      BY <3>2, <3>3
  <2> QED
    BY <1>3, <2>1, <2>2, <2>4, <2>5, <2>6 DEF AddedAreFiled
<1> QED
  BY <1>6, <1>8, <1>10, <1>13, <1>14

\* A call reads the file and changes what it has read.
LEMMA LoadFileKeeps ==
  ASSUME RcInv, NEW c \in RcOf, LoadFile(c)
  PROVE  RcInv'
<1>1. /\ rcCall[c].pc = "load" /\ BoxesStay /\ UNCHANGED endpoints /\ LabStays
      /\ overlap' = (overlap \/ \E d \in DOMAIN rcCall \ {c} : Changing(d))
  BY DEF LoadFile
<1>2. PICK o : o = rcCall[c]
  OBVIOUS
<1>3. /\ RcCallOK(c, o, applied[c]) /\ IsRc(o) /\ Ask(c).tool \in {"add", "remove"} /\ DOMAIN rcCall = RcOf
      /\ Ask(c).name # "none"
  BY <1>1, <1>2, RcAt
<1>4. /\ AtItsMount(c, o) /\ o.verdict \in {"none", "error"} /\ (Ask(c).tool = "add" => o.verdict = "none")
      /\ Ask(c).tool = "add" => Ask(c).dev \in DOMAIN rcSetting.device
      /\ Ask(c).persist
  BY <1>1, <1>2, <1>3 DEF RcCallOK, ChangeOK
<1>5. WritesAt(c, applied[c]) /\ odl' = odl /\ overlap' \in BOOLEAN
  BY <1>1, AppliedStays DEF BoxesStay, RcInv, RcWorldOK
<1>6. \A v : EndsRight(c, v, applied[c])
  BY <1>1, <1>3 DEF EndsRight, Requests, RcWrites
<1>7. \A e \in endpoints.mounts : EntryOK(e)
  BY DEF RcInv, RcWorldOK
<1>8. CASE endpoints.cut
  <2>1. RcEnds(c, "raised")
    BY <1>8 DEF LoadFile, Loads
  <2>2. PICK k : RcSteps(c, k, applied[c])
    BY <1>1, <1>5, <1>6, <2>1, RcEndsOK
  <2>3. ~Calm'
    <3>1. SUFFICES ASSUME Calm'
                   PROVE  FALSE
      OBVIOUS
    <3>2. Calm
      BY <1>1, <2>2, <3>1, RcStands DEF Calm, RcInv, RcWorldOK
    <3>3. PICK d \in RcOf : rcCall[d].pc = "save"
      BY <1>8, <3>2 DEF RcInv, FileOK, AloneAtFile
    <3>4. d # c /\ Changing(d)
      BY <1>1, <3>3 DEF Changing
    <3> QED
      BY <1>1, <1>3, <3>1, <3>4 DEF Calm
  <2>4. NodesOK'
    BY <1>5, <2>2, RcStands, NodesStay
  <2> QED
    BY <1>1, <1>5, <1>7, <2>2, <2>3, <2>4, RcStepKeeps DEF FileOK, RcInv, RcWorldOK
<1>9. PICK mine : mine = {e \in endpoints.mounts : e.ep = o.ep /\ e.name = o.name}
  OBVIOUS
<1>10. CASE ~endpoints.cut /\ Ask(c).tool = "remove" /\ mine = {}
  <2>1. PICK v : v = IF o.verdict = "none" THEN "ok" ELSE o.verdict
    OBVIOUS
  <2>2. RcEnds(c, v) /\ v \in {"ok", "error"}
    BY <1>2, <1>4, <1>9, <1>10, <2>1 DEF LoadFile, Loads
  <2>3. PICK k : RcSteps(c, k, applied[c]) /\ k.pc = "over" /\ k.ep = o.ep /\ k.name = o.name
    BY <1>1, <1>2, <1>5, <1>6, <2>2, RcEndsOK
  <2>4. ~InFile(endpoints.mounts, k.ep, k.name) /\ KeepsItsMount(c, k)
    BY <1>2, <1>9, <1>10, <2>3 DEF InFile, KeepsItsMount
  <2>5. FileOK'
    BY <1>1, <1>5, <1>10, <2>3, <2>4, LoadFileOK
  <2>6. NodesOK'
    BY <1>5, <2>3, RcStands, NodesStay
  <2> QED
    BY <1>1, <1>5, <1>7, <2>3, <2>5, <2>6, RcStepKeeps DEF RcInv, RcWorldOK
<1>11. CASE ~endpoints.cut /\ ~(Ask(c).tool = "remove" /\ mine = {})
  <2>1. PICK entry : entry = Entry(o.ep, o.name, Meant(Ask(c).dev))
    OBVIOUS
  <2>2. PICK doc : doc = (endpoints.mounts \ mine) \cup (IF Ask(c).tool = "add" THEN {entry} ELSE {})
    OBVIOUS
  <2>3. PICK k : k = [o EXCEPT !.pc = "open", !.doc = doc]
    OBVIOUS
  <2>4. rcCall' = [rcCall EXCEPT ![c].pc = "open", ![c].doc = doc]
    BY <1>2, <1>9, <1>11, <2>1, <2>2 DEF LoadFile, Loads
  <2>5. RcMoves(c, k)
    BY <1>2, <2>3, <2>4 DEF RcMoves, RcInv, RcWorldOK
  <2>6. k = RcRec("open", o.ep, o.name, o.host, doc, o.verdict, o.saw, o.bare)
    BY <1>3, <2>3, RcPcDoc
  <2>7. IsRc(k) /\ k.pc = "open" /\ k.ep = o.ep /\ k.name = o.name /\ k.doc = doc /\ k.verdict = o.verdict
    BY <2>6, RcFields
  <2>8. entry.ep = o.ep /\ entry.name = o.name /\ (Ask(c).tool = "add" => EntryOK(entry))
    <3>1. entry.ep = o.ep /\ entry.name = o.name /\ entry.dev = Meant(Ask(c).dev)
      BY <2>1 DEF Entry
    <3>2. o.ep # "none" /\ o.name # "none" /\ o.ep = Ask(c).ep /\ o.name = Ask(c).name
      BY <1>3, <1>4, RcGiven DEF AtItsMount, RcInv, RcWorldOK
    <3>3. Ask(c).tool = "add" => Meant(Ask(c).dev) \in Owners(o.ep, o.name)
      BY <1>4, <3>2 DEF Owners, AddsOf
    <3> QED
      BY <3>1, <3>2, <3>3 DEF EntryOK
  <2>9. \A e \in k.doc : EntryOK(e)
    BY <1>7, <2>2, <2>7, <2>8
  <2>10. RcCallOK(c, k, applied[c])
    <3>1. k.pc \in RcPlaces(Ask(c).tool) /\ AtItsMount(c, k)
      BY <1>3, <1>4, <2>7 DEF RcPlaces, AtItsMount
    <3> QED
      BY <1>3, <1>4, <2>7, <2>9, <3>1, RcChanges
  <2>11. RcSteps(c, k, applied[c]) /\ KeepsItsMount(c, k)
    BY <1>1, <1>2, <1>5, <2>5, <2>7, <2>10 DEF RcSteps, KeepsItsMount
  <2>12. /\ \A e \in k.doc : e \in endpoints.mounts \/ (Ask(c).tool = "add" /\ e.ep = k.ep /\ e.name = k.name)
         /\ \A e \in endpoints.mounts : e \in k.doc \/ (e.ep = k.ep /\ e.name = k.name)
         /\ Ask(c).tool = "add" => InFile(k.doc, k.ep, k.name)
         /\ Ask(c).tool = "remove" => ~InFile(k.doc, k.ep, k.name)
    BY <1>9, <2>2, <2>7, <2>8 DEF InFile
  <2>13. FileOK'
    BY <1>1, <1>5, <1>11, <2>7, <2>11, <2>12, LoadFileOK
  <2>14. NodesOK'
    BY <1>5, <2>11, RcStands, NodesStay
  <2> QED
    BY <1>1, <1>5, <1>7, <2>11, <2>13, <2>14, RcStepKeeps DEF RcInv, RcWorldOK
<1> QED
  BY <1>8, <1>10, <1>11

\* It opens the file, which is empty from then on.
LEMMA OpenFileKeeps ==
  ASSUME RcInv, NEW c \in RcOf, OpenFile(c)
  PROVE  RcInv'
<1>1. /\ rcCall[c].pc = "open" /\ endpoints' = [mounts |-> {}, cut |-> TRUE] /\ RcGoes(c, "save")
      /\ BoxesStay /\ UNCHANGED overlap /\ LabStays
  BY DEF OpenFile
<1>2. PICK o : o = rcCall[c]
  OBVIOUS
<1>3. PICK k : RcMoves(c, k) /\ k = RcRec("save", o.ep, o.name, o.host, o.doc, o.verdict, o.saw, o.bare)
  BY <1>1, <1>2, RcGoesAs
<1>4. IsRc(k) /\ k.pc = "save" /\ k.ep = o.ep /\ k.name = o.name /\ k.doc = o.doc /\ k.verdict = o.verdict
  BY <1>3, RcFields
<1>5. RcCallOK(c, o, applied[c]) /\ Ask(c).tool \in {"add", "remove"}
  BY <1>1, <1>2, RcAt
<1>6. /\ AtItsMount(c, o) /\ o.verdict \in {"none", "error"} /\ (Ask(c).tool = "add" => o.verdict = "none")
      /\ Ask(c).tool = "add" => Ask(c).dev \in DOMAIN rcSetting.device
      /\ Ask(c).persist
  BY <1>1, <1>2, <1>5 DEF RcCallOK, ChangeOK
<1>7. RcCallOK(c, k, applied[c])
  <2>1. k.pc \in RcPlaces(Ask(c).tool) /\ AtItsMount(c, k)
    BY <1>4, <1>5, <1>6 DEF RcPlaces, AtItsMount
  <2> QED
    BY <1>2, <1>4, <1>5, <1>6, <2>1, RcChanges, DocOK
<1>8. RcSteps(c, k, applied[c]) /\ KeepsItsMount(c, k) /\ odl' = odl
  BY <1>1, <1>2, <1>3, <1>4, <1>7, AppliedStays DEF RcSteps, KeepsItsMount, BoxesStay
<1>9. FileOK'
  <2>1. SUFFICES ASSUME Calm'
                 PROVE  (AloneAtFile /\ OwnEntry /\ EntriesStand /\ FiledStand /\ AddedAreFiled)'
    BY DEF FileOK
  <2>2. Calm
    BY <1>1, <1>8, <2>1, RcStands DEF Calm
  <2>3. AloneAtFile /\ OwnEntry /\ EntriesStand /\ FiledStand /\ AddedAreFiled
    BY <2>2 DEF RcInv, FileOK
  <2>4. /\ RcOf' = RcOf /\ rcCall'[c] = k /\ \A d \in RcOf : d # c => rcCall'[d] = rcCall[d]
        /\ \A d : Ask(d)' = Ask(d)
    BY <1>8, RcStands
  <2>5. \A d \in RcOf : (Changing(d)' <=> d = c) /\ (Changing(d) <=> d = c)
    BY <1>1, <1>4, <1>8, <2>3, FileStepLeaves DEF AloneAtFile, Changing
  <2>6. AloneAtFile'
    BY <1>4, <2>4, <2>5 DEF AloneAtFile
  <2>7. \A d \in RcOf : rcCall'[d].doc = rcCall[d].doc /\ rcCall'[d].ep = rcCall[d].ep /\ rcCall'[d].name = rcCall[d].name
    BY <1>2, <1>4, <2>4
  <2>8. OwnEntry'
    BY <2>3, <2>4, <2>5, <2>7 DEF OwnEntry, InFile
  <2>9. \A ep, name : Stands(ep, name) => Stands(ep, name)'
    BY <1>4, <1>8, <2>4, FileStepLeaves DEF Stands
  <2>10. EntriesStand'
    BY <1>1, <2>3, <2>4, <2>5, <2>7, <2>9 DEF EntriesStand
  <2>11. FiledStand'
    BY <1>1, <1>8, <2>3, <2>4, <2>7, FileStepLeaves DEF FiledStand
  <2>12. ASSUME NEW d \in RcOf, Ask(d).tool = "add", rcCall'[d].verdict = "ok", Ask(d).persist
         PROVE  \/ InEach(rcCall[d].ep, rcCall[d].name)'
                \/ \E x \in RcOf : Removes(x, rcCall[d].ep, rcCall[d].name)'
    <3>1. PICK ep, name : ep = rcCall[d].ep /\ name = rcCall[d].name
      OBVIOUS
    <3>2. d # c /\ rcCall'[d] = rcCall[d]
      BY <1>4, <1>6, <2>4, <2>12
    <3>3. InEach(ep, name) => InEach(ep, name)'
      BY <1>1, <2>4, <2>5, <2>7 DEF InEach, InFile
    <3>4. \A x \in RcOf : Removes(x, ep, name) => Removes(x, ep, name)'
      BY <1>8, FileStepLeaves
    <3>5. InEach(ep, name) \/ \E x \in RcOf : Removes(x, ep, name)
      BY <2>3, <2>12, <3>1, <3>2 DEF AddedAreFiled
    <3> QED
      BY <3>1, <3>2, <3>3, <3>4, <3>5
  <2>13. AddedAreFiled'
    BY <2>4, <2>12 DEF AddedAreFiled
  <2> QED
    BY <2>6, <2>8, <2>10, <2>11, <2>13
<1>10. NodesOK'
  BY <1>8, RcStands, NodesStay
<1>11. /\ overlap' \in BOOLEAN /\ endpoints' = [mounts |-> endpoints'.mounts, cut |-> endpoints'.cut]
       /\ \A e \in endpoints'.mounts : EntryOK(e)
  BY <1>1 DEF RcInv, RcWorldOK
<1> QED
  BY <1>8, <1>9, <1>10, <1>11, RcStepKeeps

\* It writes what it has read and changed.
LEMMA SaveFileKeeps ==
  ASSUME RcInv, NEW c \in RcOf, SaveFile(c)
  PROVE  RcInv'
<1>1. PICK o, v : o = rcCall[c] /\ v = IF rcCall[c].verdict = "none" THEN "ok" ELSE rcCall[c].verdict
  OBVIOUS
<1>2. /\ o.pc = "save" /\ endpoints' = [mounts |-> o.doc, cut |-> FALSE] /\ RcEnds(c, v)
      /\ BoxesStay /\ UNCHANGED overlap /\ LabStays
  BY <1>1 DEF SaveFile
<1>3. RcCallOK(c, o, applied[c]) /\ Ask(c).tool \in {"add", "remove"} /\ Ask(c).name # "none"
  BY <1>1, <1>2, RcAt
<1>4. v \in {"ok", "error"}
  BY <1>1, <1>2, <1>3 DEF RcCallOK
<1>5. EndsRight(c, v, applied[c]) /\ WritesAt(c, applied[c])
  BY <1>1, <1>2, <1>3, AppliedStays DEF EndsRight, Requests, RcWrites, BoxesStay
<1>6. PICK k : RcSteps(c, k, applied[c]) /\ k.pc = "over" /\ k.ep = o.ep /\ k.name = o.name /\ k.doc = o.doc
  BY <1>1, <1>2, <1>4, <1>5, RcEndsOK
<1>7. KeepsItsMount(c, k) /\ odl' = odl
  BY <1>1, <1>2, <1>6 DEF KeepsItsMount, BoxesStay
<1>8. FileOK'
  <2>1. SUFFICES ASSUME Calm'
                 PROVE  (AloneAtFile /\ OwnEntry /\ EntriesStand /\ FiledStand /\ AddedAreFiled)'
    BY DEF FileOK
  <2>2. Calm
    BY <1>2, <1>6, <2>1, RcStands DEF Calm
  <2>3. AloneAtFile /\ OwnEntry /\ EntriesStand /\ FiledStand /\ AddedAreFiled
    BY <2>2 DEF RcInv, FileOK
  <2>4. /\ RcOf' = RcOf /\ rcCall'[c] = k /\ \A d \in RcOf : d # c => rcCall'[d] = rcCall[d]
        /\ \A d : Ask(d)' = Ask(d)
    BY <1>6, RcStands
  <2>5. Changing(c) /\ \A d \in RcOf : ~Changing(d)'
    BY <1>1, <1>2, <1>6, <1>7, <2>3, FileStepLeaves DEF AloneAtFile, Changing
  <2>6. AloneAtFile' /\ OwnEntry'
    BY <1>2, <2>4, <2>5 DEF AloneAtFile, OwnEntry
  <2>7. ASSUME NEW e \in o.doc
        PROVE  Stands(e.ep, e.name)'
    <3>1. Stands(e.ep, e.name)
      BY <1>1, <2>3, <2>5, <2>7 DEF EntriesStand
    <3>2. CASE NodesAt(e.ep, e.name) # {}
      BY <1>6, <1>7, <3>2, FileStepLeaves DEF Stands
    <3>3. CASE \E d \in RcOf : Leaves(d, e.ep, e.name)
      <4>1. PICK d \in RcOf : Leaves(d, e.ep, e.name)
        BY <3>3
      <4>2. d # c
        BY <1>1, <2>3, <2>5, <2>7, <4>1 DEF OwnEntry, InFile, Leaves, Removes
      <4>3. Leaves(d, e.ep, e.name)'
        BY <1>6, <1>7, <4>1, <4>2, FileStepLeaves
      <4> QED
        BY <2>4, <4>3 DEF Stands
    <3> QED
      BY <3>1, <3>2, <3>3 DEF Stands
  <2>8. EntriesStand'
    BY <1>2, <2>4, <2>5, <2>7 DEF EntriesStand
  <2>9. FiledStand'
    BY <1>6, <1>7, <2>3, <2>4, FileStepLeaves DEF FiledStand, KeepsItsMount
  <2>10. ASSUME NEW d \in RcOf, Ask(d).tool = "add", rcCall'[d].verdict = "ok", Ask(d).persist
         PROVE  \/ InEach(rcCall[d].ep, rcCall[d].name)'
                \/ \E x \in RcOf : Removes(x, rcCall[d].ep, rcCall[d].name)'
    <3>1. PICK ep, name : ep = rcCall[d].ep /\ name = rcCall[d].name
      OBVIOUS
    <3>2. rcCall'[d].ep = ep /\ rcCall'[d].name = name
      BY <1>1, <1>6, <2>4, <3>1
    <3>3. InFile(o.doc, ep, name) \/ \E x \in RcOf : Removes(x, ep, name)
      <4>1. CASE d = c
        BY <1>1, <2>3, <2>5, <2>10, <3>1, <4>1 DEF OwnEntry
      <4>2. CASE d # c
        BY <1>1, <2>3, <2>4, <2>5, <2>10, <3>1, <4>2 DEF AddedAreFiled, InEach
      <4> QED
        BY <4>1, <4>2
    <3>4. InFile(o.doc, ep, name) => InEach(ep, name)'
      BY <1>2, <2>4, <2>5 DEF InEach, InFile
    <3>5. \A x \in RcOf : Removes(x, ep, name) => Removes(x, ep, name)'
      BY <1>6, <1>7, FileStepLeaves
    <3> QED
      BY <3>2, <3>3, <3>4, <3>5
  <2>11. AddedAreFiled'
    BY <2>4, <2>10 DEF AddedAreFiled
  <2> QED
    BY <2>6, <2>8, <2>9, <2>11
<1>9. NodesOK'
  BY <1>6, <1>7, RcStands, NodesStay
<1>10. \A e \in o.doc : EntryOK(e)
  BY <1>1, DocOK
<1>11. /\ overlap' \in BOOLEAN /\ endpoints' = [mounts |-> endpoints'.mounts, cut |-> endpoints'.cut]
       /\ \A e \in endpoints'.mounts : EntryOK(e)
  BY <1>2, <1>10 DEF RcInv, RcWorldOK
<1> QED
  BY <1>6, <1>8, <1>9, <1>11, RcStepKeeps

(***************************************************************************)
(* Reads and writes                                                         *)
(***************************************************************************)
\* A request of a device is sent to a mount of that device, or to the
\* controller it names.
LEMMA ResolvedOK ==
  ASSUME RcInv, NEW c \in RcOf, NEW r \in Resolved(c), r.ep # "none", Ask(c).dev # "none", Ask(c).name = "none"
  PROVE  IF r.name = "none" THEN Ask(c).ep # "none" ELSE Meant(Ask(c).dev) \in Owners(r.ep, r.name)
<1>1. CASE EntriesOf(Ask(c).dev) = {}
  BY <1>1 DEF Resolved
<1>2. CASE EntriesOf(Ask(c).dev) # {}
  <2>1. PICK e \in EntriesOf(Ask(c).dev) : r.ep = e.ep /\ r.name = e.name
    BY <1>2 DEF Resolved
  <2>2. e \in endpoints.mounts /\ Meant(e.dev) = Meant(Ask(c).dev)
    BY <2>1 DEF EntriesOf
  <2>3. e.name # "none" /\ e.dev \in Owners(e.ep, e.name) /\ rcSetting \in RcSettings
    BY <2>2 DEF RcInv, RcWorldOK, EntryOK
  <2>4. Meant(e.dev) = e.dev
    BY <2>3, OwnersAreBoxes
  <2> QED
    BY <2>1, <2>2, <2>3, <2>4
<1> QED
  BY <1>1, <1>2

\* A request finds the mount it is sent to.
LEMMA ResolveKeeps ==
  ASSUME RcInv, NEW c \in RcOf, Resolve(c)
  PROVE  RcInv'
<1>1. rcCall[c].pc = "idle" /\ Ask(c).tool \in Requests /\ BoxesStay /\ FileStays /\ LabStays
  BY DEF Resolve, Requests
<1>2. CASE RcEnds(c, "raised") \/ RcEnds(c, "error") \/ RcEnds(c, "dry_run")
  BY <1>1, <1>2, RcEndQuiet DEF Requests, RcWrites
<1>3. CASE ~(RcEnds(c, "raised") \/ RcEnds(c, "error") \/ RcEnds(c, "dry_run"))
  <2>1. PICK r \in Resolved(c) : /\ r.ep # "none"
          /\ rcCall' = [rcCall EXCEPT ![c].pc = "send", ![c].ep = r.ep, ![c].name = r.name, ![c].bare = (r.name = "none")]
    BY <1>3 DEF Resolve, Loads
  <2>2. PICK o, x, y, z : o = rcCall[c] /\ x = r.ep /\ y = r.name /\ z = (r.name = "none")
    OBVIOUS
  <2>3. PICK k : k = [o EXCEPT !.pc = "send", !.ep = x, !.name = y, !.bare = z]
    OBVIOUS
  <2>4. RcMoves(c, k)
    BY <2>1, <2>2, <2>3 DEF RcMoves, RcInv, RcWorldOK
  <2>5. RcCallOK(c, o, applied[c]) /\ IsRc(o) /\ Ask(c).tool \in RcTools
    BY <2>2, RcAt
  <2>6. k = RcRec("send", x, y, o.host, o.doc, o.verdict, o.saw, z)
    <3>1. IsRc(o)
      BY <2>5
    <3> QED
      BY ONLY <3>1, <2>3 DEF IsRc, RcRec
  <2>7. /\ IsRc(k) /\ k.pc = "send" /\ k.ep = x /\ k.name = y /\ k.doc = o.doc /\ k.verdict = o.verdict /\ k.saw = o.saw
        /\ k.bare = z
    BY <2>6, RcFields
  <2>8. o.verdict = "none" /\ o.saw = "none" /\ applied[c] = {} /\ \A e \in o.doc : EntryOK(e)
    BY <1>1, <2>2, <2>5 DEF RcCallOK, RequestOK, AppliedOK, ChangeOK, Requests, RcWrites
  <2>9. RequestOK(c, k)
    BY <2>1, <2>2, <2>7, <2>8, ResolvedOK DEF RequestOK
  <2>10. AppliedOK(c, k, applied[c])
    BY <2>7, <2>8 DEF AppliedOK
  <2>11. ChangeOK(c, k) /\ k.pc \in RcPlaces(Ask(c).tool)
    BY <1>1, <2>7, <2>8 DEF ChangeOK, RcPlaces, Requests, RcWrites
  <2>12. RcSteps(c, k, applied[c])
    BY <1>1, <2>4, <2>7, <2>8, <2>9, <2>10, <2>11, AppliedStays DEF RcCallOK, RcSteps, BoxesStay
  <2>13. Aside(c, k)
    BY <1>1, <2>7 DEF Aside, Requests, RcWrites
  <2>14. NodesOK' /\ KeysStay
    BY <1>1, <2>12, RcStands, NodesStay DEF BoxesStay, KeysStay, NodesAt
  <2> QED
    BY <1>1, <2>12, <2>13, <2>14, KeysMounts, RcGoAside
<1> QED
  BY <1>2, <1>3

\* A request reaches one box at most, and its device's where names are firm.
LEMMA ReachesOK ==
  ASSUME RcInv, NEW c \in RcOf, rcCall[c].pc = "send"
  PROVE  /\ Reaches(c) = {} \/ \E x \in Reaches(c) : Reaches(c) = {x}
         /\ Firm /\ Ask(c).dev # "none" /\ Ask(c).name = "none" => Reaches(c) \subseteq OwnBox(c)
<1>1. PICK ep, name : ep = rcCall[c].ep /\ name = rcCall[c].name
  OBVIOUS
<1>2. RequestOK(c, rcCall[c])
  BY RcAt DEF RcCallOK
<1>3. CASE rcCall[c].bare
  BY <1>2, <1>3 DEF Reaches, RequestOK, OwnBox
<1>4. CASE ~rcCall[c].bare
  <2>1. Reaches(c) = {n.with : n \in {n \in NodesAt(ep, name) : n.state = "connected"}}
    BY <1>1, <1>4 DEF Reaches
  <2>2. \A m, n \in NodesAt(ep, name) : m = n
    BY DEF NodesAt, RcInv, NodesOK
  <2>3. Reaches(c) = {} \/ \E x \in Reaches(c) : Reaches(c) = {x}
    BY <2>1, <2>2
  <2>4. ASSUME Firm, Ask(c).dev # "none", Ask(c).name = "none", NEW x \in Reaches(c)
        PROVE  x \in OwnBox(c)
    <3>1. PICK n \in odl : n.ep = ep /\ n.name = name /\ n.state = "connected" /\ x = n.with
      BY <2>1, <2>4 DEF NodesAt
    <3>2. NodeOK(n)
      BY <3>1 DEF RcInv, NodesOK
    <3>3. PICK b \in Owners(ep, name) : n.with = b
      BY <2>4, <3>1, <3>2 DEF NodeOK
    <3>4. Meant(Ask(c).dev) \in Owners(ep, name)
      BY <1>1, <1>2, <1>4, <2>4 DEF RequestOK
    <3>5. b = Meant(Ask(c).dev)
      BY <2>4, <3>4, OwnersAreOne DEF Firm, RcInv, RcWorldOK
    <3> QED
      BY <3>1, <3>3, <3>5 DEF OwnBox
  <2> QED
    BY <2>3, <2>4
<1> QED
  BY <1>3, <1>4

\* A request is sent with nothing carried out yet.
LEMMA AtSend ==
  ASSUME RcInv, NEW c \in RcOf, rcCall[c].pc = "send"
  PROVE  applied[c] = {} /\ Ask(c).tool \in Requests /\ Ask(c).tool \notin {"add", "remove", "status"}
  BY RcAt DEF RcCallOK, AppliedOK, Requests, RcWrites

\* A write that ends with v, carried out at a.
LEMMA WriteEnds ==
  ASSUME RcInv, NEW c \in RcOf, rcCall[c].pc = "send", Ask(c).tool \in RcWrites, NEW v \in {"ok", "error"}, NEW a,
         a = {} \/ a = Reaches(c), v = "ok" => a # {}, RcEnds(c, v), WritesAt(c, a), UNCHANGED odl, FileStays, LabStays
  PROVE  RcInv'
<1>1. EndsRight(c, v, a)
  BY ReachesOK, AtSend DEF EndsRight
<1>2. DOMAIN rcCall' = DOMAIN rcCall /\ rcSetting' = rcSetting
  BY DEF RcEnds, LabStays
<1>3. NodesOK'
  BY <1>2, NodesStay
<1>4. \A ep, name : MountStays(c, ep, name)
  BY DEF MountStays, NodesAt
<1>5. overlap' \in BOOLEAN /\ overlap' = overlap /\ UNCHANGED endpoints
  BY DEF FileStays, RcInv, RcWorldOK
<1> QED
  BY <1>1, <1>3, <1>4, <1>5, AtSend, RcEndAside

\* A write is carried out where it reaches, or fails.
LEMMA SendWriteKeeps ==
  ASSUME RcInv, NEW c \in RcOf, SendWrite(c)
  PROVE  RcInv'
<1>1. rcCall[c].pc = "send" /\ Ask(c).tool \in RcWrites /\ UNCHANGED odl /\ FileStays /\ LabStays
  BY DEF SendWrite
<1>2. PICK a, w : a = Reaches(c) /\ w = applied[c] \cup a
  OBVIOUS
<1>3. applied[c] = {} /\ w = a
  BY <1>1, <1>2, AtSend
<1>4. applied' = applied => WritesAt(c, {})
  BY <1>3, AppliedStays
<1>5. applied' = [applied EXCEPT ![c] = @ \cup Reaches(c)] => WritesAt(c, a)
  BY <1>2, <1>3 DEF WritesAt
<1>6. \/ a # {} /\ WritesAt(c, a) /\ RcEnds(c, "ok")
      \/ (WritesAt(c, {}) \/ WritesAt(c, a)) /\ RcEnds(c, "error")
  BY <1>2, <1>4, <1>5 DEF SendWrite
<1> QED
  BY <1>1, <1>2, <1>6, WriteEnds

\* A read ends with the answer of what it reached.
LEMMA AnsweredKeeps ==
  ASSUME RcInv, NEW c \in RcOf, rcCall[c].pc = "send", Ask(c).tool \notin RcWrites, Answered(c),
         BoxesStay, FileStays, LabStays
  PROVE  RcInv'
<1>1. PICK b \in Reaches(c) : rcCall' = [rcCall EXCEPT ![c].pc = "over", ![c].verdict = "ok", ![c].saw = b]
  BY DEF Answered
<1>2. PICK o : o = rcCall[c]
  OBVIOUS
<1>3. PICK k : k = [o EXCEPT !.pc = "over", !.verdict = "ok", !.saw = b]
  OBVIOUS
<1>4. RcMoves(c, k)
  BY <1>1, <1>2, <1>3 DEF RcMoves, RcInv, RcWorldOK
<1>5. RcCallOK(c, o, applied[c]) /\ IsRc(o)
  BY <1>2, RcAt
<1>6. k = RcRec("over", o.ep, o.name, o.host, o.doc, "ok", b, o.bare)
  BY <1>3, <1>5, RcPcVerdictSaw
<1>7. /\ IsRc(k) /\ k.pc = "over" /\ k.ep = o.ep /\ k.name = o.name /\ k.doc = o.doc /\ k.verdict = "ok" /\ k.saw = b
      /\ k.bare = o.bare
  BY <1>6, RcFields
<1>8. applied[c] = {} /\ Ask(c).tool \in Requests /\ Ask(c).tool \notin {"add", "remove", "status"}
  BY AtSend
<1>9. Firm /\ Ask(c).dev # "none" /\ Ask(c).name = "none" => b \in OwnBox(c)
  BY <1>1, ReachesOK
<1>10. RequestOK(c, k)
  BY <1>7, <1>9 DEF RequestOK
<1>11. AppliedOK(c, k, applied[c])
  BY <1>7, <1>8 DEF AppliedOK
<1>12. ChangeOK(c, k)
  BY <1>5, <1>7, <1>8 DEF RcCallOK, ChangeOK
<1>13. k.pc \in RcPlaces(Ask(c).tool)
  BY <1>7, <1>8 DEF RcPlaces
<1>14. RcCallOK(c, k, applied[c])
  BY <1>7, <1>8, <1>10, <1>11, <1>12, <1>13 DEF RcCallOK
<1>15. RcSteps(c, k, applied[c])
  BY <1>4, <1>14, AppliedStays DEF RcSteps, BoxesStay
<1>16. Aside(c, k)
  BY <1>2, <1>7, <1>8 DEF Aside
<1>17. NodesOK' /\ KeysStay
  BY <1>15, RcStands, NodesStay DEF BoxesStay, KeysStay, NodesAt
<1> QED
  BY <1>15, <1>16, <1>17, KeysMounts, RcGoAside

\* A read is answered by what it reaches, or fails.
LEMMA SendReadKeeps ==
  ASSUME RcInv, NEW c \in RcOf, SendRead(c) \/ SendKeys(c)
  PROVE  RcInv'
<1>1. rcCall[c].pc = "send" /\ Ask(c).tool \in {"get", "keys"} /\ BoxesStay /\ FileStays /\ LabStays
  BY DEF SendRead, SendKeys
<1>2. Answered(c) \/ RcEnds(c, "error")
  BY DEF SendRead, SendKeys
<1>3. Ask(c).tool \notin RcWrites /\ Ask(c).tool # "add"
  BY <1>1 DEF RcWrites
<1>4. CASE Answered(c)
  BY <1>1, <1>3, <1>4, AnsweredKeeps
<1>5. CASE RcEnds(c, "error")
  BY <1>1, <1>3, <1>5, RcEndQuiet
<1> QED
  BY <1>2, <1>4, <1>5

\* A status changes nothing.
LEMMA StatusOfKeeps ==
  ASSUME RcInv, NEW c \in RcOf, StatusOf(c)
  PROVE  RcInv'
<1>1. rcCall[c].pc = "idle" /\ Ask(c).tool = "status" /\ BoxesStay /\ FileStays /\ LabStays
  BY DEF StatusOf
<1>2. RcEnds(c, "raised") \/ RcEnds(c, "ok") \/ RcEnds(c, "error")
  BY DEF StatusOf, Loads
<1>3. Ask(c).tool \notin RcWrites
  BY <1>1 DEF RcWrites
<1> QED
  BY <1>1, <1>2, <1>3, RcEndQuiet

\* A crash: the setting lets calls fail.
LEMMA RcCrashKeeps ==
  ASSUME RcInv, NEW c \in RcOf, RcCrash(c)
  PROVE  RcInv'
<1>1. "crash" \in rcSetting.faults /\ rcCall[c].pc # "over" /\ RcEnds(c, "killed") /\ BoxesStay /\ FileStays /\ LabStays
  BY DEF RcCrash, RcFault
<1>2. PICK a : a = applied[c]
  OBVIOUS
<1>3. Ask(c).tool \in Requests => a = {}
  BY <1>1, <1>2, RcAt DEF RcCallOK, AppliedOK
<1>4. EndsRight(c, "killed", a)
  BY <1>3 DEF EndsRight
<1>5. WritesAt(c, a)
  BY <1>1, <1>2, AppliedStays DEF BoxesStay
<1>6. PICK k : RcSteps(c, k, a)
  BY <1>1, <1>4, <1>5, RcEndsOK
<1>7. NodesOK'
  BY <1>1, <1>6, RcStands, NodesStay DEF BoxesStay
<1>8. FileOK'
  BY <1>1 DEF FileOK, Calm, LabStays
<1>9. UNCHANGED endpoints /\ overlap' = overlap
  BY <1>1 DEF FileStays
<1> QED
  BY <1>6, <1>7, <1>8, <1>9, RcStepKeeps DEF RcInv, RcWorldOK

(***************************************************************************)
(* The controllers and the chassis                                          *)
(***************************************************************************)
\* What is right of the addresses.
AddressesOK ==
  /\ DOMAIN boxAddress = DOMAIN rcSetting.address /\ (rcSetting.swaps = 0 => boxAddress = rcSetting.address)
  /\ \A x, y \in DOMAIN boxAddress : boxAddress[x] = boxAddress[y] => x = y

\* No call steps, and no mount goes.
LEMMA LabKeeps ==
  ASSUME RcInv, UNCHANGED <<rcSetting, endpoints, overlap, applied, rcCall>>, NodesOK', AddressesOK', KeysStay
  PROVE  RcInv'
<1>1. DOMAIN rcCall' = DOMAIN rcCall /\ rcSetting' = rcSetting /\ rcCall' = rcCall
  OBVIOUS
<1>2. RcOf' = RcOf /\ \A d : Ask(d)' = Ask(d)
  BY <1>1, RcFixed
<1>3. ASSUME NEW c \in RcOf
      PROVE  RcCallOK(c, rcCall[c], applied[c])'
  <2>1. PICK x, y : x = rcCall[c] /\ y = applied[c]
    OBVIOUS
  <2>2. RcCallOK(c, x, y)
    BY <2>1, RcAt
  <2>3. RcCallOK(c, x, y)'
    BY <1>1, <2>2, RcStillOK
  <2> QED
    BY <2>1, <2>3
<1>4. \A e \in endpoints.mounts : EntryOK(e)'
  BY <1>1, RcStillOK DEF RcInv, RcWorldOK
<1>5. RcWorldOK'
  BY <1>2, <1>4 DEF RcInv, RcWorldOK, AddressesOK
<1>6. FileOK'
  <2>1. SUFFICES ASSUME Calm'
                 PROVE  (AloneAtFile /\ OwnEntry /\ EntriesStand /\ FiledStand /\ AddedAreFiled)'
    BY DEF FileOK
  <2>2. Calm
    BY <2>1 DEF Calm
  <2>3. AloneAtFile /\ OwnEntry /\ EntriesStand /\ FiledStand /\ AddedAreFiled
    BY <2>2 DEF RcInv, FileOK
  <2>4. \A d : Changing(d)' <=> Changing(d)
    BY DEF Changing
  <2>5. \A d, ep, name : (Removes(d, ep, name)' <=> Removes(d, ep, name)) /\ (Leaves(d, ep, name)' <=> Leaves(d, ep, name))
    BY <1>2 DEF Removes, Leaves
  <2>6. \A ep, name : Stands(ep, name) => Stands(ep, name)'
    BY <1>2, <2>5 DEF Stands, KeysStay
  <2>7. AloneAtFile'
    BY <1>2, <2>3, <2>4 DEF AloneAtFile
  <2>8. OwnEntry'
    BY <1>2, <2>3, <2>4 DEF OwnEntry, InFile
  <2>9. EntriesStand'
    BY <1>2, <2>3, <2>4, <2>6 DEF EntriesStand
  <2>10. FiledStand'
    BY <1>2, <2>3 DEF FiledStand, KeysStay
  <2>11. \A ep, name : InEach(ep, name) => InEach(ep, name)'
    BY <1>2, <2>4 DEF InEach, InFile
  <2>12. AddedAreFiled'
    BY <1>2, <2>3, <2>5, <2>11 DEF AddedAreFiled
  <2> QED
    BY <2>7, <2>8, <2>9, <2>10, <2>12
<1> QED
  BY <1>2, <1>3, <1>5, <1>6 DEF RcInv

\* A mount n becomes m, which keeps its name and what it is told.
BecomesOK(n, m) == m.ep = n.ep /\ m.name = n.name /\ NodeOK(m)

\* Such a step keeps every call right.
LEMMA NodeBecomes ==
  ASSUME RcInv, NEW n \in odl, NEW m, odl' = (odl \ {n}) \cup {m}, BecomesOK(n, m),
         UNCHANGED <<rcSetting, boxAddress, endpoints, overlap, applied, rcCall>>
  PROVE  RcInv'
<1>1. \A x \in odl : NodeOK(x)
  BY DEF RcInv, NodesOK
<1>2. \A x \in odl' : NodeOK(x)
  BY <1>1 DEF BecomesOK
<1>3. DOMAIN rcCall' = DOMAIN rcCall /\ rcSetting' = rcSetting
  OBVIOUS
<1>4. \A x \in odl' : NodeOK(x)'
  BY <1>2, <1>3, RcStillOK
<1>5. NodesOK'
  BY <1>4 DEF RcInv, NodesOK, BecomesOK
<1>6. KeysStay
  BY DEF KeysStay, NodesAt, BecomesOK
<1>7. AddressesOK'
  BY DEF RcInv, RcWorldOK, AddressesOK
<1> QED
  BY <1>5, <1>6, <1>7, LabKeeps

\* A controller finds who has the address it was told.
LEMMA NodeConnectsKeeps ==
  ASSUME RcInv, NEW n \in odl, NodeConnects(n)
  PROVE  RcInv'
<1>1. NodeOK(n) /\ UNCHANGED <<rcSetting, boxAddress, endpoints, overlap, applied, rcCall>>
  BY DEF NodeConnects, FileStays, LabStays, RcInv, NodesOK
<1>2. AddressesOK /\ "none" \notin DOMAIN boxAddress
  BY RcGiven DEF RcInv, RcWorldOK, AddressesOK
<1>3. n = Node(n.ep, n.name, n.host, n.with, n.state)
  BY <1>1 DEF NodeOK
<1>4. CASE BoxesAt(n.host) = {}
  <2>1. PICK m : m = [n EXCEPT !.state = "unable", !.with = "none"]
    OBVIOUS
  <2>2. odl' = (odl \ {n}) \cup {m}
    BY <1>4, <2>1 DEF NodeConnects
  <2>3. m = Node(n.ep, n.name, n.host, "none", "unable") /\ m.ep = n.ep /\ m.name = n.name /\ m.host = n.host
        /\ m.with = "none" /\ m.state = "unable"
    BY ONLY <1>3, <2>1 DEF Node
  <2>4. BecomesOK(n, m)
    BY <1>1, <2>3 DEF BecomesOK, NodeOK
  <2> QED
    BY <1>1, <2>2, <2>4, NodeBecomes
<1>5. CASE BoxesAt(n.host) # {}
  <2>1. PICK b \in DOMAIN boxAddress : boxAddress[b] = n.host /\ BoxesAt(n.host) = {b}
    BY <1>2, <1>5 DEF BoxesAt, AddressesOK
  <2>2. PICK m : m = [n EXCEPT !.state = "connected", !.with = b]
    OBVIOUS
  <2>3. odl' = (odl \ {n}) \cup {m}
    <3>1. odl' = (odl \ {n}) \cup {[n EXCEPT !.state = "connected", !.with = x] : x \in BoxesAt(n.host)}
      BY <1>5 DEF NodeConnects
    <3> QED
      BY <2>1, <2>2, <3>1
  <2>4. m = Node(n.ep, n.name, n.host, b, "connected") /\ m.ep = n.ep /\ m.name = n.name /\ m.host = n.host
        /\ m.with = b /\ m.state = "connected"
    BY ONLY <1>3, <2>2 DEF Node
  <2>5. Firm => b \in Owners(n.ep, n.name) /\ n.host = rcSetting.address[b]
    <3>1. SUFFICES ASSUME Firm
                   PROVE  b \in Owners(n.ep, n.name) /\ n.host = rcSetting.address[b]
      OBVIOUS
    <3>2. PICK x \in Owners(n.ep, n.name) : n.host = rcSetting.address[x]
      BY <1>1, <3>1 DEF NodeOK
    <3>3. boxAddress = rcSetting.address
      BY <1>2, <3>1 DEF Firm, AddressesFirm, AddressesOK
    <3>4. x \in DOMAIN rcSetting.address
      BY OwnersAreBoxes DEF RcInv, RcWorldOK
    <3>5. x = b
      BY <1>2, <2>1, <3>2, <3>3, <3>4 DEF AddressesOK
    <3> QED
      BY <3>2, <3>5
  <2>6. BecomesOK(n, m)
    BY <1>2, <2>1, <2>4, <2>5 DEF BecomesOK, NodeOK
  <2> QED
    BY <1>1, <2>3, <2>6, NodeBecomes
<1> QED
  BY <1>4, <1>5

\* A session is lost.
LEMMA NodeDropsKeeps ==
  ASSUME RcInv, NEW n \in odl, NodeDrops(n)
  PROVE  RcInv'
<1>1. NodeOK(n) /\ UNCHANGED <<rcSetting, boxAddress, endpoints, overlap, applied, rcCall>>
  BY DEF NodeDrops, FileStays, LabStays, RcInv, NodesOK
<1>2. n = Node(n.ep, n.name, n.host, n.with, n.state)
  BY <1>1 DEF NodeOK
<1>3. PICK m : m = [n EXCEPT !.state = "connecting", !.with = "none"]
  OBVIOUS
<1>4. odl' = (odl \ {n}) \cup {m}
  BY <1>3 DEF NodeDrops
<1>5. m = Node(n.ep, n.name, n.host, "none", "connecting") /\ m.ep = n.ep /\ m.name = n.name /\ m.host = n.host
      /\ m.with = "none" /\ m.state = "connecting"
  BY ONLY <1>2, <1>3 DEF Node
<1>6. BecomesOK(n, m)
  BY <1>1, <1>5 DEF BecomesOK, NodeOK
<1> QED
  BY <1>1, <1>4, <1>6, NodeBecomes

\* Two chassis swap their addresses, which are firm no longer.
LEMMA SwapKeeps ==
  ASSUME RcInv, Swap
  PROVE  RcInv'
<1>1. UNCHANGED <<rcSetting, odl, endpoints, overlap, applied, rcCall>>
  BY DEF Swap, FileStays
<1>2. NodesOK' /\ KeysStay
  BY <1>1, NodesStay DEF KeysStay, NodesAt
<1>3. AddressesOK
  BY DEF RcInv, RcWorldOK, AddressesOK
<1>4. PICK m \in DOMAIN boxAddress, n \in DOMAIN boxAddress :
        boxAddress' = [boxAddress EXCEPT ![m] = boxAddress[n], ![n] = boxAddress[m]]
  BY DEF Swap
<1>5. rcSetting.swaps # 0
  BY DEF Swap, RcInv, RcWorldOK, RcSettingsOK
<1>6. AddressesOK'
  <2>1. PICK u, v : u = boxAddress[m] /\ v = boxAddress[n]
    OBVIOUS
  <2>2. DOMAIN boxAddress' = DOMAIN boxAddress
    BY <1>4
  <2>3. \A x \in DOMAIN boxAddress : boxAddress'[x] = IF x = n THEN u ELSE IF x = m THEN v ELSE boxAddress[x]
    BY <1>4, <2>1
  <2>4. \A x, y \in DOMAIN boxAddress : boxAddress'[x] = boxAddress'[y] => x = y
    BY <1>3, <1>4, <2>1, <2>3 DEF AddressesOK
  <2> QED
    BY <1>1, <1>3, <1>5, <2>2, <2>4 DEF AddressesOK
<1> QED
  BY <1>1, <1>2, <1>6, LabKeeps

(***************************************************************************)
(* What follows                                                             *)
(***************************************************************************)
\* It holds at the start.
LEMMA RcInitOK ==
  ASSUME RcInit
  PROVE  RcInv
<1>1. /\ rcSetting \in RcSettings /\ boxAddress = rcSetting.address /\ overlap = FALSE
      /\ endpoints = [mounts |-> {Entry(m.ep, m.name, rcSetting.device[m.dev]) : m \in rcSetting.mounts}, cut |-> FALSE]
      /\ odl = {Node(m.ep, m.name, boxAddress[rcSetting.device[m.dev]], rcSetting.device[m.dev], "connected") :
                  m \in rcSetting.mounts}
      /\ applied = [c \in RcOf |-> {}]
      /\ rcCall = [c \in RcOf |-> RcRec("idle", "none", "none", "none", {}, "none", "none", FALSE)]
  BY DEF RcInit, RcOf, RcRec
<1>2. \A m \in rcSetting.mounts : /\ m.ep \in rcSetting.controllers /\ m.ep # "none" /\ m.name # "none"
                                  /\ rcSetting.device[m.dev] \in GivenTo(m.ep, m.name)
                                  /\ rcSetting.device[m.dev] # "none"
  BY <1>1, RcGiven DEF GivenTo
<1>3. \A e \in endpoints.mounts : EntryOK(e)
  BY <1>1, <1>2 DEF EntryOK, Entry, Owners
<1>4. RcWorldOK
  BY <1>1, <1>3, RcGiven DEF RcWorldOK
<1>5. NodesOK
  <2>1. ASSUME NEW n \in odl
        PROVE  NodeOK(n)
    <3>1. PICK m \in rcSetting.mounts :
            n = Node(m.ep, m.name, boxAddress[rcSetting.device[m.dev]], rcSetting.device[m.dev], "connected")
      BY <1>1
    <3>2. PICK b : b = rcSetting.device[m.dev]
      OBVIOUS
    <3>3. n = Node(m.ep, m.name, rcSetting.address[b], b, "connected") /\ b \in GivenTo(m.ep, m.name) /\ b # "none"
      BY <1>1, <1>2, <3>1, <3>2
    <3>4. /\ n.ep = m.ep /\ n.name = m.name /\ n.host = rcSetting.address[b] /\ n.with = b /\ n.state = "connected"
          /\ n = Node(n.ep, n.name, n.host, n.with, n.state)
      BY <3>3 DEF Node
    <3> QED
      BY <3>3, <3>4 DEF NodeOK, Owners
  <2>2. ASSUME NEW m \in odl, NEW n \in odl, m.ep = n.ep, m.name = n.name
        PROVE  m = n
    <3>1. PICK x \in rcSetting.mounts :
            m = Node(x.ep, x.name, boxAddress[rcSetting.device[x.dev]], rcSetting.device[x.dev], "connected")
      BY <1>1
    <3>2. PICK y \in rcSetting.mounts :
            n = Node(y.ep, y.name, boxAddress[rcSetting.device[y.dev]], rcSetting.device[y.dev], "connected")
      BY <1>1
    <3>3. x.ep = y.ep /\ x.name = y.name
      BY <2>2, <3>1, <3>2 DEF Node
    <3>4. x = y
      BY <1>1, <3>3, RcGiven
    <3> QED
      BY <3>1, <3>2, <3>4
  <2> QED
    BY <2>1, <2>2 DEF NodesOK
<1>6. ASSUME NEW c \in RcOf
      PROVE  RcCallOK(c, rcCall[c], applied[c])
  <2>1. PICK k : k = rcCall[c]
    OBVIOUS
  <2>2. k = RcRec("idle", "none", "none", "none", {}, "none", "none", FALSE) /\ applied[c] = {}
    BY <1>1, <2>1
  <2>3. /\ IsRc(k) /\ k.pc = "idle" /\ k.name = "none" /\ k.doc = {} /\ k.verdict = "none" /\ k.saw = "none"
        /\ k.bare = FALSE
    BY ONLY <2>2 DEF IsRc, RcRec
  <2>4. k.pc \in RcPlaces(Ask(c).tool)
    BY <2>3 DEF RcPlaces
  <2>5. ChangeOK(c, k)
    BY <2>3 DEF ChangeOK
  <2>6. RequestOK(c, k)
    BY <2>3 DEF RequestOK
  <2>7. AppliedOK(c, k, {})
    BY <2>3 DEF AppliedOK
  <2> QED
    BY <2>1, <2>2, <2>3, <2>4, <2>5, <2>6, <2>7 DEF RcCallOK
<1>7. \A c \in RcOf : rcCall[c].pc = "idle" /\ rcCall[c].verdict = "none"
  BY <1>1 DEF RcRec
<1>8. FileOK
  <2>1. AloneAtFile /\ OwnEntry /\ FiledStand /\ AddedAreFiled
    BY <1>1, <1>7 DEF AloneAtFile, OwnEntry, FiledStand, AddedAreFiled, Changing
  <2>2. ASSUME NEW e \in endpoints.mounts
        PROVE  Stands(e.ep, e.name)
    <3>1. PICK m \in rcSetting.mounts : e = Entry(m.ep, m.name, rcSetting.device[m.dev])
      BY <1>1
    <3>2. PICK n \in odl : n = Node(m.ep, m.name, boxAddress[rcSetting.device[m.dev]], rcSetting.device[m.dev], "connected")
      BY <1>1
    <3>3. n.ep = e.ep /\ n.name = e.name
      BY <3>1, <3>2 DEF Entry, Node
    <3> QED
      BY <3>3 DEF Stands, NodesAt
  <2>3. EntriesStand
    BY <1>7, <2>2 DEF EntriesStand, Changing
  <2> QED
    BY <2>1, <2>3 DEF FileOK
<1> QED
  BY <1>4, <1>5, <1>6, <1>8 DEF RcInv

\* A step of another part of the system.
LEMMA RcUnchanged ==
  ASSUME RcInv, UNCHANGED rcVars
  PROVE  RcInv'
<1>1. UNCHANGED <<rcSetting, boxAddress, odl, endpoints, applied, rcCall, overlap>>
  BY DEF rcVars
<1>2. NodesOK' /\ KeysStay
  BY <1>1, NodesStay DEF KeysStay, NodesAt
<1>3. AddressesOK'
  BY <1>1 DEF RcInv, RcWorldOK, AddressesOK
<1> QED
  BY <1>1, <1>2, <1>3, LabKeeps

\* Mounts, file and calls stay right, whatever the order of the steps.
THEOREM RcInvariance == RcSpec => []RcInv
<1>1. RcInit => RcInv
  BY RcInitOK
<1>2. ASSUME RcInv, [RcNext]_rcVars
      PROVE  RcInv'
  <2>1. CASE \E c \in DOMAIN rcCall : RcStep(c)
    <3>1. PICK c \in RcOf : RcStep(c)
      BY <1>2, <2>1 DEF RcInv, RcWorldOK
    <3>2. CASE AddStart(c)
      BY <1>2, <3>2, AddStartKeeps
    <3>3. CASE PutMount(c)
      BY <1>2, <3>3, PutMountKeeps
    <3>4. CASE WaitConnected(c)
      BY <1>2, <3>4, WaitConnectedKeeps
    <3>5. CASE DeleteMount(c)
      BY <1>2, <3>5, DeleteMountKeeps
    <3>6. CASE LoadFile(c)
      BY <1>2, <3>6, LoadFileKeeps
    <3>7. CASE OpenFile(c)
      BY <1>2, <3>7, OpenFileKeeps
    <3>8. CASE SaveFile(c)
      BY <1>2, <3>8, SaveFileKeeps
    <3>9. CASE Resolve(c)
      BY <1>2, <3>9, ResolveKeeps
    <3>10. CASE SendWrite(c)
      BY <1>2, <3>10, SendWriteKeeps
    <3>11. CASE SendRead(c) \/ SendKeys(c)
      BY <1>2, <3>11, SendReadKeeps
    <3>12. CASE StatusOf(c)
      BY <1>2, <3>12, StatusOfKeeps
    <3>13. CASE RcCrash(c)
      BY <1>2, <3>13, RcCrashKeeps
    <3> QED
      BY <3>1, <3>2, <3>3, <3>4, <3>5, <3>6, <3>7, <3>8, <3>9, <3>10, <3>11, <3>12, <3>13 DEF RcStep
  <2>2. CASE \E n \in odl : NodeConnects(n) \/ NodeDrops(n)
    BY <1>2, <2>2, NodeConnectsKeeps, NodeDropsKeeps
  <2>3. CASE Swap
    BY <1>2, <2>3, SwapKeeps
  <2>4. CASE UNCHANGED rcVars
    BY <1>2, <2>4, RcUnchanged
  <2> QED
    BY <1>2, <2>1, <2>2, <2>3, <2>4 DEF RcNext
<1> QED
  BY <1>1, <1>2, PTL DEF RcSpec

\* The types of the variables.
THEOREM RcTypeCorrect == RcSpec => []RcTypeOK
<1>1. ASSUME RcInv
      PROVE  RcTypeOK
  <2>1. overlap \in BOOLEAN /\ DOMAIN rcCall = RcOf
    BY <1>1 DEF RcInv, RcWorldOK
  <2>2. /\ \A n \in odl : n.state \in {"connecting", "connected", "unable"} /\ (n.state = "connected" => n.with # "none")
        /\ \A m, n \in odl : m.ep = n.ep /\ m.name = n.name => m = n
    BY <1>1 DEF RcInv, NodesOK, NodeOK
  <2>3. \A c \in RcOf :
          /\ rcCall[c].pc \in {"idle", "mount", "wait", "load", "open", "save", "send", "over"}
          /\ rcCall[c].verdict \in {"none", "ok", "error", "raised", "dry_run", "killed"}
    BY <1>1 DEF RcInv, RcCallOK, RcPlaces
  <2> QED
    BY <2>1, <2>2, <2>3 DEF RcTypeOK
<1> QED
  BY <1>1, RcInvariance, PTL

\* A request reaches the box it is for, and no more than once.
LEMMA RequestsReach ==
  ASSUME RcInv
  PROVE  RequestsReachTheirBox
<1>1. DOMAIN rcCall = RcOf
  BY DEF RcInv, RcWorldOK
<1>2. SUFFICES ASSUME NEW c \in RcOf, Ask(c).tool \in RcWrites \cup {"get", "keys"}
               PROVE  /\ Cardinality(applied[c]) <= 1
                      /\ rcCall[c].verdict \in {"dry_run", "raised"} => applied[c] = {}
                      /\ rcCall[c].verdict = "ok" /\ Ask(c).tool \in RcWrites => applied[c] # {}
                      /\ AddressesFirm /\ NamesFirm /\ Ask(c).dev # "none" /\ Ask(c).name = "none" =>
                           applied[c] \subseteq OwnBox(c) /\ rcCall[c].saw \in OwnBox(c) \cup {"none"}
  BY <1>1 DEF RequestsReachTheirBox
<1>3. RequestOK(c, rcCall[c]) /\ AppliedOK(c, rcCall[c], applied[c])
  BY <1>2, RcAt DEF RcCallOK, Requests
<1>4. Cardinality(applied[c]) <= 1
  <2>1. CASE applied[c] = {}
    BY <2>1, FS_EmptySet
  <2>2. CASE \E x \in applied[c] : applied[c] = {x}
    <3>1. PICK x : applied[c] = {x}
      BY <2>2
    <3>2. Cardinality({x}) = 1
      BY FS_Singleton
    <3> QED
      BY <3>1, <3>2
  <2> QED
    BY <1>3, <2>1, <2>2 DEF AppliedOK
<1> QED
  BY <1>3, <1>4 DEF RequestOK, AppliedOK, Firm

\* Where the calls are over, no mount is missing that the file names, and no
\* added one that it does not.
LEMMA FileTells ==
  ASSUME RcInv
  PROVE  FileTellsTheMounts
<1>1. SUFFICES ASSUME Quiet, Calm, ~endpoints.cut
               PROVE  /\ \A e \in endpoints.mounts :
                           \/ NodesAt(e.ep, e.name) # {}
                           \/ \E c \in DOMAIN rcCall : Removes(c, e.ep, e.name) /\ ~Ask(c).persist
                      /\ \A c \in DOMAIN rcCall :
                           Ask(c).tool = "add" /\ rcCall[c].verdict = "ok" /\ Ask(c).persist =>
                             \/ InFile(endpoints.mounts, rcCall[c].ep, rcCall[c].name)
                             \/ \E d \in DOMAIN rcCall : Removes(d, rcCall[c].ep, rcCall[c].name)
  BY DEF FileTellsTheMounts, Calm
<1>2. DOMAIN rcCall = RcOf /\ EntriesStand /\ AddedAreFiled
  BY <1>1 DEF RcInv, RcWorldOK, FileOK
<1>3. \A c \in RcOf : rcCall[c].pc \notin {"load", "open", "save"}
  BY <1>1, <1>2 DEF Quiet
<1>4. \A e \in endpoints.mounts :
        NodesAt(e.ep, e.name) # {} \/ \E c \in RcOf : Removes(c, e.ep, e.name) /\ ~Ask(c).persist
  BY <1>2, <1>3 DEF EntriesStand, Stands, Leaves
<1>5. \A c \in RcOf :
        Ask(c).tool = "add" /\ rcCall[c].verdict = "ok" /\ Ask(c).persist =>
          \/ InFile(endpoints.mounts, rcCall[c].ep, rcCall[c].name)
          \/ \E d \in RcOf : Removes(d, rcCall[c].ep, rcCall[c].name)
  BY <1>1, <1>2 DEF AddedAreFiled, InEach
<1> QED
  BY <1>2, <1>4, <1>5

\* A read or a write reaches its device and no other, a write once at most;
\* and the file names the mounts that the controllers have.
THEOREM MountsSound == RcSpec => []MountsHold
<1>1. ASSUME RcInv
      PROVE  MountsHold
  BY <1>1, RequestsReach, FileTells DEF MountsHold
<1> QED
  BY <1>1, RcInvariance, PTL

-----------------------------------------------------------------------------
(* The inductive invariant of the event collector.                         *)

Memories == [cursor : Nat \cup {NoCursor}, seen : Seq(Alertworthy), link : {"unknown", "UP", "DOWN"}]
Spools == [Monitored -> Memories]
Ticks ==
  [pc : {"idle", "log", "links", "post"}, dry : BOOLEAN, todo : Seq(Monitored),
   spool : Spools \cup {<<>>}, found : SUBSET Events, posts : Seq(Events \cup {"down"})]

EvTypes ==
  /\ plan \in SpoolSettings
  /\ now \in 0..MaxTime /\ log \subseteq Events /\ link \in [Monitored -> {"UP", "DOWN"}]
  /\ file \in Spools /\ tick \in [Tickers -> Ticks]
  /\ ticksLeft \in Nat /\ flipsLeft \in Nat
  /\ told \in [Events -> Nat] /\ missed \subseteq Events /\ early \subseteq Events
  /\ downs \in [Monitored -> [real : Nat, told : Nat]] /\ setbacks \in Nat

\* Lines of the log are of the past, and so many.
LogInv == IsFiniteSet(log) /\ \A e \in log : Stamp[e] <= now

\* What a memory of device d holds: alerts of its log L, each once, none later
\* than the cursor, which is of the past, and those behind one are no more than
\* an overlap earlier.
RingOK(mem, d, L, n) ==
  /\ Range(mem.seen) \subseteq {e \in L : On[e] = d}
  /\ Len(mem.seen) <= SeenCap
  /\ \A i, j \in DOMAIN mem.seen :
       i < j => mem.seen[i] # mem.seen[j] /\ Stamp[mem.seen[i]] <= Stamp[mem.seen[j]] + Overlap
  /\ mem.cursor = NoCursor => mem.seen = <<>>
  /\ mem.cursor # NoCursor =>
       mem.cursor <= n /\ \A i \in DOMAIN mem.seen : Stamp[mem.seen[i]] <= mem.cursor

\* A memory has done with an event: it is in the ring or no window reaches it.
Gone(mem, e) ==
  e \in Range(mem.seen) \/ (mem.cursor # NoCursor /\ ~(Stamp[e] + Overlap >= mem.cursor))

\* What was done with was told, or somebody knows that it was not.
Owed(mem, d, L, known) == \A e \in L \cap Alertworthy : On[e] = d /\ Gone(mem, e) => e \in known
Excused == {e \in Events : told[e] > 0} \cup missed \cup early

FileInv == \A d \in Monitored : RingOK(file[d], d, log, now) /\ Owed(file[d], d, log, Excused)

\* What a tick has still to tell.
Pending(t, d) ==
  IF t.pc # "idle" /\ ~t.dry /\ Head(t.todo) = d THEN t.found \cup Range(t.posts) ELSE {}

\* A tick is of a thread that ticks, has its device at hand and its alerts in
\* one place, each once.
Tidy(t, L) ==
  /\ t.todo # <<>> /\ t.spool \in Spools
  /\ t.found \subseteq {e \in L \cap Alertworthy : On[e] = Head(t.todo)}
  /\ Range(t.posts) \subseteq {e \in L \cap Alertworthy : On[e] = Head(t.todo)} \cup {"down"}
  /\ IsInjective(t.posts)
  /\ t.pc # "links" => t.found = {}
  /\ t.pc # "post" \/ t.dry => t.posts = <<>>

Sound(t, L, n, known) == \A d \in Monitored :
  RingOK(t.spool[d], d, L, n) /\ Owed(t.spool[d], d, L, known \cup Pending(t, d))

TickInv == \A p \in Tickers : tick[p].pc # "idle" =>
  p \in plan.tickers /\ Tidy(tick[p], log) /\ Sound(tick[p], log, now, Excused)

\* One tick of a process at a time.
Alone == \A p, q \in Tickers :
  ProcessOf[p] = ProcessOf[q] /\ tick[p].pc # "idle" /\ tick[q].pc # "idle" => p = q

EvCore == EvTypes /\ LogInv /\ FileInv /\ TickInv /\ Alone

\* How often an event was told, is about to be and can yet be, and the same of
\* a link that went down.
One(yes) == IF yes THEN 1 ELSE 0
EventCount(spool, t, tolds, e) ==
  tolds[e] + One(e \in Pending(t, On[e])) + One(~Gone(spool[On[e]], e))
LinkCount(spool, t, links, count, d) ==
  count[d].told + One("down" \in Pending(t, d)) + One(spool[d].link = "UP" /\ links[d] = "DOWN")
Counted(spool, t, tolds, links, count, back) ==
  /\ \A e \in Events : EventCount(spool, t, tolds, e) <= 1 + back
  /\ \A d \in Monitored : LinkCount(spool, t, links, count, d) <= count[d].real + back

OnceInv == OneProcess =>
  /\ (\A p \in Tickers : tick[p].pc = "idle") =>
       Counted(file, AtRest, told, link, downs, setbacks)
  /\ \A p \in Tickers : tick[p].pc # "idle" =>
       /\ Counted(tick[p].spool, tick[p], told, link, downs, setbacks)
       /\ tick[p].dry => tick[p].spool = file

-----------------------------------------------------------------------------
(* The order of the log, the newest stamp and the ring.                    *)

LEMMA SpoolConstants ==
  /\ Stamp \in [Events -> Nat] /\ On \in [Events -> Monitored] /\ Alertworthy \subseteq Events
  /\ "down" \notin Events /\ NoCursor \notin Nat /\ DeviceOrder \in Seq(Monitored) /\ DeviceOrder # <<>>
  /\ Overlap \in Nat /\ Lookback \in Nat /\ MaxTime \in Nat
  /\ SeenCap \in Nat /\ SeenCap > 0 /\ MaxPerDevice \in Nat /\ MaxPerDevice > 0
BY SpoolAssumption DEF SpoolAssumption

\* A set of numbers that is not empty has a least.
LEMMA LeastOf ==
  ASSUME NEW S \in SUBSET Nat, S # {}
  PROVE  \E x \in S : \A y \in S : x <= y
<1> DEFINE Less == {p \in Nat \X Nat : p[1] < p[2]}
<1>1. IsWellFoundedOn(Less, Nat)
  <2>1. OpToRel(<, Nat) = Less
    BY DEF OpToRel
  <2> QED
    BY <2>1, NatLessThanWellFounded
<1>2. PICK x \in S : \A y \in S : ~(<<y, x>> \in Less)
  BY ONLY <1>1, S \in SUBSET Nat, S # {}, WFMin
<1>3. ASSUME NEW y \in S PROVE x <= y
  <2>1. x \in Nat /\ y \in Nat /\ ~(<<y, x>> \in Less)
    BY <1>2
  <2>2. ~(y < x)
    BY <2>1
  <2> QED
    BY <2>1, <2>2
<1> QED
  BY <1>2, <1>3

\* One that has a bound has a greatest.
LEMMA GreatestOf ==
  ASSUME NEW S \in SUBSET Nat, S # {}, NEW n \in Nat, \A s \in S : s <= n
  PROVE  \E x \in S : \A y \in S : y <= x
<1> DEFINE T == {n - s : s \in S}
<1>1. T \in SUBSET Nat /\ T # {}
  <2>1. ASSUME NEW s \in S PROVE n - s \in Nat
    <3>1. s \in Nat /\ s <= n
      OBVIOUS
    <3> QED
      BY ONLY <3>1, n \in Nat
  <2> QED
    BY <2>1
<1> HIDE DEF T
<1>2. PICK x \in T : \A y \in T : x <= y
  BY <1>1, LeastOf
<1> USE DEF T
<1>3. PICK s \in S : x = n - s
  BY <1>2
<1>4. ASSUME NEW y \in S PROVE y <= s
  <2>1. n - y \in T
    OBVIOUS
  <2>2. n - s <= n - y
    BY <1>2, <1>3, <2>1
  <2> QED
    BY <2>2
<1> QED
  BY <1>4

\* By stamp: the order of the lines of the log.
ByStamp(s) == \A i, j \in DOMAIN s : i < j => Stamp[s[i]] <= Stamp[s[j]]

\* A finite set of lines can be put in that order: take the newest away, put
\* the others in order, and append it.
LEMMA OrderExists ==
  ASSUME NEW n \in Nat,
         NEW S \in SUBSET Events, IsFiniteSet(S), \A e \in S : Stamp[e] <= n
  PROVE  \E s \in [1..Cardinality(S) -> S] : IsInjective(s) /\ ByStamp(s)
<1> DEFINE Ordered(X) == \E s \in [1..Cardinality(X) -> X] : IsInjective(s) /\ ByStamp(s)
           Sets == {X \in SUBSET Events : IsFiniteSet(X) /\ \A e \in X : Stamp[e] <= n}
           Bad == {k \in Nat : \E X \in Sets : Cardinality(X) = k /\ ~Ordered(X)}
<1>1. Bad = {}
  <2> SUFFICES ASSUME Bad # {} PROVE FALSE
    OBVIOUS
  <2>1. PICK k \in Bad : \A j \in Bad : k <= j
    <3>1. Bad \in SUBSET Nat
      OBVIOUS
    <3> HIDE DEF Bad
    <3> QED
      BY <3>1, LeastOf
  <2>2. PICK X \in Sets : Cardinality(X) = k /\ ~Ordered(X)
    BY <2>1
  <2>3. k \in Nat /\ IsFiniteSet(X) /\ X \subseteq Events
    BY <2>1, <2>2
  <2>4. CASE X = {}
    <3>1. k = 0
      BY <2>2, <2>4, FS_EmptySet
    <3> DEFINE s == [i \in 1..0 |-> i]
    <3>2. s \in [1..0 -> {}] /\ DOMAIN s = {}
      OBVIOUS
    <3>3. IsInjective(s) /\ ByStamp(s)
      BY <3>2 DEF IsInjective, ByStamp
    <3> QED
      BY <2>2, <2>4, <3>1, <3>2, <3>3
  <2>5. CASE X # {}
    <3>1. PICK m \in X : \A e \in X : Stamp[e] <= Stamp[m]
      <4> DEFINE T == {Stamp[e] : e \in X}
      <4>1. T \in SUBSET Nat /\ T # {} /\ \A t \in T : t <= n
        BY <2>2, <2>5, SpoolConstants
      <4> HIDE DEF T
      <4>2. PICK t \in T : \A u \in T : u <= t
        BY <4>1, GreatestOf
      <4> USE DEF T
      <4> QED
        BY <4>2
    <3> DEFINE Y == X \ {m}
    <3>2. IsFiniteSet(Y) /\ Cardinality(Y) = k - 1 /\ Cardinality(Y) \in Nat
      BY <2>2, <2>3, <3>1, FS_RemoveElement, FS_CardinalityType
    <3>3. Y \in Sets
      BY <2>2, <3>2
    <3>4. Ordered(Y)
      <4>1. k - 1 \in Nat /\ ~(k <= k - 1)
        BY <2>3, <3>2
      <4>2. k - 1 \notin Bad
        BY <2>1, <4>1
      <4> QED
        BY <3>2, <3>3, <4>1, <4>2
    <3>5. PICK s \in [1..(k - 1) -> Y] : IsInjective(s) /\ ByStamp(s)
      BY <3>2, <3>4
    <3> DEFINE z == [i \in 1..k |-> IF i = k THEN m ELSE s[i]]
    <3>6. \A i \in 1..k : i = k \/ i \in 1..(k - 1)
      BY <2>3
    <3>7. \A i \in 1..(k - 1) : s[i] \in Y /\ i \in 1..k /\ i < k
      BY <2>3, <3>5
    <3>8. DOMAIN z = 1..k /\ \A i \in 1..k : z[i] \in X
      BY <3>1, <3>6, <3>7
    <3>9. z \in [1..k -> X]
      BY <3>8
    <3>10. IsInjective(z)
      <4> SUFFICES ASSUME NEW i \in 1..k, NEW j \in 1..k, z[i] = z[j] PROVE i = j
        BY <3>8 DEF IsInjective
      <4>1. CASE i = k
        BY <3>6, <3>7, <4>1
      <4>2. CASE i # k /\ j = k
        BY <3>6, <3>7, <4>2
      <4>3. CASE i # k /\ j # k
        <5>1. i \in 1..(k - 1) /\ j \in 1..(k - 1) /\ s[i] = s[j]
          BY <3>6, <4>3
        <5>2. DOMAIN s = 1..(k - 1)
          BY <3>5
        <5> QED
          BY <3>5, <5>1, <5>2 DEF IsInjective
      <4> QED
        BY <4>1, <4>2, <4>3
    <3>11. ByStamp(z)
      <4> SUFFICES ASSUME NEW i \in 1..k, NEW j \in 1..k, i < j
                   PROVE  Stamp[z[i]] <= Stamp[z[j]]
        BY <3>8 DEF ByStamp
      <4>1. i # k /\ i \in 1..(k - 1)
        BY <2>3, <3>6
      <4>2. CASE j = k
        BY <3>1, <3>8, <4>2
      <4>3. CASE j # k
        <5>1. j \in 1..(k - 1) /\ DOMAIN s = 1..(k - 1)
          BY <3>5, <3>6, <4>3
        <5> QED
          BY <3>5, <4>1, <4>3, <5>1 DEF ByStamp
      <4> QED
        BY <4>2, <4>3
    <3> HIDE DEF z
    <3> QED
      BY <2>2, <3>9, <3>10, <3>11
  <2> QED
    BY <2>4, <2>5
<1>2. Cardinality(S) \in Nat /\ S \in Sets
  BY FS_CardinalityType
<1> QED
  BY <1>1, <1>2

\* What InOrder makes of the lines of the log.
LEMMA InOrderIs ==
  ASSUME NEW n \in Nat,
         NEW S \in SUBSET Events, IsFiniteSet(S), \A e \in S : Stamp[e] <= n
  PROVE  /\ InOrder(S) \in Seq(S) /\ ByStamp(InOrder(S)) /\ IsInjective(InOrder(S))
         /\ Range(InOrder(S)) = S
<1> DEFINE s == InOrder(S)
           c == Cardinality(S)
<1>1. s \in [1..c -> S] /\ IsInjective(s) /\ ByStamp(s)
  BY OrderExists, Zenon DEF InOrder, ByStamp
<1>2. c \in Nat
  BY FS_CardinalityType
<1>3. s \in Seq(S)
  <2> HIDE DEF s, c
  <2> QED
    BY <1>1, <1>2
<1>4. Range(s) = S
  <2>1. IsFiniteSet(1..c) /\ Cardinality(1..c) = c
    BY <1>2, FS_Interval
  <2>2. s \in Injection(1..c, S)
    BY <1>1 DEF Injection, IsInjective
  <2>3. s \in Surjection(1..c, S)
    BY <2>1, <2>2, FS_Injection
  <2> QED
    BY <1>1, <2>3 DEF Surjection, Range
<1> QED
  BY <1>1, <1>3, <1>4

LEMMA NewestIs ==
  ASSUME NEW n \in Nat, NEW c \in Nat \cup {NoCursor}, c # NoCursor => c <= n,
         NEW L \in SUBSET Events, \A e \in L : Stamp[e] <= n
  PROVE  /\ Newest(c, L) \in Nat \cup {NoCursor}
         /\ Newest(c, L) = NoCursor <=> c = NoCursor /\ L = {}
         /\ Newest(c, L) # NoCursor => Newest(c, L) <= n
         /\ \A e \in L : Stamp[e] <= Newest(c, L)
         /\ c # NoCursor => c <= Newest(c, L)
<1> DEFINE T == {Stamp[e] : e \in L} \cup ({c} \ {NoCursor})
           x == CHOOSE t \in T : \A u \in T : u <= t
<1>1. Newest(c, L) = IF T = {} THEN NoCursor ELSE x
  BY DEF Newest
<1>2. T \in SUBSET Nat /\ \A t \in T : t <= n
  BY SpoolConstants
<1>3. (T = {} <=> c = NoCursor /\ L = {}) /\ (\A e \in L : Stamp[e] \in T) /\ (c # NoCursor => c \in T)
  OBVIOUS
<1>4. T # {} => x \in T /\ \A u \in T : u <= x
  <2> HIDE DEF T
  <2>1. T # {} => \E t \in T : \A u \in T : u <= t
    BY <1>2, GreatestOf
  <2> QED
    BY <2>1, Zenon
<1>5. CASE T = {}
  <2> HIDE DEF T, x
  <2> QED
    BY <1>1, <1>3, <1>5
<1>6. CASE T # {}
  <2> HIDE DEF T, x
  <2>1. x \in Nat /\ x # NoCursor /\ x <= n
    BY <1>2, <1>4, <1>6, SpoolConstants
  <2> QED
    BY <1>1, <1>3, <1>4, <1>6, <2>1
<1> QED
  BY <1>5, <1>6

LEMMA LastSeenIs ==
  ASSUME NEW S, NEW q \in Seq(S)
  PROVE  /\ LastSeen(q) \in Seq(S) /\ Len(LastSeen(q)) <= SeenCap
         /\ Len(q) <= SeenCap => LastSeen(q) = q
         /\ Len(q) > SeenCap =>
              /\ Len(LastSeen(q)) = SeenCap
              /\ \A i \in 1..SeenCap : LastSeen(q)[i] = q[i + (Len(q) - SeenCap)]
<1>1. Len(q) \in Nat /\ SeenCap \in Nat /\ SeenCap > 0
  BY SpoolConstants
<1>2. CASE Len(q) <= SeenCap
  BY <1>1, <1>2 DEF LastSeen
<1>3. CASE Len(q) > SeenCap
  <2> DEFINE m == Len(q) - SeenCap + 1
             r == SubSeq(q, m, Len(q))
  <2>1. LastSeen(q) = r
    BY <1>3 DEF LastSeen
  <2>2. m \in 1..Len(q) + 1 /\ Len(q) \in m - 1 .. Len(q)
    BY <1>1, <1>3
  <2>3. r \in Seq(S) /\ Len(r) = Len(q) - m + 1 /\ \A i \in 1..(Len(q) - m + 1) : r[i] = q[m + i - 1]
    BY <1>1, <1>3, <2>2, SubSeqProperties
  <2>4. Len(q) - m + 1 = SeenCap
    BY <1>1
  <2>5. ASSUME NEW i \in 1..SeenCap PROVE r[i] = q[i + (Len(q) - SeenCap)]
    <3>1. m + i - 1 = i + (Len(q) - SeenCap)
      BY <1>1
    <3> QED
      BY <2>3, <2>4, <3>1
  <2> HIDE DEF r
  <2> QED
    BY <1>1, <1>3, <2>1, <2>3, <2>4, <2>5
<1> QED
  BY <1>1, <1>2, <1>3

-----------------------------------------------------------------------------
(* What recording a window makes of a memory.                              *)

Window(mem, d) == {e \in log : On[e] = d /\ Since(mem.cursor, e)}
NewIn(mem, d) == {e \in Window(mem, d) \cap Alertworthy : IsNew(mem, e)}
Ring(mem, d) == mem.seen \o InOrder(NewIn(mem, d))

LEMMA NewInIs ==
  ASSUME EvTypes, LogInv, NEW mem, NEW d
  PROVE  /\ NewIn(mem, d) \in SUBSET Events /\ IsFiniteSet(NewIn(mem, d))
         /\ \A e \in NewIn(mem, d) : /\ e \in log /\ e \in Alertworthy /\ On[e] = d /\ Stamp[e] <= now
                                     /\ Since(mem.cursor, e) /\ e \notin Range(mem.seen)
         /\ Window(mem, d) \in SUBSET Events /\ \A e \in Window(mem, d) : e \in log /\ Stamp[e] <= now
         /\ now \in Nat
<1>1. NewIn(mem, d) \subseteq log /\ Window(mem, d) \subseteq log
  BY DEF NewIn, Window
<1>2. now \in Nat
  BY SpoolConstants DEF EvTypes
<1>3. IsFiniteSet(NewIn(mem, d))
  BY <1>1, FS_Subset DEF LogInv
<1> QED
  BY <1>1, <1>2, <1>3 DEF NewIn, Window, EvTypes, LogInv, IsNew

LEMMA RingIs ==
  ASSUME EvTypes, LogInv, NEW d \in Monitored, NEW mem \in Memories, RingOK(mem, d, log, now)
  PROVE  LET q == Ring(mem, d)
             c == Newest(mem.cursor, Window(mem, d))
         IN /\ q \in Seq(Alertworthy) /\ Range(q) = Range(mem.seen) \cup NewIn(mem, d)
            /\ \A i, j \in DOMAIN q :
                 i < j => q[i] # q[j] /\ Stamp[q[i]] <= Stamp[q[j]] + Overlap
            /\ q # <<>> => c # NoCursor
            /\ \A i \in DOMAIN q : Stamp[q[i]] <= c
<1> DEFINE a == mem.seen
           b == InOrder(NewIn(mem, d))
           q == Ring(mem, d)
           c == Newest(mem.cursor, Window(mem, d))
           new == NewIn(mem, d)
<1>1. /\ a \in Seq(Alertworthy) /\ mem.cursor \in Nat \cup {NoCursor} /\ now \in Nat
      /\ mem.cursor # NoCursor => mem.cursor <= now
  BY NewInIs DEF Memories, RingOK
<1>2. /\ b \in Seq(new) /\ ByStamp(b) /\ IsInjective(b) /\ Range(b) = new
  BY NewInIs, InOrderIs
<1>3. b \in Seq(Alertworthy) /\ Len(a) \in Nat /\ Len(b) \in Nat
  <2>1. \A i \in 1..Len(b) : b[i] \in Alertworthy
    <3>1. \A i \in 1..Len(b) : b[i] \in new
      BY <1>2
    <3> QED
      BY <3>1, NewInIs
  <2>2. Len(b) \in Nat /\ DOMAIN b = 1..Len(b) /\ b = [i \in 1..Len(b) |-> b[i]]
    BY <1>2
  <2> HIDE DEF b
  <2>3. b \in [1..Len(b) -> Alertworthy]
    BY <2>1, <2>2
  <2> QED
    BY <1>1, <2>2, <2>3
<1>4. /\ q \in Seq(Alertworthy) /\ Len(q) = Len(a) + Len(b)
      /\ \A i \in 1..(Len(a) + Len(b)) : q[i] = IF i <= Len(a) THEN a[i] ELSE b[i - Len(a)]
  <2> HIDE DEF a, b
  <2>1. q = a \o b
    BY DEF Ring, a, b
  <2> QED
    BY <1>1, <1>3, <2>1, ConcatProperties
<1>5. DOMAIN q = 1..(Len(a) + Len(b)) /\ DOMAIN a = 1..Len(a) /\ DOMAIN b = 1..Len(b)
  <2> HIDE DEF a, b, q
  <2> QED
    BY <1>1, <1>3, <1>4
<1>6. /\ c \in Nat \cup {NoCursor} /\ (mem.cursor # NoCursor => mem.cursor <= c)
      /\ \A e \in Window(mem, d) : Stamp[e] <= c
      /\ c = NoCursor <=> mem.cursor = NoCursor /\ Window(mem, d) = {}
  BY <1>1, NewInIs, NewestIs
<1>7. \A i \in 1..(Len(a) + Len(b)) :
        \/ i \in 1..Len(a) /\ q[i] = a[i]
        \/ i > Len(a) /\ i - Len(a) \in 1..Len(b) /\ q[i] = b[i - Len(a)]
  <2> HIDE DEF a, b, q
  <2> QED
    BY <1>3, <1>4
<1>8. \A i \in 1..Len(b) : b[i] \in new
  BY <1>2
<1>9. /\ \A i \in 1..Len(a) : mem.cursor # NoCursor /\ mem.cursor \in Nat /\ Stamp[a[i]] <= mem.cursor
      /\ \A i, j \in 1..Len(a) : i < j => a[i] # a[j] /\ Stamp[a[i]] <= Stamp[a[j]] + Overlap
      /\ \A i \in 1..Len(a) : a[i] \in Alertworthy /\ a[i] \in Range(a)
  <2>1. CASE mem.cursor = NoCursor
    <3>1. Len(a) = 0
      BY <2>1 DEF RingOK
    <3> QED
      BY <3>1
  <2>2. CASE mem.cursor # NoCursor
    <3> HIDE DEF q, c, new
    <3>1. mem.cursor \in Nat
      BY <1>1, <2>2
    <3>2. /\ \A i \in DOMAIN a : Stamp[a[i]] <= mem.cursor
          /\ \A i, j \in DOMAIN a : i < j => a[i] # a[j] /\ Stamp[a[i]] <= Stamp[a[j]] + Overlap
      BY <2>2 DEF RingOK
    <3>3. \A i \in DOMAIN a : a[i] \in Alertworthy /\ a[i] \in Range(a)
      BY <1>1 DEF Range
    <3> QED
      BY <1>5, <2>2, <3>1, <3>2, <3>3
  <2> QED
    BY <2>1, <2>2
<1>10. Range(q) = Range(a) \cup new
  <2> HIDE DEF a, b, q, new
  <2>1. \A x \in Range(q) : x \in Range(a) \cup new
    BY <1>5, <1>7, <1>8 DEF Range
  <2>2. \A i \in 1..Len(a) : i \in DOMAIN q /\ q[i] = a[i]
    BY <1>3, <1>4, <1>5
  <2>3. \A i \in 1..Len(b) : i + Len(a) \in DOMAIN q /\ q[i + Len(a)] = b[i]
    BY <1>3, <1>4, <1>5
  <2>4. Range(a) \subseteq Range(q)
    BY <1>5, <2>2 DEF Range
  <2>5. Range(b) \subseteq Range(q)
    BY <1>5, <2>3 DEF Range
  <2> QED
    BY <1>2, <2>1, <2>4, <2>5
<1>11. ASSUME NEW i \in DOMAIN q, NEW j \in DOMAIN q, i < j
       PROVE  q[i] # q[j] /\ Stamp[q[i]] <= Stamp[q[j]] + Overlap
  <2>0. i \in 1..(Len(a) + Len(b)) /\ j \in 1..(Len(a) + Len(b)) /\ i \in Nat /\ j \in Nat
    BY <1>3, <1>5
  <2>1. CASE j \in 1..Len(a) /\ q[j] = a[j]
    <3>1. i \in 1..Len(a) /\ q[i] = a[i]
      BY <1>3, <1>7, <1>11, <2>0, <2>1
    <3> QED
      BY <1>9, <1>11, <2>1, <3>1
  <2>2. CASE j > Len(a) /\ j - Len(a) \in 1..Len(b) /\ q[j] = b[j - Len(a)]
    <3>1. q[j] \in new
      BY <1>8, <2>2
    <3>2. CASE i \in 1..Len(a) /\ q[i] = a[i]
      <4>1. q[j] \notin Range(a) /\ Since(mem.cursor, q[j]) /\ q[j] \in Events
        BY <3>1, NewInIs
      <4>2. q[i] \in Range(a) /\ mem.cursor \in Nat /\ Stamp[q[i]] <= mem.cursor /\ q[i] \in Events
        BY <1>9, <3>2, SpoolConstants
      <4>3. Stamp[q[j]] + Overlap >= mem.cursor
        BY <4>1, <4>2, SpoolConstants DEF Since
      <4>4. Stamp[q[i]] \in Nat /\ Stamp[q[j]] \in Nat /\ Overlap \in Nat
        BY <4>1, <4>2, SpoolConstants
      <4> HIDE DEF q
      <4> QED
        BY <4>1, <4>2, <4>3, <4>4
    <3>3. CASE i > Len(a) /\ i - Len(a) \in 1..Len(b) /\ q[i] = b[i - Len(a)]
      <4> DEFINE k == i - Len(a)
                 l == j - Len(a)
      <4>1. k \in DOMAIN b /\ l \in DOMAIN b /\ k < l
        BY <1>3, <1>5, <1>11, <2>0, <2>2, <3>3
      <4>2. b[k] # b[l] /\ Stamp[b[k]] <= Stamp[b[l]]
        <5> HIDE DEF b, k, l
        <5> QED
          BY <1>2, <4>1 DEF IsInjective, ByStamp
      <4>3. Stamp[b[k]] \in Nat /\ Stamp[b[l]] \in Nat /\ Overlap \in Nat
        <5>1. b[k] \in Events /\ b[l] \in Events
          BY <1>5, <1>8, <4>1, NewInIs
        <5> QED
          BY <5>1, SpoolConstants
      <4> QED
        BY <2>2, <3>3, <4>2, <4>3
    <3> QED
      BY <1>7, <2>0, <3>2, <3>3
  <2> QED
    BY <1>7, <2>0, <2>1, <2>2
<1>12. ASSUME NEW i \in DOMAIN q PROVE c # NoCursor /\ Stamp[q[i]] <= c
  <2>1. i \in 1..(Len(a) + Len(b))
    BY <1>5
  <2>2. CASE i \in 1..Len(a) /\ q[i] = a[i]
    <3>1. mem.cursor # NoCursor /\ mem.cursor \in Nat /\ Stamp[a[i]] <= mem.cursor /\ a[i] \in Events
      BY <1>9, <2>2, SpoolConstants
    <3>2. Stamp[a[i]] \in Nat /\ c \in Nat /\ mem.cursor <= c
      BY <1>6, <3>1, SpoolConstants
    <3> QED
      BY <2>2, <3>1, <3>2, SpoolConstants
  <2>3. CASE i - Len(a) \in 1..Len(b) /\ q[i] = b[i - Len(a)]
    <3>1. q[i] \in new
      BY <1>8, <2>3
    <3>2. q[i] \in Window(mem, d)
      BY <3>1 DEF NewIn
    <3> QED
      BY <1>6, <3>2
  <2> QED
    BY <1>7, <2>1, <2>2, <2>3
<1>13. q # <<>> => c # NoCursor
  <2>1. q # <<>> => 1 \in DOMAIN q
    <3> HIDE DEF q
    <3> QED
      BY <1>4
  <2> QED
    BY <1>12, <2>1
<1> QED
  BY <1>4, <1>10, <1>11, <1>12, <1>13

\* What drops out of a ring that is large enough is behind every later window:
\* else it and the SeenCap alerts after it are within one overlap.
LEMMA DroppedIsOld ==
  ASSUME EvTypes, LogInv, RingHolds, NEW d \in Monitored, NEW mem \in Memories, RingOK(mem, d, log, now),
         Len(Ring(mem, d)) > SeenCap,
         NEW i \in DOMAIN Ring(mem, d), i <= Len(Ring(mem, d)) - SeenCap
  PROVE  ~Since(Newest(mem.cursor, Window(mem, d)), Ring(mem, d)[i])
<1> DEFINE q == Ring(mem, d)
           c == Newest(mem.cursor, Window(mem, d))
           k == Len(q) - SeenCap
           e == q[i]
           near == {f \in Alertworthy : /\ On[f] = On[e]
                                        /\ Stamp[f] <= Stamp[e] + Overlap
                                        /\ Stamp[e] <= Stamp[f] + Overlap}
           g == [x \in 1..(SeenCap + 1) |-> IF x = SeenCap + 1 THEN e ELSE q[k + x]]
<1>1. /\ q \in Seq(Alertworthy) /\ c # NoCursor
      /\ \A x, y \in DOMAIN q : x < y => q[x] # q[y] /\ Stamp[q[x]] <= Stamp[q[y]] + Overlap
      /\ \A x \in DOMAIN q : Stamp[q[x]] <= c
  <2>1. q # <<>>
    BY SpoolConstants
  <2> QED
    BY <2>1, RingIs
<1>2. c \in Nat
  <2>1. /\ mem.cursor \in Nat \cup {NoCursor} /\ now \in Nat
        /\ mem.cursor # NoCursor => mem.cursor <= now
    BY NewInIs DEF Memories, RingOK
  <2> QED
    BY <1>1, <2>1, NewInIs, NewestIs
<1>3. \A x \in DOMAIN q : q[x] \in Alertworthy /\ Stamp[q[x]] \in Nat /\ On[q[x]] = d
  <2>1. \A x \in DOMAIN q : q[x] \in Range(q) /\ q[x] \in Alertworthy
    BY <1>1 DEF Range
  <2>2. \A f \in Range(q) : On[f] = d
    BY RingIs, NewInIs DEF RingOK
  <2> QED
    BY <2>1, <2>2, SpoolConstants
<1>4. /\ DOMAIN q = 1..Len(q) /\ Len(q) \in Nat /\ SeenCap \in Nat /\ Overlap \in Nat
      /\ k \in Nat /\ i \in 1..Len(q) /\ i <= k
  BY <1>1, SpoolConstants
<1> HIDE DEF q, c, k
<1>5. ASSUME NEW x \in 1..SeenCap PROVE k + x \in 1..Len(q) /\ i < k + x
  BY <1>4 DEF k
<1>6. SUFFICES ASSUME Stamp[e] + Overlap >= c PROVE FALSE
  BY <1>1 DEF Since, q, c
<1>7. ASSUME NEW x \in 1..SeenCap PROVE q[k + x] \in near /\ q[k + x] # e
  <2>1. k + x \in DOMAIN q /\ i < k + x /\ i \in DOMAIN q
    BY <1>4, <1>5
  <2>2. /\ q[i] # q[k + x] /\ Stamp[q[i]] <= Stamp[q[k + x]] + Overlap
        /\ Stamp[q[k + x]] <= c
    BY <1>1, <2>1
  <2>3. Stamp[q[k + x]] \in Nat /\ Stamp[q[i]] \in Nat /\ On[q[k + x]] = On[q[i]] /\ q[k + x] \in Alertworthy
    BY <1>3, <2>1
  <2>4. Stamp[q[k + x]] <= Stamp[q[i]] + Overlap
    BY <1>2, <1>4, <1>6, <2>2, <2>3
  <2> QED
    BY <2>2, <2>3, <2>4
<1>8. e \in near
  BY <1>3, <1>4
<1>9. g \in Injection(1..(SeenCap + 1), near)
  <2>1. \A x \in 1..(SeenCap + 1) : x = SeenCap + 1 \/ x \in 1..SeenCap
    BY <1>4
  <2>2. \A x \in 1..(SeenCap + 1) : g[x] \in near
    BY <1>7, <1>8, <2>1
  <2>3. ASSUME NEW x \in 1..(SeenCap + 1), NEW y \in 1..(SeenCap + 1), x < y PROVE g[x] # g[y]
    <3>1. x \in 1..SeenCap /\ x # SeenCap + 1 /\ x \in Nat /\ y \in Nat
      BY <1>4, <2>3
    <3>2. CASE y = SeenCap + 1
      BY <1>7, <3>1, <3>2
    <3>3. CASE y # SeenCap + 1
      <4>1. y \in 1..SeenCap
        BY <2>1, <3>3
      <4>2. k + x \in DOMAIN q /\ k + y \in DOMAIN q
        <5>1. k + x \in 1..Len(q) /\ k + y \in 1..Len(q)
          BY <1>5, <3>1, <4>1
        <5> QED
          BY <1>4, <5>1
      <4>3. k + x < k + y
        <5>1. k \in Nat
          BY <1>4
        <5> HIDE DEF g, near
        <5> QED
          BY <2>3, <3>1, <5>1
      <4> QED
        BY <1>1, <3>1, <3>3, <4>2, <4>3
    <3> QED
      BY <3>2, <3>3
  <2>4. g \in [1..(SeenCap + 1) -> near]
    BY <2>2
  <2> HIDE DEF g, near
  <2>5. ASSUME NEW x \in 1..(SeenCap + 1), NEW y \in 1..(SeenCap + 1), g[x] = g[y] PROVE x = y
    <3>1. x < y \/ y < x \/ x = y
      BY <1>4
    <3> QED
      BY <2>3, <2>5, <3>1
  <2> QED
    BY <2>4, <2>5 DEF Injection, IsInjective
<1>10. IsFiniteSet(near) /\ Cardinality(near) <= SeenCap /\ Cardinality(near) \in Nat
  <2>1. IsFiniteSet(near) /\ Cardinality(near) <= SeenCap
    BY <1>3, <1>4 DEF RingHolds
  <2> HIDE DEF near
  <2> QED
    BY <2>1, FS_CardinalityType
<1>11. Cardinality(1..(SeenCap + 1)) = SeenCap + 1
  <2>1. 1 \in Int /\ SeenCap + 1 \in Int /\ ~(1 > SeenCap + 1) /\ SeenCap + 1 - 1 + 1 = SeenCap + 1
    BY <1>4
  <2> QED
    BY <2>1, FS_Interval
<1> HIDE DEF g, near
<1>12. Cardinality(1..(SeenCap + 1)) <= Cardinality(near)
  BY <1>9, <1>10, FS_Injection
<1> QED
  BY <1>4, <1>10, <1>11, <1>12

\* A memory that has recorded a window has done with what it had done with, if
\* its ring holds, and with nothing else but the new alerts, and what is before
\* the lookback of the first window.
LEMMA RecordIs ==
  ASSUME EvTypes, LogInv, NEW d \in Monitored, NEW mem \in Memories, RingOK(mem, d, log, now)
  PROVE  LET new == Record(mem, Window(mem, d)) IN
         /\ new \in Memories /\ new.link = mem.link /\ RingOK(new, d, log, now)
         /\ \A e \in log \cap Alertworthy :
              On[e] = d /\ Gone(new, e) =>
                Gone(mem, e) \/ e \in NewIn(mem, d) \/ (mem.cursor = NoCursor /\ ~Since(NoCursor, e))
         /\ RingHolds => \A e \in Events :
              On[e] = d /\ (Gone(mem, e) \/ e \in NewIn(mem, d)) => Gone(new, e)
<1> DEFINE q == Ring(mem, d)
           r == LastSeen(q)
           c == Newest(mem.cursor, Window(mem, d))
           k == Len(q) - SeenCap
           new == Record(mem, Window(mem, d))
<1>1. new = [mem EXCEPT !.seen = r, !.cursor = c]
  BY DEF Record, Ring, NewIn
<1>2. /\ mem.cursor \in Nat \cup {NoCursor} /\ now \in Nat
      /\ mem.cursor # NoCursor => mem.cursor <= now
      /\ Range(mem.seen) \subseteq {e \in log : On[e] = d}
  BY NewInIs DEF Memories, RingOK
<1>3. /\ c \in Nat \cup {NoCursor}
      /\ c # NoCursor => c <= now
      /\ c = NoCursor <=> mem.cursor = NoCursor /\ Window(mem, d) = {}
      /\ \A e \in Window(mem, d) : Stamp[e] <= c
      /\ mem.cursor # NoCursor => mem.cursor <= c
  <2>1. Window(mem, d) \in SUBSET Events /\ \A e \in Window(mem, d) : Stamp[e] <= now
    BY NewInIs
  <2> HIDE DEF q, r, k, new
  <2> QED
    BY <1>2, <2>1, NewestIs
<1>4. /\ q \in Seq(Alertworthy) /\ Range(q) = Range(mem.seen) \cup NewIn(mem, d)
      /\ \A i, j \in DOMAIN q : i < j => q[i] # q[j] /\ Stamp[q[i]] <= Stamp[q[j]] + Overlap
      /\ q # <<>> => c # NoCursor
      /\ \A i \in DOMAIN q : Stamp[q[i]] <= c
  BY RingIs
<1>5. /\ r \in Seq(Alertworthy) /\ Len(r) <= SeenCap /\ (Len(q) <= SeenCap => r = q)
      /\ Len(q) > SeenCap =>
           Len(r) = SeenCap /\ \A i \in 1..SeenCap : r[i] = q[i + (Len(q) - SeenCap)]
  <2> HIDE DEF q
  <2> QED
    BY <1>4, LastSeenIs
<1>6. Len(q) \in Nat /\ SeenCap \in Nat /\ DOMAIN q = 1..Len(q) /\ Len(r) \in Nat /\ DOMAIN r = 1..Len(r)
  <2> HIDE DEF q, r
  <2> QED
    BY <1>4, <1>5, SpoolConstants
<1>7. new.seen = r /\ new.cursor = c /\ new.link = mem.link /\ new \in Memories
  <2> HIDE DEF r, c, new
  <2> QED
    BY <1>1, <1>3, <1>5 DEF Memories
<1> HIDE DEF q, r, c, new
\* Where each element of the ring comes from.
<1>8. \E s \in Nat : \A i \in DOMAIN r : i + s \in DOMAIN q /\ r[i] = q[i + s]
  <2>1. CASE Len(q) <= SeenCap
    <3>1. r = q
      BY <1>5, <2>1
    <3>2. ASSUME NEW i \in DOMAIN r PROVE i + 0 = i
      <4>1. i \in 1..Len(r)
        BY <1>6
      <4> QED
        BY <4>1, <1>6
    <3> WITNESS 0 \in Nat
    <3> QED
      BY <3>1, <3>2
  <2>2. CASE Len(q) > SeenCap
    <3>1. k \in Nat /\ \A i \in DOMAIN r : i + k \in DOMAIN q /\ r[i] = q[i + k]
      BY <1>5, <1>6, <2>2
    <3> QED
      BY <3>1
  <2> QED
    BY <1>6, <2>1, <2>2
<1>9. PICK s \in Nat : \A i \in DOMAIN r : i + s \in DOMAIN q /\ r[i] = q[i + s]
  BY <1>8
<1>10. Range(r) \subseteq Range(q)
  BY <1>9 DEF Range
<1>11. \A i, j \in DOMAIN r : i < j => r[i] # r[j] /\ Stamp[r[i]] <= Stamp[r[j]] + Overlap
  <2> SUFFICES ASSUME NEW i \in DOMAIN r, NEW j \in DOMAIN r, i < j
               PROVE  r[i] # r[j] /\ Stamp[r[i]] <= Stamp[r[j]] + Overlap
    OBVIOUS
  <2>1. i + s < j + s
    BY <1>6
  <2> QED
    BY <1>4, <1>9, <2>1
<1>12. \A i \in DOMAIN r : Stamp[r[i]] <= c
  BY <1>4, <1>9
<1>13. c = NoCursor => r = <<>>
  <2>1. c = NoCursor => q = <<>>
    BY <1>4
  <2>2. q = <<>> => r = <<>>
    BY <1>5, <1>6
  <2> QED
    BY <2>1, <2>2
<1>14. RingOK(new, d, log, now)
  <2>1. Range(r) \subseteq {e \in log : On[e] = d}
    BY <1>2, <1>4, <1>10, NewInIs
  <2> QED
    BY <1>3, <1>5, <1>7, <1>11, <1>12, <1>13, <2>1 DEF RingOK
<1>15. ASSUME NEW e \in log \cap Alertworthy, On[e] = d, Gone(new, e)
       PROVE  Gone(mem, e) \/ e \in NewIn(mem, d) \/ (mem.cursor = NoCursor /\ ~Since(NoCursor, e))
  <2>1. CASE e \in Range(r)
    BY <1>4, <1>10, <2>1 DEF Gone
  <2>2. CASE c # NoCursor /\ ~(Stamp[e] + Overlap >= c)
    <3>1. CASE e \in Window(mem, d)
      BY <1>15, <3>1 DEF NewIn, IsNew, Gone
    <3>2. CASE e \notin Window(mem, d)
      BY <1>15, <3>2 DEF Window, Gone, Since
    <3> QED
      BY <3>1, <3>2
  <2> QED
    BY <1>7, <1>15, <2>1, <2>2 DEF Gone, IsNew
<1>16. ASSUME RingHolds, NEW e \in Events, On[e] = d, Gone(mem, e) \/ e \in NewIn(mem, d)
       PROVE  Gone(new, e)
  <2>1. CASE e \in Range(q)
    <3>1. PICK i \in DOMAIN q : e = q[i]
      BY <2>1 DEF Range
    <3>2. CASE Len(q) <= SeenCap
      BY <1>5, <1>7, <2>1, <3>2 DEF Gone, IsNew
    <3>3. CASE Len(q) > SeenCap /\ i > k
      <4>1. i - k \in 1..SeenCap /\ (i - k) + (Len(q) - SeenCap) = i
        BY <1>6, <3>3
      <4>2. r[i - k] = e /\ i - k \in DOMAIN r
        BY <1>5, <1>6, <3>1, <3>3, <4>1
      <4> QED
        BY <1>7, <4>2 DEF Gone, IsNew, Range
    <3>4. CASE Len(q) > SeenCap /\ ~(i > k)
      <4>1. i <= Len(q) - SeenCap /\ c # NoCursor
        BY <1>3, <1>4, <1>6, <3>4
      <4>2. ~Since(c, e)
        BY <1>16, <3>1, <3>4, <4>1, DroppedIsOld DEF q, c
      <4> QED
        BY <1>7, <4>1, <4>2 DEF Gone, Since
    <3> QED
      BY <1>6, <3>2, <3>3, <3>4
  <2>2. CASE mem.cursor # NoCursor /\ ~(Stamp[e] + Overlap >= mem.cursor)
    <3>1. Stamp[e] \in Nat /\ Overlap \in Nat
      BY SpoolConstants
    <3>2. c # NoCursor /\ c \in Nat /\ mem.cursor \in Nat /\ mem.cursor <= c
      BY <1>2, <1>3, <2>2
    <3>3. ~(Stamp[e] + Overlap >= mem.cursor)
      BY <2>2
    <3>4. ~(Stamp[e] + Overlap >= c)
      BY <3>1, <3>2, <3>3
    <3> QED
      BY <1>7, <3>2, <3>4 DEF Gone, Since
  <2> QED
    BY <1>4, <1>16, <2>1, <2>2 DEF Gone, IsNew
<1> QED
  BY <1>7, <1>14, <1>15, <1>16 DEF new

-----------------------------------------------------------------------------
(* What each step makes of a tick.                                         *)

LEMMA RingStays ==
  ASSUME NEW d, NEW L, NEW M, L \subseteq M, NEW n \in Nat, NEW m \in Nat, n <= m,
         NEW mem \in Memories, NEW new \in Memories, new.seen = mem.seen, new.cursor = mem.cursor,
         RingOK(mem, d, L, n)
  PROVE  RingOK(new, d, M, m)
<1>1. mem.cursor # NoCursor => mem.cursor \in Nat
  BY DEF Memories
<1>2. mem.cursor # NoCursor => mem.cursor <= m
  BY <1>1 DEF RingOK
<1> QED
  BY <1>2 DEF RingOK

LEMMA OwedStays ==
  ASSUME NEW d, NEW L, NEW K, NEW H, NEW mem, NEW new, new.seen = mem.seen, new.cursor = mem.cursor,
         Owed(mem, d, L, K), K \subseteq H
  PROVE  Owed(new, d, L, H)
BY DEF Owed, Gone

\* A working tick.
LEMMA TickIs ==
  ASSUME EvCore, NEW p \in Tickers, tick[p].pc # "idle"
  PROVE  /\ p \in plan.tickers /\ tick[p] \in Ticks /\ Tidy(tick[p], log)
         /\ Sound(tick[p], log, now, Excused) /\ tick[p].spool \in Spools
         /\ At(p) \in Monitored /\ Mem(p) \in Memories /\ RingOK(Mem(p), At(p), log, now)
         /\ now \in Nat
<1>1. p \in plan.tickers /\ Tidy(tick[p], log) /\ Sound(tick[p], log, now, Excused)
  BY DEF EvCore, TickInv
<1>2. tick[p] \in Ticks /\ now \in Nat
  BY SpoolConstants DEF EvCore, EvTypes
<1>3. tick[p].todo \in Seq(Monitored) /\ tick[p].todo # <<>> /\ tick[p].spool \in Spools
  BY <1>1, <1>2 DEF Ticks, Tidy
<1>4. At(p) \in Monitored
  BY <1>3, HeadTailProperties DEF At
<1>5. Mem(p) \in Memories /\ RingOK(Mem(p), At(p), log, now)
  BY <1>1, <1>3, <1>4 DEF Sound, Mem, Spools
<1> QED
  BY <1>1, <1>2, <1>3, <1>4, <1>5

LEMMA PendingIs ==
  ASSUME NEW t, NEW L, Tidy(t, L), NEW d
  PROVE  /\ t.pc = "log" => Pending(t, d) = {}
         /\ t.pc = "links" => Pending(t, d) = IF ~t.dry /\ Head(t.todo) = d THEN t.found ELSE {}
         /\ t.pc = "post" => Pending(t, d) = IF ~t.dry /\ Head(t.todo) = d THEN Range(t.posts) ELSE {}
         /\ Pending(t, d) \subseteq {e \in L \cap Alertworthy : On[e] = d} \cup {"down"}
<1>1. Range(<<>>) = {}
  BY DEF Range
<1>2. t.posts = <<>> => Range(t.posts) = {}
  BY <1>1
<1> QED
  BY <1>2 DEF Tidy, Pending

\* ReadLog: the new alerts are found and recorded, or nothing is.
LEMMA ReadLogShape ==
  ASSUME EvCore, NEW p \in Tickers, ReadLog(p)
  PROVE  /\ tick[p].pc = "log" /\ tick'[p] \in Ticks /\ tick' = [tick EXCEPT ![p] = tick'[p]]
         /\ tick'[p].pc = "links" /\ tick'[p].dry = tick[p].dry /\ tick'[p].todo = tick[p].todo
         /\ tick'[p].posts = <<>> /\ tick'[p].spool \in Spools
         /\ \A d \in Monitored \ {At(p)} : tick'[p].spool[d] = tick[p].spool[d]
         /\ early' \subseteq Events /\ early \subseteq early'
         /\ \/ /\ tick'[p].found = NewIn(Mem(p), At(p))
               /\ tick'[p].spool[At(p)] =
                    IF tick[p].dry THEN Mem(p) ELSE Record(Mem(p), Window(Mem(p), At(p)))
               /\ ~tick[p].dry /\ Mem(p).cursor = NoCursor =>
                    \A e \in Events : On[e] = At(p) /\ ~Since(NoCursor, e) => e \in early'
            \/ tick'[p].found = {} /\ tick'[p].spool = tick[p].spool
<1>1. tick[p].pc = "log"
  BY DEF ReadLog
<1> DEFINE t == tick[p]
           d == At(p)
           mem == Mem(p)
           rec == IF t.dry THEN mem ELSE Record(mem, Window(mem, d))
<1>2. /\ t \in Ticks /\ Tidy(t, log) /\ t.spool \in Spools /\ d \in Monitored /\ mem \in Memories
      /\ RingOK(mem, d, log, now) /\ tick \in [Tickers -> Ticks]
  BY <1>1, TickIs DEF EvCore, EvTypes
<1>3. t.posts = <<>> /\ t.found = {} /\ mem = t.spool[d]
  BY <1>1, <1>2 DEF Tidy, Mem
<1>4. rec \in Memories
  BY <1>2, RecordIs DEF EvCore
<1>5. NewIn(mem, d) \in SUBSET Events
  BY NewInIs DEF EvCore
<1>6. CASE /\ tick' = [tick EXCEPT ![p] = [tick[p] EXCEPT !.pc = "links", !.found = NewIn(mem, d), !.spool[d] = rec]]
           /\ early' = IF mem.cursor # NoCursor \/ t.dry THEN early
                       ELSE early \cup {e \in Events : On[e] = d /\ ~Since(NoCursor, e)}
  <2> DEFINE u == [t EXCEPT !.pc = "links", !.found = NewIn(mem, d), !.spool[d] = rec]
  <2>1. tick' = [tick EXCEPT ![p] = u] /\ tick'[p] = u
    BY <1>2, <1>6
  <2> HIDE DEF rec, mem, d
  <2>2. /\ u.pc = "links" /\ u.found = NewIn(mem, d) /\ u.spool = [t.spool EXCEPT ![d] = rec]
        /\ u.dry = t.dry /\ u.todo = t.todo /\ u.posts = t.posts
    BY <1>2 DEF Ticks
  <2>3. [t.spool EXCEPT ![d] = rec] \in Spools /\ [t.spool EXCEPT ![d] = rec][d] = rec
    BY <1>2, <1>4 DEF Spools
  <2>4. \A x \in Monitored \ {d} : [t.spool EXCEPT ![d] = rec][x] = t.spool[x]
    BY <1>2 DEF Spools
  <2>5. u \in Ticks
    BY <1>2, <1>5, <2>3 DEF Ticks
  <2>6. early' \subseteq Events /\ early \subseteq early'
    BY <1>6 DEF EvCore, EvTypes
  <2> HIDE DEF u
  <2> QED
    BY <1>1, <1>3, <1>6, <2>1, <2>2, <2>3, <2>4, <2>5, <2>6 DEF rec, mem, d
<1>7. CASE tick' = [tick EXCEPT ![p].pc = "links"] /\ early' = early
  <2> DEFINE u == [t EXCEPT !.pc = "links"]
  <2>1. tick' = [tick EXCEPT ![p] = u] /\ tick'[p] = u
    BY <1>2, <1>7
  <2>2. /\ u.pc = "links" /\ u.found = t.found /\ u.spool = t.spool
        /\ u.dry = t.dry /\ u.todo = t.todo /\ u.posts = t.posts /\ u \in Ticks
    BY <1>2 DEF Ticks
  <2>3. early' \subseteq Events /\ early \subseteq early'
    BY <1>7 DEF EvCore, EvTypes
  <2>4. tick'[p].found = {} /\ tick'[p].spool = tick[p].spool
    BY <1>3, <2>1, <2>2
  <2> HIDE DEF u
  <2> QED
    BY <1>1, <1>2, <1>3, <2>1, <2>2, <2>3, <2>4
<1> QED
  BY <1>6, <1>7 DEF ReadLog, NewIn, Window, Mem, At

\* What is found is put the newest first, behind the link that went down.
LEMMA AlertsAre ==
  ASSUME NEW n \in Nat, NEW S \in SUBSET Events, IsFiniteSet(S), \A e \in S : Stamp[e] <= n,
         NEW down \in BOOLEAN
  PROVE  /\ Alerts(S, down) \in Seq(S \cup {"down"}) /\ IsInjective(Alerts(S, down))
         /\ "down" \in Range(Alerts(S, down)) => down
         /\ Range(Alerts(S, down)) \subseteq S \cup {"down"}
<1> DEFINE up == InOrder(S)
           rev == [i \in DOMAIN up |-> up[Len(up) + 1 - i]]
           first == IF down THEN <<"down">> ELSE <<>>
           all == first \o rev
           T == S \cup {"down"}
<1>1. up \in Seq(S) /\ IsInjective(up)
  BY InOrderIs
<1>2. Len(up) \in Nat /\ DOMAIN up = 1..Len(up) /\ \A i \in 1..Len(up) : up[i] \in S
  <2> HIDE DEF up
  <2> QED
    BY <1>1
<1>3. \A i \in 1..Len(up) : Len(up) + 1 - i \in 1..Len(up)
  BY <1>2
<1>4. rev \in [1..Len(up) -> S]
  BY <1>2, <1>3
<1>5. rev \in Seq(S) /\ rev \in Seq(T) /\ Len(rev) = Len(up)
  <2> HIDE DEF rev, up
  <2>1. rev \in [1..Len(up) -> T]
    BY <1>4
  <2> QED
    BY <1>2, <1>4, <2>1
<1>6. \A i, j \in 1..Len(up) : rev[i] = rev[j] => i = j
  <2> SUFFICES ASSUME NEW i \in 1..Len(up), NEW j \in 1..Len(up), rev[i] = rev[j] PROVE i = j
    OBVIOUS
  <2>1. up[Len(up) + 1 - i] = up[Len(up) + 1 - j]
    BY <1>2
  <2>2. Len(up) + 1 - i = Len(up) + 1 - j
    BY <1>1, <1>2, <1>3, <2>1 DEF IsInjective
  <2> QED
    BY <1>2, <2>2
<1>7. /\ first \in Seq(T) /\ (Len(first) = 0 \/ Len(first) = 1)
      /\ Len(first) = 1 => down /\ first[1] = "down"
  <2>1. CASE down
    BY <2>1
  <2>2. CASE ~down
    BY <2>2
  <2> QED
    BY <2>1, <2>2
<1>8. /\ all \in Seq(T) /\ Len(all) = Len(first) + Len(rev)
      /\ \A i \in 1..(Len(first) + Len(rev)) :
           all[i] = IF i <= Len(first) THEN first[i] ELSE rev[i - Len(first)]
  <2> HIDE DEF first, rev
  <2> QED
    BY <1>5, <1>7, ConcatProperties
<1> HIDE DEF first, rev, all
<1>9. DOMAIN all = 1..Len(all) /\ Len(all) \in Nat /\ Len(first) \in Nat
  BY <1>7, <1>8
<1>10. ASSUME NEW i \in DOMAIN all
       PROVE  \/ i = 1 /\ Len(first) = 1 /\ down /\ all[i] = "down"
              \/ i - Len(first) \in 1..Len(up) /\ all[i] = rev[i - Len(first)] /\ all[i] \in S
  <2>1. CASE i <= Len(first)
    <3>1. i = 1 /\ Len(first) = 1
      <4>1. i \in Nat /\ i >= 1
        BY <1>9
      <4>2. PICK m \in Nat : m = Len(first)
        BY <1>9
      <4>3. (m = 0 \/ m = 1) /\ i <= m
        BY <1>7, <2>1, <4>2
      <4>4. i = 1 /\ m = 1
        BY ONLY <4>1, <4>3, m \in Nat
      <4> QED
        BY <4>2, <4>4
    <3> QED
      BY <1>7, <1>8, <1>9, <2>1, <3>1
  <2>2. CASE ~(i <= Len(first))
    <3>1. i - Len(first) \in 1..Len(up) /\ all[i] = rev[i - Len(first)]
      BY <1>2, <1>5, <1>8, <1>9, <2>2
    <3> QED
      BY <1>4, <3>1
  <2> QED
    BY <2>1, <2>2
<1>11. IsInjective(all)
  <2> SUFFICES ASSUME NEW i \in DOMAIN all, NEW j \in DOMAIN all, all[i] = all[j] PROVE i = j
    BY DEF IsInjective
  <2>1. "down" \notin S
    BY SpoolConstants
  <2>2. CASE all[i] = "down"
    BY <1>10, <2>1, <2>2
  <2>3. CASE all[i] # "down"
    <3> DEFINE k == i - Len(first)
               l == j - Len(first)
    <3>1. k \in 1..Len(up) /\ l \in 1..Len(up) /\ rev[k] = rev[l]
      BY <1>10, <2>3
    <3>2. k = l
      <4> HIDE DEF k, l
      <4> QED
        BY <1>6, <3>1
    <3> QED
      BY <1>9, <3>2
  <2> QED
    BY <2>2, <2>3
<1>12. "down" \in Range(all) => down
  <2>1. "down" \notin S
    BY SpoolConstants
  <2> QED
    BY <1>10, <2>1 DEF Range
<1>13. Range(all) \subseteq T
  BY <1>10 DEF Range
<1>14. Alerts(S, down) = all
  BY DEF Alerts, all, first, rev
<1> QED
  BY <1>8, <1>11, <1>12, <1>13, <1>14

LEMMA PrefixIs ==
  ASSUME NEW S, NEW q \in Seq(S), IsInjective(q), NEW k \in 0..Len(q)
  PROVE  LET r == SubSeq(q, 1, k) IN r \in Seq(S) /\ IsInjective(r) /\ Range(r) \subseteq Range(q)
<1> DEFINE r == SubSeq(q, 1, k)
<1>1. Len(q) \in Nat /\ DOMAIN q = 1..Len(q) /\ k \in Nat /\ k <= Len(q)
  OBVIOUS
<1>2. 1 \in 1..Len(q) + 1 /\ k \in 1 - 1 .. Len(q)
  BY <1>1
<1>3. r \in Seq(S) /\ Len(r) = k - 1 + 1 /\ \A i \in 1..(k - 1 + 1) : r[i] = q[1 + i - 1]
  BY <1>1, <1>2, SubSeqProperties
<1>4. k - 1 + 1 = k
  BY <1>1
<1>5. ASSUME NEW i \in 1..k PROVE r[i] = q[i] /\ i \in DOMAIN q
  <2>1. 1 + i - 1 = i
    BY <1>1
  <2> QED
    BY <1>1, <1>3, <1>4, <2>1
<1> HIDE DEF r
<1>6. DOMAIN r = 1..k
  BY <1>3, <1>4
<1>7. IsInjective(r)
  BY <1>5, <1>6 DEF IsInjective
<1>8. Range(r) \subseteq Range(q)
  BY <1>5, <1>6 DEF Range
<1> QED
  BY <1>3, <1>7, <1>8 DEF r

LEMMA TailIs ==
  ASSUME NEW S, NEW q \in Seq(S), q # <<>>, IsInjective(q)
  PROVE  /\ Tail(q) \in Seq(S) /\ IsInjective(Tail(q)) /\ Head(q) \in S
         /\ Range(q) = {Head(q)} \cup Range(Tail(q)) /\ Head(q) \notin Range(Tail(q))
<1> DEFINE r == Tail(q)
<1>1. Len(q) \in Nat /\ Len(q) # 0 /\ DOMAIN q = 1..Len(q) /\ Head(q) = q[1] /\ q[1] \in S
  OBVIOUS
<1>2. r \in Seq(S) /\ Len(r) = Len(q) - 1 /\ \A i \in 1..Len(r) : r[i] = q[i + 1]
  BY <1>1, HeadTailProperties
<1> HIDE DEF r
<1>3. DOMAIN r = 1..Len(r) /\ Len(r) \in Nat
  BY <1>2
<1>4. \A i \in DOMAIN r : i + 1 \in DOMAIN q /\ i + 1 # 1 /\ r[i] = q[i + 1]
  BY <1>1, <1>2, <1>3
<1>5. IsInjective(r)
  <2> SUFFICES ASSUME NEW i \in DOMAIN r, NEW j \in DOMAIN r, r[i] = r[j] PROVE i = j
    BY DEF IsInjective
  <2>1. i + 1 = j + 1
    BY <1>4 DEF IsInjective
  <2> QED
    BY <1>3, <2>1
<1>6. q[1] \notin Range(r)
  <2> SUFFICES ASSUME NEW i \in DOMAIN r, r[i] = q[1] PROVE FALSE
    BY DEF Range
  <2>1. 1 \in DOMAIN q
    BY <1>1
  <2> QED
    BY <1>4, <2>1 DEF IsInjective
<1>7. Range(q) = {q[1]} \cup Range(r)
  <2>1. ASSUME NEW i \in DOMAIN q PROVE q[i] \in {q[1]} \cup Range(r)
    <3>1. CASE i = 1
      BY <3>1
    <3>2. CASE i # 1
      <4>1. i - 1 \in 1..Len(r) /\ (i - 1) + 1 = i
        BY <1>1, <1>2, <3>2
      <4>2. r[i - 1] = q[i]
        BY <1>2, <4>1
      <4> QED
        BY <1>3, <4>1, <4>2 DEF Range
    <3> QED
      BY <3>1, <3>2
  <2>2. Range(q) \subseteq {q[1]} \cup Range(r)
    BY <2>1 DEF Range
  <2>3. Range(r) \subseteq Range(q)
    BY <1>4 DEF Range
  <2>4. q[1] \in Range(q)
    BY <1>1 DEF Range
  <2> QED
    BY <2>2, <2>3, <2>4
<1> QED
  BY <1>1, <1>2, <1>5, <1>6, <1>7 DEF r

\* ReadLinks: what was found is to be posted, or cut; a link that went down is
\* noted as down, once.
LEMMA ReadLinksShape ==
  ASSUME EvCore, NEW p \in Tickers, ReadLinks(p)
  PROVE  /\ tick[p].pc = "links" /\ tick'[p] \in Ticks /\ tick' = [tick EXCEPT ![p] = tick'[p]]
         /\ tick'[p].pc = "post" /\ tick'[p].dry = tick[p].dry /\ tick'[p].todo = tick[p].todo
         /\ tick'[p].found = {} /\ IsInjective(tick'[p].posts)
         /\ Range(tick'[p].posts) \subseteq tick[p].found \cup {"down"}
         /\ tick[p].dry => tick'[p].posts = <<>> /\ tick'[p].spool = tick[p].spool
         /\ tick'[p].spool \in Spools
         /\ \A d \in Monitored : /\ tick'[p].spool[d].seen = tick[p].spool[d].seen
                                 /\ tick'[p].spool[d].cursor = tick[p].spool[d].cursor
                                 /\ d # At(p) => tick'[p].spool[d] = tick[p].spool[d]
         /\ "down" \in Range(tick'[p].posts) =>
              Mem(p).link = "UP" /\ link[At(p)] = "DOWN" /\ tick'[p].spool[At(p)].link # "UP"
         /\ tick'[p].spool[At(p)].link = "UP" /\ link[At(p)] = "DOWN" => Mem(p).link = "UP"
         /\ missed' \subseteq Events /\ missed \subseteq missed'
         /\ ~tick[p].dry => \A e \in tick[p].found : e \in Range(tick'[p].posts) \/ e \in missed'
<1> DEFINE t == tick[p]
           d == At(p)
           mem == Mem(p)
<1>1. t.pc = "links"
  BY DEF ReadLinks
<1>2. /\ t \in Ticks /\ Tidy(t, log) /\ t.spool \in Spools /\ d \in Monitored /\ mem \in Memories
      /\ RingOK(mem, d, log, now) /\ tick \in [Tickers -> Ticks] /\ now \in Nat /\ mem = t.spool[d]
  BY <1>1, TickIs DEF EvCore, EvTypes, Mem
<1>3. PICK read \in BOOLEAN :
        LET down == read /\ mem.link = "UP" /\ link[d] = "DOWN"
            alerts == Alerts(t.found, down)
            kept == SubSeq(alerts, 1, IF Len(alerts) > MaxPerDevice THEN MaxPerDevice ELSE Len(alerts))
        IN /\ tick' = [tick EXCEPT ![p] = [tick[p] EXCEPT !.pc = "post", !.found = {},
                !.posts = IF t.dry THEN <<>> ELSE kept,
                !.spool[d].link = IF read /\ ~t.dry THEN link[d] ELSE mem.link]]
           /\ missed' = IF t.dry THEN missed ELSE missed \cup (t.found \ Range(kept))
  BY DEF ReadLinks
<1> DEFINE down == read /\ mem.link = "UP" /\ link[d] = "DOWN"
           alerts == Alerts(t.found, down)
           cut == IF Len(alerts) > MaxPerDevice THEN MaxPerDevice ELSE Len(alerts)
           kept == SubSeq(alerts, 1, cut)
           posts == IF t.dry THEN <<>> ELSE kept
           state == IF read /\ ~t.dry THEN link[d] ELSE mem.link
           u == [t EXCEPT !.pc = "post", !.found = {}, !.posts = posts, !.spool[d].link = state]
<1>4. /\ t.found \in SUBSET Events /\ IsFiniteSet(t.found) /\ \A e \in t.found : Stamp[e] <= now
      /\ down \in BOOLEAN
  <2>1. t.found \subseteq log /\ IsFiniteSet(log) /\ log \subseteq Events /\ \A e \in log : Stamp[e] <= now
    BY <1>2 DEF Tidy, EvCore, EvTypes, LogInv
  <2>2. IsFiniteSet(t.found)
    BY <2>1, FS_Subset
  <2> QED
    BY <2>1, <2>2
<1>5. /\ alerts \in Seq(t.found \cup {"down"}) /\ IsInjective(alerts)
      /\ "down" \in Range(alerts) => down
      /\ Range(alerts) \subseteq t.found \cup {"down"}
  <2> HIDE DEF down
  <2> QED
    BY <1>2, <1>4, AlertsAre
<1>6. /\ kept \in Seq(t.found \cup {"down"}) /\ IsInjective(kept) /\ Range(kept) \subseteq Range(alerts)
  <2> HIDE DEF alerts
  <2>1. Len(alerts) \in Nat /\ MaxPerDevice \in Nat
    BY <1>5, SpoolConstants
  <2>2. cut \in 0..Len(alerts)
    BY <2>1
  <2> HIDE DEF cut
  <2> QED
    BY <1>5, <2>2, PrefixIs
<1> HIDE DEF kept, alerts
<1>7. tick' = [tick EXCEPT ![p] = u] /\ tick'[p] = u
  BY <1>2, <1>3 DEF kept, alerts
<1>8. missed' = IF t.dry THEN missed ELSE missed \cup (t.found \ Range(kept))
  BY <1>3 DEF kept, alerts
<1>9. /\ posts \in Seq(t.found \cup {"down"}) /\ IsInjective(posts)
      /\ Range(posts) \subseteq t.found \cup {"down"}
      /\ "down" \in Range(posts) => down /\ ~t.dry
      /\ t.dry => posts = <<>>
  <2>1. CASE t.dry
    <3>1. Range(<<>>) = {} /\ IsInjective(<<>>) /\ <<>> \in Seq(t.found \cup {"down"})
      BY DEF Range, IsInjective
    <3> QED
      BY <2>1, <3>1
  <2>2. CASE ~t.dry
    <3> HIDE DEF down
    <3> QED
      BY <1>5, <1>6, <2>2
  <2> QED
    BY <2>1, <2>2
<1>10. state \in {"unknown", "UP", "DOWN"} /\ link[d] \in {"UP", "DOWN"}
  BY <1>2 DEF Memories, EvCore, EvTypes
<1> DEFINE new == [mem EXCEPT !.link = state]
<1>11. new \in Memories /\ new.link = state /\ new.seen = mem.seen /\ new.cursor = mem.cursor
  <2> HIDE DEF state, mem
  <2> QED
    BY <1>2, <1>10 DEF Memories
<1>12. u.spool = [t.spool EXCEPT ![d] = new]
  <2> HIDE DEF state, posts, d
  <2> QED
    BY <1>2 DEF Ticks, Spools
<1> HIDE DEF new
<1>13. u.spool \in Spools /\ u.spool[d] = new /\ \A x \in Monitored \ {d} : u.spool[x] = t.spool[x]
  <2> HIDE DEF u, d
  <2> QED
    BY <1>2, <1>11, <1>12 DEF Spools
<1>14. u.pc = "post" /\ u.dry = t.dry /\ u.todo = t.todo /\ u.found = {} /\ u.posts = posts
  <2> HIDE DEF state, posts, d
  <2> QED
    BY <1>2 DEF Ticks
<1>15. posts \in Seq(Events \cup {"down"})
  <2>1. t.found \cup {"down"} \subseteq Events \cup {"down"}
    BY <1>4
  <2>2. Len(posts) \in Nat /\ \A i \in 1..Len(posts) : posts[i] \in Events \cup {"down"}
    <3> HIDE DEF posts
    <3> QED
      BY <1>9, <2>1
  <2>3. posts = [i \in 1..Len(posts) |-> posts[i]]
    <3> HIDE DEF posts
    <3> QED
      BY <1>9
  <2> HIDE DEF posts
  <2> QED
    BY <2>2, <2>3
<1>16. u \in Ticks
  <2>1. PICK s : s = [t.spool EXCEPT ![d].link = state]
    OBVIOUS
  <2>2. u = [t EXCEPT !.pc = "post", !.found = {}, !.posts = posts, !.spool = s]
    <3> HIDE DEF state, posts, d
    <3> QED
      BY <2>1
  <2>3. s = u.spool
    <3> HIDE DEF state, posts, d, u
    <3> QED
      BY <1>2, <2>2 DEF Ticks
  <2> HIDE DEF u, posts
  <2> QED
    BY <1>2, <1>13, <1>15, <2>2, <2>3 DEF Ticks
<1>17. t.dry => u.spool = t.spool
  <2> SUFFICES ASSUME t.dry PROVE u.spool = t.spool
    OBVIOUS
  <2>1. new = mem
    <3>1. state = mem.link
      OBVIOUS
    <3> HIDE DEF state, mem
    <3> QED
      BY <1>2, <3>1 DEF new, Memories
  <2> HIDE DEF u, d, mem
  <2> QED
    BY <1>2, <1>12, <2>1 DEF Spools
<1>18. missed' \subseteq Events /\ missed \subseteq missed'
  <2>1. missed \subseteq Events
    BY DEF EvCore, EvTypes
  <2> QED
    BY <1>4, <1>8, <2>1
<1>19. ~t.dry => \A e \in t.found : e \in Range(posts) \/ e \in missed'
  BY <1>8
<1>20. \A x \in Monitored : u.spool[x].seen = t.spool[x].seen /\ u.spool[x].cursor = t.spool[x].cursor
  <2> HIDE DEF u, d, mem
  <2> QED
    BY <1>2, <1>11, <1>13
<1>21. /\ "down" \in Range(posts) => mem.link = "UP" /\ link[d] = "DOWN" /\ state # "UP"
       /\ state = "UP" /\ link[d] = "DOWN" => mem.link = "UP"
  <2> HIDE DEF posts
  <2> QED
    BY <1>9, <1>10
<1> HIDE DEF u, posts, state
<1>22. /\ tick'[p].posts = posts /\ tick'[p].spool[d].link = state /\ tick'[p].spool = u.spool
       /\ tick' = [tick EXCEPT ![p] = tick'[p]]
  BY <1>7, <1>11, <1>13, <1>14
<1>23. /\ IsInjective(tick'[p].posts) /\ Range(tick'[p].posts) \subseteq t.found \cup {"down"}
       /\ t.dry => tick'[p].posts = <<>>
       /\ "down" \in Range(tick'[p].posts) =>
            mem.link = "UP" /\ link[d] = "DOWN" /\ tick'[p].spool[d].link # "UP"
       /\ tick'[p].spool[d].link = "UP" /\ link[d] = "DOWN" => mem.link = "UP"
       /\ ~t.dry => \A e \in t.found : e \in Range(tick'[p].posts) \/ e \in missed'
  BY <1>9, <1>19, <1>21, <1>22
<1>24. /\ tick'[p].spool \in Spools /\ (t.dry => tick'[p].spool = t.spool)
       /\ \A x \in Monitored : /\ tick'[p].spool[x].seen = t.spool[x].seen
                               /\ tick'[p].spool[x].cursor = t.spool[x].cursor
                               /\ x # d => tick'[p].spool[x] = t.spool[x]
  BY <1>13, <1>17, <1>20, <1>22
<1>25. /\ tick'[p] \in Ticks /\ tick'[p].pc = "post" /\ tick'[p].dry = t.dry /\ tick'[p].todo = t.todo
       /\ tick'[p].found = {}
  BY <1>7, <1>14, <1>16
<1> QED
  BY <1>1, <1>18, <1>22, <1>23, <1>24, <1>25

\* Post: the first of the posts is told, or noted as refused.
LEMMA PostShape ==
  ASSUME EvCore, NEW p \in Tickers, Post(p)
  PROVE  LET alert == Head(tick[p].posts) IN
         /\ tick[p].pc = "post" /\ tick'[p] \in Ticks /\ tick' = [tick EXCEPT ![p] = tick'[p]]
         /\ tick'[p].pc = "post" /\ tick'[p].dry = tick[p].dry /\ tick'[p].todo = tick[p].todo
         /\ tick'[p].found = tick[p].found /\ tick'[p].spool = tick[p].spool
         /\ IsInjective(tick'[p].posts) /\ alert \notin Range(tick'[p].posts)
         /\ Range(tick[p].posts) = {alert} \cup Range(tick'[p].posts)
         /\ ~tick[p].dry
         /\ told' \in [Events -> Nat] /\ missed' \subseteq Events /\ missed \subseteq missed'
         /\ downs' \in [Monitored -> [real : Nat, told : Nat]]
         /\ \A e \in Events \ {alert} : told'[e] = told[e]
         /\ alert \in Events => /\ told'[alert] >= told[alert] /\ told'[alert] <= told[alert] + 1
                                /\ told'[alert] > 0 \/ alert \in missed'
         /\ \A d \in Monitored : /\ downs'[d].real = downs[d].real
                                 /\ alert # "down" \/ d # At(p) => downs'[d].told = downs[d].told
                                 /\ downs'[d].told <= downs[d].told + 1
<1> DEFINE t == tick[p]
           d == At(p)
           alert == Head(t.posts)
           u == [t EXCEPT !.posts = Tail(@)]
<1>1. t.pc = "post" /\ t.posts # <<>>
  BY DEF Post
<1>2. /\ t \in Ticks /\ Tidy(t, log) /\ d \in Monitored /\ tick \in [Tickers -> Ticks]
      /\ told \in [Events -> Nat] /\ missed \subseteq Events
      /\ downs \in [Monitored -> [real : Nat, told : Nat]]
  BY <1>1, TickIs DEF EvCore, EvTypes
<1>3. ~t.dry /\ IsInjective(t.posts) /\ t.posts \in Seq(Events \cup {"down"})
  BY <1>1, <1>2 DEF Tidy, Ticks
<1>4. /\ Tail(t.posts) \in Seq(Events \cup {"down"}) /\ IsInjective(Tail(t.posts))
      /\ alert \in Events \cup {"down"} /\ alert \notin Range(Tail(t.posts))
      /\ Range(t.posts) = {alert} \cup Range(Tail(t.posts))
  <2>1. PICK q \in Seq(Events \cup {"down"}) : q = t.posts
    BY <1>3
  <2> QED
    BY ONLY <1>1, <1>3, <2>1, TailIs
<1>5. tick' = [tick EXCEPT ![p] = u] /\ tick'[p] = u
  BY <1>2 DEF Post
<1>6. /\ u.pc = t.pc /\ u.dry = t.dry /\ u.todo = t.todo /\ u.found = t.found /\ u.spool = t.spool
      /\ u.posts = Tail(t.posts)
  BY <1>2 DEF Ticks
<1>7. u \in Ticks
  BY <1>2, <1>4 DEF Ticks
<1> HIDE DEF u
<1>8. PICK taken \in BOOLEAN, heard \in BOOLEAN :
        /\ (taken /\ heard) \/ ("slack" \in plan.faults /\ ~heard)
        /\ IF alert = "down"
           THEN /\ downs' = [downs EXCEPT ![d].told = @ + (IF taken THEN 1 ELSE 0)]
                /\ UNCHANGED <<told, missed>>
           ELSE /\ told' = [told EXCEPT ![alert] = @ + (IF taken THEN 1 ELSE 0)]
                /\ missed' = IF heard THEN missed ELSE missed \cup {alert}
                /\ UNCHANGED downs
  BY DEF Post
<1>9. PICK one \in {0, 1} : one = (IF taken THEN 1 ELSE 0)
  OBVIOUS
<1>10. CASE alert = "down"
  <2>1. alert \notin Events /\ told' = told /\ missed' = missed
    BY <1>8, <1>10, SpoolConstants
  <2>2. downs' = [downs EXCEPT ![d].told = @ + one]
    BY <1>8, <1>9, <1>10
  <2>3. PICK new : new = [downs[d] EXCEPT !.told = @ + one]
    OBVIOUS
  <2>4. downs[d] \in [real : Nat, told : Nat]
    BY <1>2
  <2>5. new \in [real : Nat, told : Nat] /\ new.real = downs[d].real /\ new.told = downs[d].told + one
    BY <2>3, <2>4
  <2>6. downs' = [downs EXCEPT ![d] = new]
    BY <2>2, <2>3
  <2>7. downs' \in [Monitored -> [real : Nat, told : Nat]]
    BY <1>2, <2>5, <2>6
  <2>8. downs[d].told \in Nat /\ one \in Nat /\ one <= 1
    BY <2>4
  <2>9. \A x \in Monitored : x # d => downs'[x] = downs[x]
    BY <1>2, <2>6
  <2>10. downs'[d] = new
    BY <1>2, <2>6
  <2>11. \A x \in Monitored : downs[x].told \in Nat
    BY <1>2
  <2>12. \A x \in Monitored :
           /\ downs'[x].real = downs[x].real
           /\ x # d => downs'[x].told = downs[x].told
           /\ downs'[x].told <= downs[x].told + 1
    <3> SUFFICES ASSUME NEW x \in Monitored
                 PROVE  /\ downs'[x].real = downs[x].real
                        /\ x # d => downs'[x].told = downs[x].told
                        /\ downs'[x].told <= downs[x].told + 1
      OBVIOUS
    <3>1. CASE x = d
      BY <2>5, <2>8, <2>10, <3>1
    <3>2. CASE x # d
      BY <2>9, <2>11, <3>2
    <3> QED
      BY <3>1, <3>2
  <2> QED
    BY <1>1, <1>2, <1>3, <1>4, <1>5, <1>6, <1>7, <1>10, <2>1, <2>7, <2>12
<1>11. CASE alert # "down"
  <2>1. alert \in Events /\ downs' = downs
    BY <1>4, <1>8, <1>11
  <2>2. told' = [told EXCEPT ![alert] = @ + one]
    BY <1>8, <1>9, <1>11
  <2>3. told[alert] \in Nat /\ one \in Nat /\ one <= 1
    BY <1>2, <2>1
  <2>4. /\ told' \in [Events -> Nat] /\ told'[alert] = told[alert] + one
        /\ \A e \in Events \ {alert} : told'[e] = told[e]
    BY <1>2, <2>1, <2>2, <2>3
  <2>5. told'[alert] >= told[alert] /\ told'[alert] <= told[alert] + 1
    BY <2>3, <2>4
  <2>6. missed' \subseteq Events /\ missed \subseteq missed'
    BY <1>2, <1>8, <1>11, <2>1
  <2>7. told'[alert] > 0 \/ alert \in missed'
    <3>1. CASE heard
      <4>1. one = 1
        BY <1>8, <1>9, <3>1
      <4> QED
        BY <2>3, <2>4, <4>1
    <3>2. CASE ~heard
      BY <1>8, <1>11, <3>2
    <3> QED
      BY <3>1, <3>2
  <2>8. \A x \in Monitored : downs[x].told \in Nat
    BY <1>2
  <2>9. \A x \in Monitored : downs'[x] = downs[x] /\ downs'[x].told <= downs[x].told + 1
    BY <2>1, <2>8
  <2> QED
    BY <1>1, <1>2, <1>3, <1>4, <1>5, <1>6, <1>7, <2>1, <2>4, <2>5, <2>6, <2>7, <2>9
<1> QED
  BY <1>10, <1>11

\* NextDevice: the tick goes on to the next device.
LEMMA NextDeviceShape ==
  ASSUME EvCore, NEW p \in Tickers, NextDevice(p)
  PROVE  /\ tick[p].pc = "post" /\ tick'[p] \in Ticks /\ tick' = [tick EXCEPT ![p] = tick'[p]]
         /\ tick'[p].pc = "log" /\ tick'[p].dry = tick[p].dry /\ tick'[p].todo # <<>>
         /\ tick[p].found = {} /\ tick'[p].found = {}
         /\ tick[p].posts = <<>> /\ tick'[p].posts = <<>> /\ tick'[p].spool = tick[p].spool
<1> DEFINE t == tick[p]
           u == [t EXCEPT !.pc = "log", !.todo = Tail(@)]
<1>1. t.pc = "post" /\ t.posts = <<>> /\ Len(t.todo) > 1
  BY DEF NextDevice
<1>2. t \in Ticks /\ Tidy(t, log) /\ tick \in [Tickers -> Ticks] /\ t.todo \in Seq(Monitored)
  <2>1. t \in Ticks /\ Tidy(t, log) /\ tick \in [Tickers -> Ticks]
    BY <1>1, TickIs DEF EvCore, EvTypes
  <2> QED
    BY <2>1 DEF Ticks
<1>3. t.found = {}
  BY <1>1, <1>2 DEF Tidy
<1>4. Tail(t.todo) \in Seq(Monitored) /\ Tail(t.todo) # <<>>
  <2>1. PICK q \in Seq(Monitored) : q = t.todo
    BY <1>2
  <2>2. Len(q) \in Nat /\ Len(q) > 1 /\ q # <<>>
    BY <1>1, <2>1
  <2>3. Tail(q) \in Seq(Monitored) /\ Len(Tail(q)) = Len(q) - 1
    BY <2>2, HeadTailProperties
  <2>4. Len(Tail(q)) # 0
    BY <2>2, <2>3
  <2> QED
    BY <2>1, <2>3, <2>4
<1>5. tick' = [tick EXCEPT ![p] = u] /\ tick'[p] = u
  BY <1>2 DEF NextDevice
<1>6. /\ u.pc = "log" /\ u.dry = t.dry /\ u.todo = Tail(t.todo) /\ u.found = t.found /\ u.spool = t.spool
      /\ u.posts = t.posts /\ u \in Ticks
  BY <1>2, <1>4 DEF Ticks
<1> HIDE DEF u
<1> QED
  BY <1>1, <1>3, <1>4, <1>5, <1>6

-----------------------------------------------------------------------------
(* The invariant of what no tick may lose.                                 *)

LEMMA EvInitInv ==
  ASSUME EventInit
  PROVE  EvCore
<1>1. Forgotten \in Memories
  BY DEF Forgotten, Memories
<1>2. /\ plan \in SpoolSettings /\ plan.ticks \in Nat /\ plan.flips \in Nat
      /\ now = 0 /\ log = {} /\ link = [d \in Monitored |-> "UP"]
      /\ file = [d \in Monitored |-> Forgotten] /\ tick = [p \in Tickers |-> AtRest]
      /\ ticksLeft = plan.ticks /\ flipsLeft = plan.flips
      /\ told = [e \in Events |-> 0] /\ missed = {} /\ early = {}
      /\ downs = [d \in Monitored |-> [real |-> 0, told |-> 0]] /\ setbacks = 0
  BY SpoolAssumption DEF EventInit, SpoolAssumption
<1>3. AtRest \in Ticks /\ AtRest.pc = "idle"
  BY DEF AtRest, Ticks
<1>4. EvTypes
  BY <1>1, <1>2, <1>3, SpoolConstants DEF EvTypes, Spools
<1>5. LogInv
  BY <1>2, FS_EmptySet DEF LogInv
<1>6. FileInv
  <2>1. \A d : RingOK(Forgotten, d, log, now)
    BY SpoolConstants DEF RingOK, Forgotten, Range
  <2>2. \A d : Owed(Forgotten, d, log, Excused)
    BY <1>2 DEF Owed
  <2> QED
    BY <1>2, <2>1, <2>2 DEF FileInv
<1>7. TickInv /\ Alone
  BY <1>2, <1>3 DEF TickInv, Alone
<1> QED
  BY <1>4, <1>5, <1>6, <1>7 DEF EvCore

\* A tick that is over, or starts anew, or is another's, is no matter.
LEMMA TickMoves ==
  ASSUME EvCore, NEW p \in Tickers, tick[p].pc # "idle", tick' = [tick EXCEPT ![p] = tick'[p]],
         UNCHANGED <<plan, now, log, file>>, Excused \subseteq Excused', tick'[p] \in Ticks,
         Tidy(tick'[p], log), Sound(tick'[p], log, now, Excused')
  PROVE  LogInv' /\ FileInv' /\ TickInv' /\ Alone'
<1>1. tick \in [Tickers -> Ticks] /\ \A q \in Tickers : q # p => tick'[q] = tick[q]
  BY DEF EvCore, EvTypes
<1>2. PICK known, more : known = Excused /\ more = Excused' /\ known \subseteq more
  OBVIOUS
<1>3. LogInv'
  BY DEF EvCore, LogInv
<1>4. FileInv'
  <2> SUFFICES ASSUME NEW d \in Monitored
               PROVE  RingOK(file'[d], d, log', now') /\ Owed(file'[d], d, log', more)
    BY <1>2 DEF FileInv
  <2>1. RingOK(file[d], d, log, now) /\ Owed(file[d], d, log, known)
    BY <1>2 DEF EvCore, FileInv
  <2>2. Owed(file[d], d, log, more)
    BY <1>2, <2>1 DEF Owed
  <2> QED
    BY <2>1, <2>2
<1>5. TickInv'
  <2> SUFFICES ASSUME NEW q \in Tickers, tick'[q].pc # "idle"
               PROVE  q \in plan.tickers /\ Tidy(tick'[q], log) /\ Sound(tick'[q], log, now, more)
    BY <1>2 DEF TickInv
  <2>1. CASE q = p
    BY <1>2, <2>1 DEF EvCore, TickInv
  <2>2. CASE q # p
    <3>1. tick'[q] = tick[q]
      BY <1>1, <2>2
    <3>2. q \in plan.tickers /\ Tidy(tick[q], log) /\ Sound(tick[q], log, now, known)
      BY <1>2, <3>1 DEF EvCore, TickInv
    <3>3. Sound(tick[q], log, now, more)
      BY <1>2, <3>2 DEF Sound, Owed
    <3> QED
      BY <3>1, <3>2, <3>3
  <2> QED
    BY <2>1, <2>2
<1>6. Alone'
  <2>1. \A q \in Tickers : tick'[q].pc # "idle" => tick[q].pc # "idle"
    BY <1>1
  <2> QED
    BY <2>1 DEF EvCore, Alone
<1> QED
  BY <1>3, <1>4, <1>5, <1>6

\* Time goes by and lines arrive, none later than an overlap: no memory has
\* done with them.
LEMMA LogMoves ==
  ASSUME EvCore, log \subseteq log', now' \in Nat, now <= now',
         \A e \in log' \ log : Stamp[e] \in Nat /\ now <= Stamp[e] + Overlap,
         UNCHANGED <<plan, file, tick, told, missed, early>>
  PROVE  FileInv' /\ TickInv' /\ Alone'
<1>1. file \in Spools /\ now \in Nat /\ Excused' = Excused
  BY SpoolConstants DEF EvCore, EvTypes, Excused
<1>2. ASSUME NEW mem \in Memories, NEW d \in Monitored, NEW known, RingOK(mem, d, log, now),
             Owed(mem, d, log, known)
      PROVE  RingOK(mem, d, log', now') /\ Owed(mem, d, log', known)
  <2>1. RingOK(mem, d, log', now')
    BY <1>1, <1>2, RingStays
  <2>2. ASSUME NEW e \in log' \ log
        PROVE  ~Gone(mem, e)
    <3>1. e \notin Range(mem.seen)
      BY <1>2, <2>2 DEF RingOK
    <3>2. mem.cursor # NoCursor => mem.cursor \in Nat /\ mem.cursor <= now
      BY <1>2 DEF Memories, RingOK
    <3>3. Stamp[e] \in Nat /\ now <= Stamp[e] + Overlap /\ Overlap \in Nat
      BY <2>2, SpoolConstants
    <3>4. mem.cursor # NoCursor => Stamp[e] + Overlap >= mem.cursor
      BY <1>1, <3>2, <3>3
    <3> QED
      BY <3>1, <3>4 DEF Gone
  <2>3. Owed(mem, d, log', known)
    BY <1>2, <2>2 DEF Owed
  <2> QED
    BY <2>1, <2>3
<1>3. FileInv'
  <2> SUFFICES ASSUME NEW d \in Monitored
               PROVE  RingOK(file[d], d, log', now') /\ Owed(file[d], d, log', Excused)
    BY <1>1 DEF FileInv
  <2>1. file[d] \in Memories
    BY <1>1 DEF Spools
  <2>2. RingOK(file[d], d, log, now) /\ Owed(file[d], d, log, Excused)
    BY DEF EvCore, FileInv
  <2> QED
    BY <1>2, <2>1, <2>2
<1>4. TickInv'
  <2> SUFFICES ASSUME NEW p \in Tickers, tick[p].pc # "idle"
               PROVE  p \in plan.tickers /\ Tidy(tick[p], log') /\ Sound(tick[p], log', now', Excused)
    BY <1>1 DEF TickInv
  <2>1. p \in plan.tickers /\ Tidy(tick[p], log) /\ Sound(tick[p], log, now, Excused)
    BY TickIs
  <2>2. Tidy(tick[p], log')
    <3> DEFINE t == tick[p]
    <3>1. \A e : e \in log => e \in log'
      OBVIOUS
    <3> HIDE DEF t
    <3> QED
      BY <2>1, <3>1 DEF Tidy
  <2>3. Sound(tick[p], log', now', Excused)
    <3> SUFFICES ASSUME NEW d \in Monitored
                 PROVE  /\ RingOK(tick[p].spool[d], d, log', now')
                        /\ Owed(tick[p].spool[d], d, log', Excused \cup Pending(tick[p], d))
      BY DEF Sound
    <3>1. tick[p].spool[d] \in Memories
      BY <2>1 DEF Tidy, Spools
    <3>2. /\ RingOK(tick[p].spool[d], d, log, now)
          /\ Owed(tick[p].spool[d], d, log, Excused \cup Pending(tick[p], d))
      BY <2>1 DEF Sound
    <3> QED
      BY <1>2, <3>1, <3>2
  <2> QED
    BY <2>1, <2>2, <2>3
<1>5. Alone'
  BY DEF EvCore, Alone
<1> QED
  BY <1>3, <1>4, <1>5

LEMMA ClockStep ==
  ASSUME EvCore, Clock
  PROVE  EvCore'
<1>1. now' \in 0..MaxTime /\ now <= now' /\ now \in Nat /\ now' \in Nat
  BY SpoolConstants DEF EvCore, EvTypes, Clock
<1>2. EvTypes'
  BY <1>1 DEF EvCore, EvTypes, Clock, history
<1>3. LogInv'
  <2> SUFFICES ASSUME NEW e \in log
               PROVE  Stamp[e] <= now'
    BY DEF EvCore, LogInv, Clock
  <2>1. Stamp[e] \in Nat /\ Stamp[e] <= now
    BY SpoolConstants DEF EvCore, EvTypes, LogInv
  <2> QED
    BY <1>1, <2>1
<1>4. FileInv' /\ TickInv' /\ Alone'
  BY <1>1, LogMoves DEF Clock, history
<1> QED
  BY <1>2, <1>3, <1>4 DEF EvCore

LEMMA ArriveStep ==
  ASSUME EvCore, NEW e \in Events, Arrive(e)
  PROVE  EvCore'
<1>1. now \in Nat /\ now' = now /\ log' = log \cup {e} /\ Stamp[e] \in Nat
      /\ Stamp[e] <= now /\ now <= Stamp[e] + Overlap
  BY SpoolConstants DEF EvCore, EvTypes, Arrive
<1>2. EvTypes'
  BY DEF EvCore, EvTypes, Arrive, history
<1>3. LogInv'
  <2>1. IsFiniteSet(log \cup {e})
    BY FS_AddElement DEF EvCore, LogInv
  <2> QED
    BY <1>1, <2>1 DEF EvCore, LogInv
<1>4. \A f \in log' \ log : f = e
  BY <1>1
<1>5. FileInv' /\ TickInv' /\ Alone'
  BY <1>1, <1>4, LogMoves DEF Arrive, history
<1> QED
  BY <1>2, <1>3, <1>5 DEF EvCore

LEMMA FlipStep ==
  ASSUME EvCore, NEW d \in Monitored, Flip(d)
  PROVE  EvCore'
<1>1. flipsLeft' \in Nat /\ link' \in [Monitored -> {"UP", "DOWN"}]
  BY DEF EvCore, EvTypes, Flip
<1>2. downs' \in [Monitored -> [real : Nat, told : Nat]]
  <2> DEFINE k == IF link[d] = "UP" THEN 1 ELSE 0
  <2>1. k \in Nat
    OBVIOUS
  <2>2. downs' = [downs EXCEPT ![d].real = @ + k]
    BY DEF Flip
  <2> HIDE DEF k
  <2>3. downs[d] \in [real : Nat, told : Nat] /\ downs \in [Monitored -> [real : Nat, told : Nat]]
    BY DEF EvCore, EvTypes
  <2> QED
    BY <2>1, <2>2, <2>3
<1>3. EvTypes'
  BY <1>1, <1>2 DEF EvCore, EvTypes, Flip
<1>4. UNCHANGED <<plan, now, log, file, tick, told, missed, early>>
  BY DEF Flip
<1>5. LogInv'
  BY <1>4 DEF EvCore, LogInv
<1>6. now \in Nat
  BY SpoolConstants DEF EvCore, EvTypes
<1>7. FileInv' /\ TickInv' /\ Alone'
  BY <1>4, <1>6, LogMoves
<1> QED
  BY <1>3, <1>5, <1>7 DEF EvCore

LEMMA NoPosts == Range(<<>>) = {} /\ IsInjective(<<>>)
BY DEF Range, IsInjective

LEMMA StartTickStep ==
  ASSUME EvCore, NEW p \in Tickers, NEW dry \in BOOLEAN, StartTick(p, dry)
  PROVE  EvCore'
<1> DEFINE u == [AtRest EXCEPT !.pc = "log", !.dry = dry, !.todo = DeviceOrder, !.spool = file]
<1>1. /\ p \in plan.tickers /\ Unlocked(p) /\ tick' = [tick EXCEPT ![p] = u] /\ ticksLeft' = ticksLeft - 1
      /\ ticksLeft > 0 /\ UNCHANGED <<plan, now, log, link, file, flipsLeft, told, missed, early, downs, setbacks>>
  BY DEF StartTick, history
<1>2. /\ tick \in [Tickers -> Ticks] /\ file \in Spools /\ ticksLeft \in Nat
  BY DEF EvCore, EvTypes
<1>3. /\ u.pc = "log" /\ u.dry = dry /\ u.todo = DeviceOrder /\ u.spool = file /\ u.found = {} /\ u.posts = <<>>
      /\ u \in Ticks
  <2>1. AtRest \in Ticks /\ AtRest.found = {} /\ AtRest.posts = <<>>
    BY DEF AtRest, Ticks
  <2>2. DeviceOrder \in Seq(Monitored) /\ file \in Spools \cup {<<>>}
    BY <1>2, SpoolConstants
  <2> QED
    BY <2>1, <2>2 DEF Ticks
<1> HIDE DEF u
<1>4. tick'[p] = u /\ \A q \in Tickers : q # p => tick'[q] = tick[q]
  BY <1>1, <1>2
<1>5. EvTypes'
  BY <1>1, <1>2, <1>3 DEF EvCore, EvTypes
<1>6. LogInv' /\ FileInv'
  BY <1>1 DEF EvCore, LogInv, FileInv, Excused
<1>7. Tidy(u, log)
  BY <1>2, <1>3, NoPosts, SpoolConstants DEF Tidy
<1>8. Sound(u, log, now, Excused)
  <2>1. \A d \in Monitored : RingOK(file[d], d, log, now) /\ Owed(file[d], d, log, Excused)
    BY DEF EvCore, FileInv
  <2> QED
    BY <1>3, <2>1 DEF Sound, Owed
<1>9. TickInv'
  <2> SUFFICES ASSUME NEW q \in Tickers, tick'[q].pc # "idle"
               PROVE  q \in plan.tickers /\ Tidy(tick'[q], log) /\ Sound(tick'[q], log, now, Excused)
    BY <1>1 DEF TickInv, Excused
  <2>1. CASE q = p
    BY <1>1, <1>4, <1>7, <1>8, <2>1
  <2>2. CASE q # p
    BY <1>4, <2>2, TickIs
  <2> QED
    BY <2>1, <2>2
<1>10. Alone'
  BY <1>1, <1>4 DEF EvCore, Alone, Unlocked
<1> QED
  BY <1>5, <1>6, <1>9, <1>10 DEF EvCore

LEMMA ReadLogStep ==
  ASSUME EvCore, NEW p \in Tickers, ReadLog(p)
  PROVE  EvCore'
<1> DEFINE t == tick[p]
           u == tick'[p]
           d == At(p)
           mem == Mem(p)
<1>1. UNCHANGED <<plan, now, log, link, file, ticksLeft, flipsLeft, told, missed, downs, setbacks>>
  BY DEF ReadLog
<1>2. /\ t.pc = "log" /\ u \in Ticks /\ tick' = [tick EXCEPT ![p] = u]
      /\ u.pc = "links" /\ u.dry = t.dry /\ u.todo = t.todo /\ u.posts = <<>> /\ u.spool \in Spools
      /\ \A x \in Monitored \ {d} : u.spool[x] = t.spool[x]
      /\ early' \subseteq Events /\ early \subseteq early'
  BY ReadLogShape
<1>3. \/ /\ u.found = NewIn(mem, d)
         /\ u.spool[d] = IF t.dry THEN mem ELSE Record(mem, Window(mem, d))
         /\ ~t.dry /\ mem.cursor = NoCursor =>
              \A e \in Events : On[e] = d /\ ~Since(NoCursor, e) => e \in early'
      \/ u.found = {} /\ u.spool = t.spool
  BY ReadLogShape
<1>4. /\ Tidy(t, log) /\ Sound(t, log, now, Excused) /\ d \in Monitored /\ mem \in Memories
      /\ RingOK(mem, d, log, now) /\ mem = t.spool[d] /\ d = Head(t.todo)
      /\ \A x \in Monitored : RingOK(t.spool[x], x, log, now)
  BY <1>2, TickIs DEF Mem, At, Sound
<1>5. PICK known, more : known = Excused /\ more = Excused'
  OBVIOUS
<1>6. known \subseteq more /\ early' \subseteq more
  BY <1>1, <1>2, <1>5 DEF Excused
<1>7. \A x \in Monitored : Owed(t.spool[x], x, log, known)
  <2>1. \A x \in Monitored : Pending(t, x) = {}
    BY <1>2, <1>4, PendingIs
  <2> QED
    BY <1>4, <1>5, <2>1 DEF Sound, Owed
<1> HIDE DEF t, u, mem, d
<1>8. Tidy(u, log)
  <2>1. u.found \subseteq {e \in log \cap Alertworthy : On[e] = d}
    BY <1>3, NewInIs DEF EvCore
  <2> QED
    BY <1>2, <1>4, <2>1, NoPosts DEF Tidy
<1>9. \A x : Pending(u, x) = IF ~t.dry /\ d = x THEN u.found ELSE {}
  BY <1>2, <1>4, <1>8, PendingIs
<1>10. Sound(u, log, now, more)
  <2> SUFFICES ASSUME NEW x \in Monitored
               PROVE  RingOK(u.spool[x], x, log, now) /\ Owed(u.spool[x], x, log, more \cup Pending(u, x))
    BY DEF Sound
  <2>1. CASE u.spool[x] = t.spool[x]
    BY <1>4, <1>6, <1>7, <2>1 DEF Owed
  <2>2. CASE u.spool[x] # t.spool[x]
    <3>1. x = d
      BY <1>2, <2>2
    <3>2. /\ u.found = NewIn(mem, d) /\ ~t.dry /\ u.spool[d] = Record(mem, Window(mem, d))
          /\ mem.cursor = NoCursor =>
               \A e \in Events : On[e] = d /\ ~Since(NoCursor, e) => e \in early'
      BY <1>3, <1>4, <2>2, <3>1
    <3>3. PICK new : new = Record(mem, Window(mem, d))
      OBVIOUS
    <3>4. /\ RingOK(new, d, log, now)
          /\ \A e \in log \cap Alertworthy :
               On[e] = d /\ Gone(new, e) =>
                 Gone(mem, e) \/ e \in NewIn(mem, d) \/ (mem.cursor = NoCursor /\ ~Since(NoCursor, e))
      BY <1>4, <3>3, RecordIs DEF EvCore
    <3>5. Owed(new, d, log, more \cup NewIn(mem, d))
      <4> SUFFICES ASSUME NEW e \in log \cap Alertworthy, On[e] = d, Gone(new, e)
                   PROVE  e \in more \cup NewIn(mem, d)
        BY DEF Owed
      <4>1. CASE Gone(mem, e)
        BY <1>4, <1>6, <1>7, <4>1 DEF Owed
      <4>2. CASE e \in NewIn(mem, d)
        BY <4>2
      <4>3. CASE mem.cursor = NoCursor /\ ~Since(NoCursor, e)
        BY <1>6, <3>2, <4>3, SpoolConstants
      <4> QED
        BY <3>4, <4>1, <4>2, <4>3
    <3>6. Pending(u, d) = NewIn(mem, d)
      BY <1>9, <3>2
    <3> QED
      BY <3>1, <3>2, <3>3, <3>4, <3>5, <3>6
  <2> QED
    BY <2>1, <2>2
<1>11. LogInv' /\ FileInv' /\ TickInv' /\ Alone'
  BY <1>1, <1>2, <1>5, <1>6, <1>8, <1>10, TickMoves DEF t, u
<1>12. EvTypes'
  BY <1>1, <1>2 DEF EvCore, EvTypes
<1> QED
  BY <1>11, <1>12 DEF EvCore

LEMMA ReadLinksStep ==
  ASSUME EvCore, NEW p \in Tickers, ReadLinks(p)
  PROVE  EvCore'
<1> DEFINE t == tick[p]
           u == tick'[p]
           d == At(p)
<1>1. UNCHANGED <<plan, now, log, link, file, ticksLeft, flipsLeft, told, early, downs, setbacks>>
  BY DEF ReadLinks
<1>2. /\ t.pc = "links" /\ u \in Ticks /\ tick' = [tick EXCEPT ![p] = u]
      /\ u.pc = "post" /\ u.dry = t.dry /\ u.todo = t.todo
      /\ u.found = {} /\ IsInjective(u.posts) /\ Range(u.posts) \subseteq t.found \cup {"down"}
      /\ t.dry => u.posts = <<>>
      /\ u.spool \in Spools
      /\ \A x \in Monitored : u.spool[x].seen = t.spool[x].seen /\ u.spool[x].cursor = t.spool[x].cursor
      /\ missed' \subseteq Events /\ missed \subseteq missed'
      /\ ~t.dry => \A e \in t.found : e \in Range(u.posts) \/ e \in missed'
  BY ReadLinksShape
<1>3. /\ Tidy(t, log) /\ Sound(t, log, now, Excused) /\ d = Head(t.todo) /\ t.spool \in Spools /\ now \in Nat
  BY <1>2, TickIs DEF At
<1>4. PICK known, more : known = Excused /\ more = Excused'
  OBVIOUS
<1>5. known \subseteq more /\ missed' \subseteq more
  BY <1>1, <1>2, <1>4 DEF Excused
<1> HIDE DEF t, u, d
<1>6. Tidy(u, log)
  BY <1>2, <1>3 DEF Tidy
<1>7. \A x : /\ Pending(t, x) = IF ~t.dry /\ d = x THEN t.found ELSE {}
             /\ Pending(u, x) = IF ~t.dry /\ d = x THEN Range(u.posts) ELSE {}
  BY <1>2, <1>3, <1>6, PendingIs
<1>8. Sound(u, log, now, more)
  <2> SUFFICES ASSUME NEW x \in Monitored
               PROVE  RingOK(u.spool[x], x, log, now) /\ Owed(u.spool[x], x, log, more \cup Pending(u, x))
    BY DEF Sound
  <2>1. /\ RingOK(t.spool[x], x, log, now) /\ Owed(t.spool[x], x, log, known \cup Pending(t, x))
        /\ t.spool[x] \in Memories /\ u.spool[x] \in Memories
    BY <1>2, <1>3, <1>4 DEF Sound, Spools
  <2>2. RingOK(u.spool[x], x, log, now)
    BY <1>2, <1>3, <2>1, RingStays
  <2>3. known \cup Pending(t, x) \subseteq more \cup Pending(u, x)
    BY <1>2, <1>5, <1>7
  <2>4. Owed(u.spool[x], x, log, more \cup Pending(u, x))
    BY <1>2, <2>1, <2>3, OwedStays
  <2> QED
    BY <2>2, <2>4
<1>9. LogInv' /\ FileInv' /\ TickInv' /\ Alone'
  BY <1>1, <1>2, <1>4, <1>5, <1>6, <1>8, TickMoves DEF t, u
<1>10. EvTypes'
  BY <1>1, <1>2 DEF EvCore, EvTypes
<1> QED
  BY <1>9, <1>10 DEF EvCore

LEMMA PostStep ==
  ASSUME EvCore, NEW p \in Tickers, Post(p)
  PROVE  EvCore'
<1> DEFINE t == tick[p]
           u == tick'[p]
           d == At(p)
           alert == Head(t.posts)
<1>1. UNCHANGED <<plan, now, log, link, file, ticksLeft, flipsLeft, early, setbacks>>
  BY DEF Post
<1>2. /\ t.pc = "post" /\ u \in Ticks /\ tick' = [tick EXCEPT ![p] = u]
      /\ u.pc = "post" /\ u.dry = t.dry /\ u.todo = t.todo /\ u.found = t.found /\ u.spool = t.spool
      /\ IsInjective(u.posts) /\ Range(t.posts) = {alert} \cup Range(u.posts) /\ ~t.dry
      /\ told' \in [Events -> Nat] /\ missed' \subseteq Events /\ missed \subseteq missed'
      /\ downs' \in [Monitored -> [real : Nat, told : Nat]]
      /\ \A e \in Events \ {alert} : told'[e] = told[e]
      /\ alert \in Events => told'[alert] >= told[alert] /\ (told'[alert] > 0 \/ alert \in missed')
  BY PostShape
<1>3. /\ Tidy(t, log) /\ Sound(t, log, now, Excused) /\ d = Head(t.todo)
      /\ told \in [Events -> Nat] /\ log \subseteq Events
  BY <1>2, TickIs DEF At, EvCore, EvTypes
<1>4. PICK known, more : known = Excused /\ more = Excused'
  OBVIOUS
<1> HIDE DEF t, u, d, alert
<1>5. ASSUME NEW e \in Events, told[e] > 0 PROVE told'[e] > 0
  <2>1. told[e] \in Nat /\ told'[e] \in Nat /\ told'[e] >= told[e]
    BY <1>2, <1>3
  <2> QED
    BY <1>5, <2>1
<1>6. known \subseteq more /\ (alert \in Events => alert \in more)
  BY <1>1, <1>2, <1>4, <1>5 DEF Excused
<1>7. Tidy(u, log)
  BY <1>2, <1>3 DEF Tidy
<1>8. \A x : /\ Pending(t, x) = IF ~t.dry /\ d = x THEN Range(t.posts) ELSE {}
             /\ Pending(u, x) = IF ~t.dry /\ d = x THEN Range(u.posts) ELSE {}
  BY <1>2, <1>3, <1>7, PendingIs
<1>9. Sound(u, log, now, more)
  <2> SUFFICES ASSUME NEW x \in Monitored
               PROVE  RingOK(t.spool[x], x, log, now) /\ Owed(t.spool[x], x, log, more \cup Pending(u, x))
    BY <1>2 DEF Sound
  <2>1. RingOK(t.spool[x], x, log, now) /\ Owed(t.spool[x], x, log, known \cup Pending(t, x))
    BY <1>3, <1>4 DEF Sound
  <2>2. Pending(t, x) \subseteq {alert} \cup Pending(u, x)
    BY <1>2, <1>8
  <2>3. \A e \in log \cap Alertworthy : e \in known \cup Pending(t, x) => e \in more \cup Pending(u, x)
    BY <1>3, <1>6, <2>2
  <2> QED
    BY <2>1, <2>3 DEF Owed
<1>10. LogInv' /\ FileInv' /\ TickInv' /\ Alone'
  BY <1>1, <1>2, <1>4, <1>6, <1>7, <1>9, TickMoves DEF t, u
<1>11. EvTypes'
  BY <1>1, <1>2 DEF EvCore, EvTypes
<1> QED
  BY <1>10, <1>11 DEF EvCore

LEMMA NextDeviceStep ==
  ASSUME EvCore, NEW p \in Tickers, NextDevice(p)
  PROVE  EvCore'
<1> DEFINE t == tick[p]
           u == tick'[p]
<1>1. UNCHANGED <<plan, now, log, link, file, ticksLeft, flipsLeft, told, missed, early, downs, setbacks>>
  BY DEF NextDevice, history
<1>2. /\ t.pc = "post" /\ u \in Ticks /\ tick' = [tick EXCEPT ![p] = u]
      /\ u.pc = "log" /\ u.dry = t.dry /\ u.todo # <<>> /\ t.found = {} /\ u.found = {}
      /\ t.posts = <<>> /\ u.posts = <<>> /\ u.spool = t.spool
  BY NextDeviceShape
<1>3. Tidy(t, log) /\ Sound(t, log, now, Excused) /\ Excused' = Excused
  BY <1>1, <1>2, TickIs DEF Excused
<1> HIDE DEF t, u
<1>4. Tidy(u, log)
  BY <1>2, <1>3, NoPosts DEF Tidy
<1>5. \A x : Pending(t, x) = {} /\ Pending(u, x) = {}
  BY <1>2, NoPosts DEF Pending
<1>6. Sound(u, log, now, Excused')
  BY <1>2, <1>3, <1>5 DEF Sound
<1>7. LogInv' /\ FileInv' /\ TickInv' /\ Alone'
  BY <1>1, <1>2, <1>3, <1>4, <1>6, TickMoves DEF t, u
<1>8. EvTypes'
  BY <1>1, <1>2 DEF EvCore, EvTypes
<1> QED
  BY <1>7, <1>8 DEF EvCore

\* Ticks end, and the file they leave is in order.
LEMMA TicksEnd ==
  ASSUME EvCore, UNCHANGED <<plan, now, log, told, missed, early>>,
         \A p \in Tickers : tick'[p] = tick[p] \/ tick'[p] = AtRest, FileInv'
  PROVE  LogInv' /\ TickInv' /\ Alone'
<1>1. \A p \in Tickers : tick'[p].pc # "idle" => tick'[p] = tick[p]
  BY DEF AtRest
<1>2. Excused' = Excused
  BY DEF Excused
<1>3. LogInv' /\ Alone'
  BY <1>1 DEF EvCore, LogInv, Alone
<1>4. TickInv'
  BY <1>1, <1>2, TickIs DEF TickInv
<1> QED
  BY <1>3, <1>4

LEMMA SetBackIs ==
  ASSUME EvTypes, SetBack
  PROVE  setbacks' = setbacks + 1 /\ setbacks' \in Nat
BY DEF EvTypes, SetBack

LEMMA AtRestIs == AtRest \in Ticks /\ AtRest.pc = "idle" /\ \A d : Pending(AtRest, d) = {}
BY DEF AtRest, Ticks, Pending

LEMMA SaveStep ==
  ASSUME EvCore, NEW p \in Tickers, Save(p)
  PROVE  EvCore'
<1> DEFINE t == tick[p]
<1>1. /\ UNCHANGED <<plan, now, log, link, ticksLeft, flipsLeft, told, missed, early, downs>>
      /\ t.pc = "post" /\ t.posts = <<>> /\ tick' = [tick EXCEPT ![p] = AtRest]
      /\ \/ file' = t.spool /\ UNCHANGED setbacks
         \/ file' = file /\ (UNCHANGED setbacks \/ SetBack)
  BY DEF Save
<1>2. Tidy(t, log) /\ Sound(t, log, now, Excused) /\ t.spool \in Spools /\ Excused' = Excused
  BY <1>1, TickIs DEF Excused
<1>3. tick \in [Tickers -> Ticks] /\ file \in Spools
  BY DEF EvCore, EvTypes
<1>4. EvTypes'
  <2>1. setbacks' \in Nat
    BY <1>1, SetBackIs DEF EvCore, EvTypes
  <2> QED
    BY <1>1, <1>2, <1>3, <2>1, AtRestIs DEF EvCore, EvTypes
<1> HIDE DEF t
<1>5. FileInv'
  <2>1. CASE file' = file
    BY <1>1, <1>2, <2>1 DEF EvCore, FileInv
  <2>2. CASE file' = t.spool
    <3>1. \A d : Pending(t, d) = {}
      BY <1>1, <1>2, NoPosts DEF Pending, Tidy
    <3>2. \A d \in Monitored : RingOK(t.spool[d], d, log, now) /\ Owed(t.spool[d], d, log, Excused)
      BY <1>2, <3>1 DEF Sound, Owed
    <3> QED
      BY <1>1, <1>2, <2>2, <3>2 DEF FileInv
  <2> QED
    BY <1>1, <2>1, <2>2
<1>6. \A q \in Tickers : tick'[q] = tick[q] \/ tick'[q] = AtRest
  BY <1>1, <1>3
<1> QED
  BY <1>1, <1>4, <1>5, <1>6, TicksEnd DEF EvCore

LEMMA DieStep ==
  ASSUME EvCore, NEW p \in Tickers, Die(p)
  PROVE  EvCore'
<1>1. /\ UNCHANGED <<plan, now, log, link, file, ticksLeft, flipsLeft, told, missed, early, downs>>
      /\ tick' = [q \in Tickers |-> IF ProcessOf[q] = ProcessOf[p] THEN AtRest ELSE tick[q]] /\ SetBack
  BY DEF Die
<1>2. tick' \in [Tickers -> Ticks] /\ setbacks' \in Nat
  BY <1>1, AtRestIs, SetBackIs DEF EvCore, EvTypes
<1>3. EvTypes'
  BY <1>1, <1>2 DEF EvCore, EvTypes
<1>4. FileInv'
  BY <1>1 DEF EvCore, FileInv, Excused
<1>5. \A q \in Tickers : tick'[q] = tick[q] \/ tick'[q] = AtRest
  BY <1>1
<1> QED
  BY <1>1, <1>3, <1>4, <1>5, TicksEnd DEF EvCore

LEMMA ForgottenIs ==
  ASSUME NEW d, NEW L, NEW n, NEW known
  PROVE  Forgotten \in Memories /\ RingOK(Forgotten, d, L, n) /\ Owed(Forgotten, d, L, known)
<1>1. Forgotten.seen = <<>> /\ Forgotten.cursor = NoCursor
  BY DEF Forgotten
<1>2. Forgotten \in Memories
  BY DEF Forgotten, Memories
<1>3. Len(<<>>) = 0 /\ DOMAIN <<>> = {}
  OBVIOUS
<1>4. RingOK(Forgotten, d, L, n)
  BY <1>1, <1>3, NoPosts, SpoolConstants DEF RingOK
<1>5. Owed(Forgotten, d, L, known)
  BY <1>1, NoPosts DEF Owed, Gone
<1> QED
  BY <1>2, <1>4, <1>5

LEMMA ResetStep ==
  ASSUME EvCore, NEW p \in Tickers, NEW ds, Reset(p, ds)
  PROVE  EvCore'
<1>1. /\ UNCHANGED <<plan, now, log, link, tick, ticksLeft, flipsLeft, told, missed, early, downs>>
      /\ file' = [d \in Monitored |-> IF d \in ds THEN Forgotten ELSE file[d]] /\ SetBack
  BY DEF Reset
<1>2. file' \in Spools /\ setbacks' \in Nat
  BY <1>1, ForgottenIs, SetBackIs DEF EvCore, EvTypes, Spools
<1>3. EvTypes'
  BY <1>1, <1>2 DEF EvCore, EvTypes
<1>4. FileInv'
  <2> SUFFICES ASSUME NEW d \in Monitored
               PROVE  RingOK(file'[d], d, log, now) /\ Owed(file'[d], d, log, Excused)
    BY <1>1 DEF FileInv, Excused
  <2>1. file'[d] = Forgotten \/ file'[d] = file[d]
    BY <1>1
  <2> QED
    BY <2>1, ForgottenIs DEF EvCore, FileInv
<1> QED
  BY <1>1, <1>3, <1>4, TicksEnd DEF EvCore

LEMMA CoreStep ==
  ASSUME EvCore, [EventNext]_eventVars
  PROVE  EvCore'
<1>1. CASE UNCHANGED eventVars
  BY <1>1 DEF eventVars, EvCore, EvTypes, LogInv, FileInv, TickInv, Alone, Excused
<1>2. CASE \E p \in Tickers : TickStep(p)
  BY <1>2, ReadLogStep, ReadLinksStep, PostStep, NextDeviceStep, SaveStep DEF TickStep
<1>3. CASE \E p \in Tickers : \/ \E dry \in BOOLEAN : StartTick(p, dry)
                              \/ Die(p) \/ \E ds \in SUBSET Monitored \ {{}} : Reset(p, ds)
  BY <1>3, StartTickStep, DieStep, ResetStep
<1>4. CASE Clock \/ (\E e \in Events : Arrive(e)) \/ \E d \in Monitored : Flip(d)
  BY <1>4, ClockStep, ArriveStep, FlipStep
<1> QED
  BY <1>1, <1>2, <1>3, <1>4 DEF EventNext

\* The invariant of the event collector, for every setting: whatever a memory,
\* in the file or in a tick's hand, has put behind it was told or is noted.
THEOREM EvInvariance == EventSpec => []EvCore
<1>1. EventInit => EvCore
  BY EvInitInv
<1>2. EvCore /\ [EventNext]_eventVars => EvCore'
  BY CoreStep
<1> QED
  BY <1>1, <1>2, PTL DEF EventSpec

LEMMA NoneFalls ==
  ASSUME EvCore
  PROVE  NothingFallsThrough
<1> SUFFICES ASSUME NEW e \in log \cap Alertworthy,
                    ~IsNew(file[On[e]], e)
                      \/ (file[On[e]].cursor # NoCursor /\ ~Since(file[On[e]].cursor, e))
             PROVE  told[e] > 0 \/ e \in missed \cup early
  BY DEF NothingFallsThrough
<1>1. On[e] \in Monitored
  BY SpoolConstants
<1>2. Gone(file[On[e]], e)
  BY DEF IsNew, Since, Gone
<1>3. e \in Excused
  BY <1>1, <1>2 DEF EvCore, FileInv, Owed
<1> QED
  BY <1>3 DEF Excused

\* No alert falls through: late lines, crashes, failed saves, resets and
\* processes that tick at once lose none that is not noted.
THEOREM NothingLost == EventSpec => []NothingFallsThrough
<1>1. EvCore => NothingFallsThrough
  BY NoneFalls
<1> QED
  BY <1>1, EvInvariance, PTL

-----------------------------------------------------------------------------
(* How often an alert is told.                                             *)

LEMMA CountDrops ==
  ASSUME NEW m \in Nat, NEW n \in Nat, NEW P \in BOOLEAN, NEW Q \in BOOLEAN, NEW R \in BOOLEAN,
         NEW S \in BOOLEAN,
         \/ m = n /\ (P => Q) /\ (R => S)
         \/ m = n /\ (P => S) /\ (R => S) /\ ~(P /\ R)
         \/ m <= n + 1 /\ Q /\ ~P /\ (R => S)
  PROVE  m + One(P) + One(R) <= n + One(Q) + One(S)
BY DEF One

LEMMA CountIs ==
  ASSUME NEW n \in Nat, NEW P \in BOOLEAN, NEW Q \in BOOLEAN
  PROVE  n <= n + One(P) + One(Q) /\ n + One(P) + One(Q) \in Nat /\ (~P => n + One(P) + One(Q) <= n + 1)
BY DEF One

\* In one process there is one tick at a time.
LEMMA OneTick ==
  ASSUME EvCore, OneProcess
  PROVE  /\ \A p, q \in Tickers : tick[p].pc # "idle" /\ tick[q].pc # "idle" => p = q
         /\ \A p \in Tickers : p \in plan.tickers /\ Unlocked(p) => \A q \in Tickers : tick[q].pc = "idle"
<1>1. \A p \in Tickers : tick[p].pc # "idle" => p \in plan.tickers
  BY DEF EvCore, TickInv
<1> QED
  BY <1>1 DEF EvCore, Alone, OneProcess, Unlocked

\* The counts where the step of the one tick does not increase any.
LEMMA OnceMoves ==
  ASSUME EvCore, OnceInv, NEW p \in Tickers, tick[p].pc # "idle", tick' = [tick EXCEPT ![p] = tick'[p]],
         tick'[p].pc # "idle", UNCHANGED <<plan, file, setbacks>>,
         \A d \in Monitored : downs'[d].real = downs[d].real,
         tick'[p].dry => tick[p].dry /\ tick'[p].spool = tick[p].spool,
         \A e \in Events : EventCount(tick'[p].spool, tick'[p], told', e)
                             <= EventCount(tick[p].spool, tick[p], told, e),
         \A d \in Monitored : LinkCount(tick'[p].spool, tick'[p], link', downs', d)
                                <= LinkCount(tick[p].spool, tick[p], link, downs, d),
         told \in [Events -> Nat], told' \in [Events -> Nat], setbacks \in Nat,
         downs \in [Monitored -> [real : Nat, told : Nat]],
         downs' \in [Monitored -> [real : Nat, told : Nat]]
  PROVE  OnceInv'
<1> SUFFICES ASSUME OneProcess
             PROVE  /\ (\A q \in Tickers : tick'[q].pc = "idle") =>
                         Counted(file', AtRest, told', link', downs', setbacks')
                    /\ \A q \in Tickers : tick'[q].pc # "idle" =>
                         /\ Counted(tick'[q].spool, tick'[q], told', link', downs', setbacks')
                         /\ tick'[q].dry => tick'[q].spool = file'
  BY DEF OnceInv, OneProcess
<1>1. /\ Counted(tick[p].spool, tick[p], told, link, downs, setbacks)
      /\ tick[p].dry => tick[p].spool = file
  BY DEF OnceInv
<1>2. \A q \in Tickers : tick'[q].pc # "idle" => q = p
  <2>1. \A q \in Tickers : q # p => tick'[q] = tick[q]
    BY DEF EvCore, EvTypes
  <2> QED
    BY <2>1, OneTick
<1>3. ASSUME NEW e \in Events
      PROVE  EventCount(tick'[p].spool, tick'[p], told', e) <= 1 + setbacks
  <2>1. PICK a, b : a = EventCount(tick'[p].spool, tick'[p], told', e)
                    /\ b = EventCount(tick[p].spool, tick[p], told, e)
    OBVIOUS
  <2>2. a \in Nat /\ b \in Nat
    <3>1. told[e] \in Nat /\ told'[e] \in Nat
      OBVIOUS
    <3> QED
      BY <2>1, <3>1 DEF EventCount, One
  <2>3. a <= b /\ b <= 1 + setbacks
    BY <1>1, <2>1 DEF Counted
  <2> QED
    BY <2>1, <2>2, <2>3
<1>4. ASSUME NEW d \in Monitored
      PROVE  LinkCount(tick'[p].spool, tick'[p], link', downs', d) <= downs'[d].real + setbacks
  <2>1. PICK a, b : a = LinkCount(tick'[p].spool, tick'[p], link', downs', d)
                    /\ b = LinkCount(tick[p].spool, tick[p], link, downs, d)
    OBVIOUS
  <2>2. a \in Nat /\ b \in Nat /\ downs[d].real \in Nat
    <3>1. downs[d].told \in Nat /\ downs'[d].told \in Nat /\ downs[d].real \in Nat
      OBVIOUS
    <3> QED
      BY <2>1, <3>1 DEF LinkCount, One
  <2>3. a <= b /\ b <= downs[d].real + setbacks /\ downs'[d].real = downs[d].real
    BY <1>1, <2>1 DEF Counted
  <2> QED
    BY <2>1, <2>2, <2>3
<1>5. Counted(tick'[p].spool, tick'[p], told', link', downs', setbacks')
  BY <1>3, <1>4 DEF Counted
<1>6. tick'[p].dry => tick'[p].spool = file'
  BY <1>1
<1> QED
  BY <1>2, <1>5, <1>6

LEMMA EventDrops ==
  ASSUME NEW s, NEW t, NEW n, NEW s2, NEW t2, NEW n2, NEW e, n[e] \in Nat, n2[e] \in Nat,
         LET P == e \in Pending(t2, On[e])
             Q == e \in Pending(t, On[e])
             R == ~Gone(s2[On[e]], e)
             S == ~Gone(s[On[e]], e)
         IN \/ n2[e] = n[e] /\ (P => Q) /\ (R => S)
            \/ n2[e] = n[e] /\ (P => S) /\ (R => S) /\ ~(P /\ R)
            \/ n2[e] <= n[e] + 1 /\ Q /\ ~P /\ (R => S)
  PROVE  EventCount(s2, t2, n2, e) <= EventCount(s, t, n, e)
<1> DEFINE P == e \in Pending(t2, On[e])
           Q == e \in Pending(t, On[e])
           R == ~Gone(s2[On[e]], e)
           S == ~Gone(s[On[e]], e)
<1>1. P \in BOOLEAN /\ Q \in BOOLEAN /\ R \in BOOLEAN /\ S \in BOOLEAN
  OBVIOUS
<1>2. \/ n2[e] = n[e] /\ (P => Q) /\ (R => S)
      \/ n2[e] = n[e] /\ (P => S) /\ (R => S) /\ ~(P /\ R)
      \/ n2[e] <= n[e] + 1 /\ Q /\ ~P /\ (R => S)
  OBVIOUS
<1>3. /\ EventCount(s2, t2, n2, e) = n2[e] + One(P) + One(R)
      /\ EventCount(s, t, n, e) = n[e] + One(Q) + One(S)
  BY DEF EventCount
<1> HIDE DEF P, Q, R, S
<1>4. n2[e] + One(P) + One(R) <= n[e] + One(Q) + One(S)
  BY <1>1, <1>2, CountDrops
<1> QED
  BY <1>3, <1>4

LEMMA LinkDrops ==
  ASSUME NEW s, NEW t, NEW l, NEW n, NEW s2, NEW t2, NEW l2, NEW n2, NEW d,
         n[d].told \in Nat, n2[d].told \in Nat,
         LET P == "down" \in Pending(t2, d)
             Q == "down" \in Pending(t, d)
             R == s2[d].link = "UP" /\ l2[d] = "DOWN"
             S == s[d].link = "UP" /\ l[d] = "DOWN"
         IN \/ n2[d].told = n[d].told /\ (P => Q) /\ (R => S)
            \/ n2[d].told = n[d].told /\ (P => S) /\ (R => S) /\ ~(P /\ R)
            \/ n2[d].told <= n[d].told + 1 /\ Q /\ ~P /\ (R => S)
  PROVE  LinkCount(s2, t2, l2, n2, d) <= LinkCount(s, t, l, n, d)
<1> DEFINE P == "down" \in Pending(t2, d)
           Q == "down" \in Pending(t, d)
           R == s2[d].link = "UP" /\ l2[d] = "DOWN"
           S == s[d].link = "UP" /\ l[d] = "DOWN"
<1>1. P \in BOOLEAN /\ Q \in BOOLEAN /\ R \in BOOLEAN /\ S \in BOOLEAN
  OBVIOUS
<1>2. \/ n2[d].told = n[d].told /\ (P => Q) /\ (R => S)
      \/ n2[d].told = n[d].told /\ (P => S) /\ (R => S) /\ ~(P /\ R)
      \/ n2[d].told <= n[d].told + 1 /\ Q /\ ~P /\ (R => S)
  OBVIOUS
<1>3. /\ LinkCount(s2, t2, l2, n2, d) = n2[d].told + One(P) + One(R)
      /\ LinkCount(s, t, l, n, d) = n[d].told + One(Q) + One(S)
  BY DEF LinkCount
<1> HIDE DEF P, Q, R, S
<1>4. n2[d].told + One(P) + One(R) <= n[d].told + One(Q) + One(S)
  BY <1>1, <1>2, CountDrops
<1> QED
  BY <1>3, <1>4

\* What EvTypes says of the counts.
LEMMA CountTypes ==
  ASSUME EvCore
  PROVE  /\ told \in [Events -> Nat] /\ setbacks \in Nat
         /\ downs \in [Monitored -> [real : Nat, told : Nat]]
         /\ \A d \in Monitored : downs[d].told \in Nat /\ downs[d].real \in Nat
         /\ \A e \in Events : told[e] \in Nat /\ On[e] \in Monitored
<1>1. told \in [Events -> Nat] /\ setbacks \in Nat /\ downs \in [Monitored -> [real : Nat, told : Nat]]
  BY DEF EvCore, EvTypes
<1> QED
  BY <1>1, SpoolConstants

LEMMA ReadLogOnce ==
  ASSUME EvCore, OnceInv, RingHolds, NEW p \in Tickers, ReadLog(p)
  PROVE  OnceInv'
<1> DEFINE t == tick[p]
           u == tick'[p]
           d == At(p)
           mem == Mem(p)
<1>1. UNCHANGED <<plan, now, log, link, file, ticksLeft, flipsLeft, told, missed, downs, setbacks>>
  BY DEF ReadLog
<1>2. /\ t.pc = "log" /\ u \in Ticks /\ tick' = [tick EXCEPT ![p] = u]
      /\ u.pc = "links" /\ u.dry = t.dry /\ u.todo = t.todo /\ u.posts = <<>> /\ u.spool \in Spools
      /\ \A x \in Monitored \ {d} : u.spool[x] = t.spool[x]
  BY ReadLogShape
<1>3. \/ u.found = NewIn(mem, d) /\ u.spool[d] = IF t.dry THEN mem ELSE Record(mem, Window(mem, d))
      \/ u.found = {} /\ u.spool = t.spool
  BY ReadLogShape
<1>4. /\ Tidy(t, log) /\ d \in Monitored /\ mem \in Memories /\ t.spool \in Spools
      /\ RingOK(mem, d, log, now) /\ mem = t.spool[d] /\ d = Head(t.todo)
  BY <1>2, TickIs DEF Mem, At
<1>5. \A x : Pending(t, x) = {} /\ Pending(u, x) = IF ~t.dry /\ d = x THEN u.found ELSE {}
  BY <1>2, <1>4, NoPosts DEF Pending, Tidy
<1>6. u.spool = t.spool \/ (~t.dry /\ u.found = NewIn(mem, d) /\ u.spool[d] = Record(mem, Window(mem, d)))
  <2>1. CASE t.dry
    <3>1. \A x \in Monitored : u.spool[x] = t.spool[x]
      BY <1>2, <1>3, <1>4, <2>1
    <3> QED
      BY <1>2, <1>4, <3>1 DEF Spools
  <2> QED
    BY <1>3, <2>1
<1>7. ASSUME NEW e \in Events
      PROVE  EventCount(u.spool, u, told', e) <= EventCount(t.spool, t, told, e)
  <2>1. told[e] \in Nat /\ told'[e] = told[e] /\ On[e] \in Monitored
    BY <1>1, CountTypes
  <2>2. CASE Pending(u, On[e]) = {} /\ u.spool[On[e]] = t.spool[On[e]]
    BY <1>5, <2>1, <2>2, EventDrops
  <2>3. CASE /\ On[e] = d /\ ~t.dry /\ u.found = NewIn(mem, d)
             /\ u.spool[d] = Record(mem, Window(mem, d))
    <3>1. PICK new : new = Record(mem, Window(mem, d))
      OBVIOUS
    <3>2. Gone(mem, e) \/ e \in NewIn(mem, d) => Gone(new, e)
      BY <1>4, <2>3, <3>1, RecordIs DEF EvCore
    <3>3. e \in NewIn(mem, d) => ~Gone(mem, e)
      BY <2>3 DEF NewIn, Window, IsNew, Since, Gone
    <3>4. e \in Pending(u, On[e]) => e \in NewIn(mem, d)
      BY <1>5, <2>3
    <3> QED
      BY <1>4, <2>1, <2>3, <3>1, <3>2, <3>3, <3>4, EventDrops
  <2>4. CASE On[e] = d /\ u.spool = t.spool /\ u.found = {}
    BY <1>5, <2>1, <2>4, EventDrops
  <2>5. CASE On[e] = d /\ u.spool = t.spool /\ t.dry
    BY <1>5, <2>1, <2>5, EventDrops
  <2>6. CASE On[e] # d
    BY <1>2, <1>5, <2>1, <2>2, <2>6
  <2>7. CASE On[e] = d
    <3>1. CASE t.dry
      BY <1>6, <2>5, <2>7, <3>1
    <3>2. CASE ~t.dry /\ u.found = NewIn(mem, d) /\ u.spool[d] = Record(mem, Window(mem, d))
      BY <2>3, <2>7, <3>2
    <3>3. CASE u.found = {} /\ u.spool = t.spool
      BY <2>4, <2>7, <3>3
    <3> QED
      BY <1>3, <3>1, <3>2, <3>3
  <2> QED
    BY <2>6, <2>7
<1>8. ASSUME NEW x \in Monitored
      PROVE  LinkCount(u.spool, u, link', downs', x) <= LinkCount(t.spool, t, link, downs, x)
  <2>1. downs[x].told \in Nat /\ downs' = downs /\ link' = link
    BY <1>1, CountTypes
  <2>2. u.spool[x].link = t.spool[x].link
    <3>1. Record(mem, Window(mem, d)).link = mem.link
      BY <1>4, RecordIs DEF EvCore
    <3> QED
      BY <1>2, <1>4, <1>6, <3>1
  <2>3. "down" \notin Pending(u, x)
    BY <1>2, <1>5, SpoolConstants DEF Ticks
  <2> QED
    BY <2>1, <2>2, <2>3, LinkDrops
<1>9. u.dry => t.dry /\ u.spool = t.spool
  BY <1>2, <1>6
<1> QED
  BY <1>1, <1>2, <1>7, <1>8, <1>9, CountTypes, OnceMoves

LEMMA ReadLinksOnce ==
  ASSUME EvCore, OnceInv, NEW p \in Tickers, ReadLinks(p)
  PROVE  OnceInv'
<1> DEFINE t == tick[p]
           u == tick'[p]
           d == At(p)
<1>1. UNCHANGED <<plan, now, log, link, file, ticksLeft, flipsLeft, told, early, downs, setbacks>>
  BY DEF ReadLinks
<1>2. /\ t.pc = "links" /\ u \in Ticks /\ tick' = [tick EXCEPT ![p] = u]
      /\ u.pc = "post" /\ u.dry = t.dry /\ u.todo = t.todo
      /\ u.found = {} /\ Range(u.posts) \subseteq t.found \cup {"down"}
      /\ t.dry => u.posts = <<>> /\ u.spool = t.spool
      /\ \A x \in Monitored : /\ u.spool[x].seen = t.spool[x].seen
                              /\ u.spool[x].cursor = t.spool[x].cursor
                              /\ x # d => u.spool[x] = t.spool[x]
      /\ "down" \in Range(u.posts) => Mem(p).link = "UP" /\ link[d] = "DOWN" /\ u.spool[d].link # "UP"
      /\ u.spool[d].link = "UP" /\ link[d] = "DOWN" => Mem(p).link = "UP"
  BY ReadLinksShape
<1>3. Tidy(t, log) /\ d = Head(t.todo) /\ d \in Monitored /\ Mem(p) = t.spool[d]
  BY <1>2, TickIs DEF At, Mem
<1>4. \A x : /\ Pending(t, x) = IF ~t.dry /\ d = x THEN t.found ELSE {}
             /\ Pending(u, x) = IF ~t.dry /\ d = x THEN Range(u.posts) ELSE {}
  <2> HIDE DEF t, u, d
  <2>1. t.posts = <<>>
    BY <1>2, <1>3 DEF Tidy
  <2> QED
    BY <1>2, <1>3, <2>1, NoPosts DEF Pending
<1>5. ASSUME NEW e \in Events
      PROVE  EventCount(u.spool, u, told', e) <= EventCount(t.spool, t, told, e)
  <2>1. told[e] \in Nat /\ told'[e] = told[e] /\ On[e] \in Monitored /\ e # "down"
    BY <1>1, CountTypes, SpoolConstants
  <2>2. e \in Pending(u, On[e]) => e \in Pending(t, On[e])
    BY <1>2, <1>4, <2>1
  <2>3. Gone(t.spool[On[e]], e) => Gone(u.spool[On[e]], e)
    BY <1>2, <2>1 DEF Gone
  <2> QED
    BY <2>1, <2>2, <2>3, EventDrops
<1>6. ASSUME NEW x \in Monitored
      PROVE  LinkCount(u.spool, u, link', downs', x) <= LinkCount(t.spool, t, link, downs, x)
  <2>1. downs[x].told \in Nat /\ downs' = downs /\ link' = link
    BY <1>1, CountTypes
  <2>2. "down" \in Pending(u, x) => t.spool[x].link = "UP" /\ link[x] = "DOWN" /\ u.spool[x].link # "UP"
    BY <1>2, <1>3, <1>4
  <2>3. u.spool[x].link = "UP" /\ link[x] = "DOWN" => t.spool[x].link = "UP"
    BY <1>2, <1>3
  <2> QED
    BY <2>1, <2>2, <2>3, LinkDrops
<1>7. u.dry => t.dry /\ u.spool = t.spool
  BY <1>2
<1> QED
  BY <1>1, <1>2, <1>5, <1>6, <1>7, CountTypes, OnceMoves

LEMMA PostOnce ==
  ASSUME EvCore, OnceInv, NEW p \in Tickers, Post(p)
  PROVE  OnceInv'
<1> DEFINE t == tick[p]
           u == tick'[p]
           d == At(p)
           alert == Head(t.posts)
<1>1. UNCHANGED <<plan, now, log, link, file, ticksLeft, flipsLeft, early, setbacks>>
  BY DEF Post
<1>2. /\ t.pc = "post" /\ u \in Ticks /\ tick' = [tick EXCEPT ![p] = u]
      /\ u.pc = "post" /\ u.dry = t.dry /\ u.todo = t.todo /\ u.found = t.found /\ u.spool = t.spool
      /\ alert \notin Range(u.posts) /\ Range(t.posts) = {alert} \cup Range(u.posts) /\ ~t.dry
      /\ told' \in [Events -> Nat]
      /\ downs' \in [Monitored -> [real : Nat, told : Nat]]
      /\ \A e \in Events \ {alert} : told'[e] = told[e]
      /\ alert \in Events => told'[alert] <= told[alert] + 1
      /\ \A x \in Monitored : /\ downs'[x].real = downs[x].real
                              /\ alert # "down" \/ x # d => downs'[x].told = downs[x].told
                              /\ downs'[x].told <= downs[x].told + 1
  BY PostShape
<1>3. Tidy(t, log) /\ d = Head(t.todo) /\ log \subseteq Events
  BY <1>2, TickIs DEF At, EvCore, EvTypes
<1>4. \A x : /\ Pending(t, x) = IF d = x THEN Range(t.posts) ELSE {}
             /\ Pending(u, x) = IF d = x THEN Range(u.posts) ELSE {}
  BY <1>2, <1>3 DEF Pending, Tidy
<1>5. \A e \in Events : e \in Range(t.posts) => On[e] = d
  BY <1>3, SpoolConstants DEF Tidy
<1>6. ASSUME NEW e \in Events
      PROVE  EventCount(u.spool, u, told', e) <= EventCount(t.spool, t, told, e)
  <2>1. told[e] \in Nat /\ told'[e] \in Nat
    BY <1>2, CountTypes
  <2>2. Gone(t.spool[On[e]], e) => Gone(u.spool[On[e]], e)
    BY <1>2
  <2>3. CASE e = alert
    <3>1. e \in Pending(t, On[e]) /\ e \notin Pending(u, On[e]) /\ told'[e] <= told[e] + 1
      BY <1>2, <1>4, <1>5, <2>3
    <3> QED
      BY <2>1, <2>2, <3>1, EventDrops
  <2>4. CASE e # alert
    <3>1. (e \in Pending(u, On[e]) => e \in Pending(t, On[e])) /\ told'[e] = told[e]
      BY <1>2, <1>4, <2>4
    <3> QED
      BY <2>1, <2>2, <3>1, EventDrops
  <2> QED
    BY <2>3, <2>4
<1>7. ASSUME NEW x \in Monitored
      PROVE  LinkCount(u.spool, u, link', downs', x) <= LinkCount(t.spool, t, link, downs, x)
  <2>1. downs[x].told \in Nat /\ downs'[x].told \in Nat /\ link' = link /\ u.spool = t.spool
    BY <1>1, <1>2, CountTypes
  <2>2. CASE alert = "down" /\ x = d
    <3>1. "down" \in Pending(t, x) /\ "down" \notin Pending(u, x) /\ downs'[x].told <= downs[x].told + 1
      BY <1>2, <1>4, <2>2
    <3> QED
      BY <2>1, <3>1, LinkDrops
  <2>3. CASE alert # "down" \/ x # d
    <3>1. ("down" \in Pending(u, x) => "down" \in Pending(t, x)) /\ downs'[x].told = downs[x].told
      BY <1>2, <1>4, <2>3
    <3> QED
      BY <2>1, <3>1, LinkDrops
  <2> QED
    BY <2>2, <2>3
<1>8. u.dry => t.dry /\ u.spool = t.spool
  BY <1>2
<1> QED
  BY <1>1, <1>2, <1>6, <1>7, <1>8, CountTypes, OnceMoves

LEMMA NextDeviceOnce ==
  ASSUME EvCore, OnceInv, NEW p \in Tickers, NextDevice(p)
  PROVE  OnceInv'
<1> DEFINE t == tick[p]
           u == tick'[p]
<1>1. UNCHANGED <<plan, now, log, link, file, ticksLeft, flipsLeft, told, missed, early, downs, setbacks>>
  BY DEF NextDevice, history
<1>2. /\ t.pc = "post" /\ u \in Ticks /\ tick' = [tick EXCEPT ![p] = u]
      /\ u.pc = "log" /\ u.dry = t.dry /\ t.found = {} /\ u.found = {}
      /\ t.posts = <<>> /\ u.posts = <<>> /\ u.spool = t.spool
  BY NextDeviceShape
<1>3. \A x : Pending(t, x) = {} /\ Pending(u, x) = {}
  BY <1>2, NoPosts DEF Pending
<1>4. /\ \A e \in Events : EventCount(u.spool, u, told', e) <= EventCount(t.spool, t, told, e)
      /\ \A x \in Monitored : LinkCount(u.spool, u, link', downs', x) <= LinkCount(t.spool, t, link, downs, x)
  <2>1. /\ told' = told /\ link' = link /\ downs' = downs
        /\ \A e \in Events : told[e] \in Nat
        /\ \A x \in Monitored : downs[x].told \in Nat
    BY <1>1, CountTypes
  <2>2. \A e \in Events : EventCount(u.spool, u, told', e) <= EventCount(t.spool, t, told, e)
    BY <1>2, <1>3, <2>1, EventDrops
  <2>3. \A x \in Monitored : LinkCount(u.spool, u, link', downs', x) <= LinkCount(t.spool, t, link, downs, x)
    BY <1>2, <1>3, <2>1, LinkDrops
  <2> QED
    BY <2>2, <2>3
<1> QED
  BY <1>1, <1>2, <1>4, CountTypes, OnceMoves

LEMMA StartTickOnce ==
  ASSUME EvCore, OnceInv, NEW p \in Tickers, NEW dry \in BOOLEAN, StartTick(p, dry)
  PROVE  OnceInv'
<1> DEFINE u == [AtRest EXCEPT !.pc = "log", !.dry = dry, !.todo = DeviceOrder, !.spool = file]
<1>1. /\ p \in plan.tickers /\ Unlocked(p) /\ tick' = [tick EXCEPT ![p] = u]
      /\ UNCHANGED <<plan, now, log, link, file, flipsLeft, told, missed, early, downs, setbacks>>
  BY DEF StartTick, history
<1>2. AtRest \in Ticks /\ AtRest.found = {} /\ AtRest.posts = <<>>
  BY DEF AtRest, Ticks
<1>3. u.pc = "log" /\ u.spool = file /\ u.found = {} /\ u.posts = <<>>
  BY <1>2 DEF Ticks
<1> HIDE DEF u
<1>4. tick'[p] = u /\ \A q \in Tickers : q # p => tick'[q] = tick[q]
  BY <1>1 DEF EvCore, EvTypes
<1>5. \A x : Pending(u, x) = {} /\ Pending(AtRest, x) = {}
  BY <1>3, AtRestIs, NoPosts DEF Pending
<1> SUFFICES ASSUME OneProcess
             PROVE  \A q \in Tickers : tick'[q].pc # "idle" =>
                      /\ Counted(tick'[q].spool, tick'[q], told, link, downs, setbacks)
                      /\ tick'[q].dry => tick'[q].spool = file
  BY <1>1, <1>3, <1>4 DEF OnceInv, OneProcess
<1>6. \A q \in Tickers : tick[q].pc = "idle"
  BY <1>1, OneTick
<1>7. Counted(file, AtRest, told, link, downs, setbacks)
  BY <1>6 DEF OnceInv
<1>8. Counted(file, u, told, link, downs, setbacks)
  BY <1>5, <1>7 DEF Counted, EventCount, LinkCount
<1> QED
  BY <1>3, <1>4, <1>6, <1>8

LEMMA FlipOnce ==
  ASSUME EvCore, OnceInv, NEW d \in Monitored, Flip(d)
  PROVE  OnceInv'
<1> DEFINE k == IF link[d] = "UP" THEN 1 ELSE 0
<1>1. /\ UNCHANGED <<plan, file, tick, told, setbacks>> /\ setbacks \in Nat
      /\ link' = [link EXCEPT ![d] = IF @ = "UP" THEN "DOWN" ELSE "UP"]
      /\ downs' = [downs EXCEPT ![d].real = @ + k]
  BY CountTypes DEF Flip
<1>2. /\ link \in [Monitored -> {"UP", "DOWN"}] /\ downs \in [Monitored -> [real : Nat, told : Nat]]
  BY DEF EvCore, EvTypes
<1>3. k \in {0, 1} /\ (k = 0 => link[d] # "UP")
  OBVIOUS
<1> HIDE DEF k
<1>4. /\ \A x \in Monitored : downs'[x].told = downs[x].told /\ (x # d => downs'[x].real = downs[x].real)
      /\ downs'[d].real = downs[d].real + k
  <2>1. downs'[d] = [downs[d] EXCEPT !.real = @ + k] /\ \A x \in Monitored \ {d} : downs'[x] = downs[x]
    BY <1>1, <1>2
  <2>2. downs[d] \in [real : Nat, told : Nat]
    BY <1>2
  <2> QED
    BY <2>1, <2>2
<1>5. ASSUME NEW s, NEW t, Counted(s, t, told, link, downs, setbacks)
      PROVE  Counted(s, t, told', link', downs', setbacks')
  <2>1. \A e \in Events : EventCount(s, t, told', e) <= 1 + setbacks'
    BY <1>1, <1>5 DEF Counted
  <2>2. ASSUME NEW x \in Monitored
        PROVE  LinkCount(s, t, link', downs', x) <= downs'[x].real + setbacks'
    <3>1. LinkCount(s, t, link, downs, x) <= downs[x].real + setbacks
      BY <1>5 DEF Counted
    <3>2. CASE x # d
      <4>1. link'[x] = link[x] /\ downs'[x].told = downs[x].told /\ downs'[x].real = downs[x].real
        BY <1>1, <1>2, <1>4, <3>2
      <4> QED
        BY <1>1, <3>1, <4>1 DEF LinkCount
    <3>3. CASE x = d
      <4> DEFINE m == downs[d].told
                 r == downs[d].real
                 P == "down" \in Pending(t, d)
                 R == s[d].link = "UP" /\ link'[d] = "DOWN"
                 S == s[d].link = "UP" /\ link[d] = "DOWN"
      <4>1. m \in Nat /\ r \in Nat
        BY <1>2
      <4>2. P \in BOOLEAN /\ R \in BOOLEAN /\ S \in BOOLEAN
        OBVIOUS
      <4>3. /\ LinkCount(s, t, link, downs, x) = m + One(P) + One(S)
            /\ LinkCount(s, t, link', downs', x) = m + One(P) + One(R)
        BY <1>4, <3>3 DEF LinkCount
      <4>4. R => k = 1
        BY <1>1, <1>2, <1>3
      <4>5. downs'[x].real = r + k /\ downs[x].real = r
        BY <1>4, <3>3
      <4> HIDE DEF m, r, P, R, S
      <4>6. m + One(P) + One(S) <= r + setbacks
        BY <3>1, <4>3, <4>5
      <4>7. m + One(P) + One(R) <= r + k + setbacks
        BY <1>1, <1>3, <4>1, <4>2, <4>4, <4>6 DEF One
      <4> QED
        BY <1>1, <4>3, <4>5, <4>7
    <3> QED
      BY <3>2, <3>3
  <2> QED
    BY <2>1, <2>2 DEF Counted
<1> QED
  BY <1>1, <1>5 DEF OnceInv, OneProcess

\* A setback costs one: what is told counts against what could be told.
LEMMA CountedAnew ==
  ASSUME NEW s, NEW t, NEW n \in Nat, NEW new, Counted(s, t, told, link, downs, n),
         told \in [Events -> Nat], downs \in [Monitored -> [real : Nat, told : Nat]]
  PROVE  Counted(new, AtRest, told, link, downs, n + 1)
<1>1. ASSUME NEW e \in Events
      PROVE  EventCount(new, AtRest, told, e) <= 1 + (n + 1)
  <2>1. PICK m : m = told[e] /\ m \in Nat
    OBVIOUS
  <2>2. m <= 1 + n
    <3>1. EventCount(s, t, told, e) <= 1 + n
      BY <1>1 DEF Counted
    <3> QED
      BY <2>1, <3>1 DEF EventCount, One
  <2>3. EventCount(new, AtRest, told, e) <= m + 1
    BY <2>1, AtRestIs DEF EventCount, One
  <2>4. EventCount(new, AtRest, told, e) \in Nat
    BY <2>1 DEF EventCount, One
  <2> QED
    BY <2>1, <2>2, <2>3, <2>4
<1>2. ASSUME NEW d \in Monitored
      PROVE  LinkCount(new, AtRest, link, downs, d) <= downs[d].real + (n + 1)
  <2>1. PICK m, r : m = downs[d].told /\ r = downs[d].real /\ m \in Nat /\ r \in Nat
    OBVIOUS
  <2>2. m <= r + n
    <3>1. LinkCount(s, t, link, downs, d) <= r + n
      BY <1>2, <2>1 DEF Counted
    <3> QED
      BY <2>1, <3>1 DEF LinkCount, One
  <2>3. LinkCount(new, AtRest, link, downs, d) <= m + 1
    BY <2>1, AtRestIs DEF LinkCount, One
  <2>4. LinkCount(new, AtRest, link, downs, d) \in Nat
    BY <2>1 DEF LinkCount, One
  <2> QED
    BY <2>1, <2>2, <2>3, <2>4
<1> QED
  BY <1>1, <1>2 DEF Counted

\* A tick that ends with nothing pending leaves the counts it had.
LEMMA CountedStill ==
  ASSUME NEW s, NEW t, NEW n \in Nat, Counted(s, t, told, link, downs, n), \A d : Pending(t, d) = {}
  PROVE  Counted(s, AtRest, told, link, downs, n)
<1>1. \A d : Pending(AtRest, d) = {}
  BY AtRestIs
<1> QED
  BY <1>1 DEF Counted, EventCount, LinkCount

LEMMA SaveOnce ==
  ASSUME EvCore, OnceInv, NEW p \in Tickers, Save(p)
  PROVE  OnceInv'
<1> DEFINE t == tick[p]
<1>1. /\ UNCHANGED <<plan, link, told, downs>>
      /\ t.pc = "post" /\ t.posts = <<>> /\ tick' = [tick EXCEPT ![p] = AtRest]
      /\ \/ file' = (IF t.dry THEN file ELSE t.spool) /\ UNCHANGED setbacks
         \/ SetBack
  BY DEF Save
<1>2. Tidy(t, log) /\ \A q \in Tickers : q # p => tick'[q] = tick[q]
  BY <1>1, TickIs DEF EvCore, EvTypes
<1>3. /\ tick'[p] = AtRest /\ told \in [Events -> Nat] /\ setbacks \in Nat
      /\ downs \in [Monitored -> [real : Nat, told : Nat]]
  BY <1>1, CountTypes DEF EvCore, EvTypes
<1>4. \A d : Pending(t, d) = {}
  <2>1. t.found = {}
    BY <1>1, <1>2 DEF Tidy
  <2> QED
    BY <1>1, <2>1, NoPosts DEF Pending
<1> SUFFICES ASSUME OneProcess
             PROVE  /\ Counted(file', AtRest, told, link, downs, setbacks')
                    /\ \A q \in Tickers : tick'[q].pc = "idle"
  BY <1>1 DEF OnceInv, OneProcess
<1>5. /\ Counted(t.spool, t, told, link, downs, setbacks) /\ (t.dry => t.spool = file)
  BY <1>1 DEF OnceInv
<1>6. \A q \in Tickers : tick'[q].pc = "idle"
  <2>1. \A q \in Tickers : q # p => tick[q].pc = "idle"
    BY <1>1, OneTick
  <2> QED
    BY <1>2, <1>3, <2>1, AtRestIs
<1>7. Counted(file', AtRest, told, link, downs, setbacks')
  <2>1. CASE file' = (IF t.dry THEN file ELSE t.spool) /\ UNCHANGED setbacks
    <3>1. file' = t.spool
      BY <1>5, <2>1
    <3>2. Counted(t.spool, AtRest, told, link, downs, setbacks)
      BY <1>3, <1>4, <1>5, CountedStill
    <3> QED
      BY <2>1, <3>1, <3>2
  <2>2. CASE SetBack
    <3>1. setbacks' = setbacks + 1
      BY <2>2 DEF SetBack
    <3>2. Counted(file', AtRest, told, link, downs, setbacks + 1)
      BY <1>3, <1>5, CountedAnew
    <3> QED
      BY <3>1, <3>2
  <2> QED
    BY <1>1, <2>1, <2>2
<1> QED
  BY <1>6, <1>7

LEMMA DieOnce ==
  ASSUME EvCore, OnceInv, NEW p \in Tickers, Die(p)
  PROVE  OnceInv'
<1>1. /\ UNCHANGED <<plan, file, link, told, downs>> /\ tick[p].pc # "idle" /\ setbacks' = setbacks + 1
      /\ tick' = [q \in Tickers |-> IF ProcessOf[q] = ProcessOf[p] THEN AtRest ELSE tick[q]]
  BY DEF Die, SetBack
<1>2. /\ told \in [Events -> Nat] /\ setbacks \in Nat /\ downs \in [Monitored -> [real : Nat, told : Nat]]
  BY CountTypes
<1> SUFFICES ASSUME OneProcess
             PROVE  /\ Counted(file, AtRest, told, link, downs, setbacks + 1)
                    /\ \A q \in Tickers : tick'[q].pc = "idle"
  BY <1>1 DEF OnceInv, OneProcess
<1>3. \A q \in Tickers : tick'[q].pc = "idle"
  <2>1. \A q \in Tickers : q # p => tick[q].pc = "idle"
    BY <1>1, OneTick
  <2> QED
    BY <1>1, <2>1, AtRestIs
<1>4. Counted(tick[p].spool, tick[p], told, link, downs, setbacks)
  BY <1>1 DEF OnceInv
<1>5. Counted(file, AtRest, told, link, downs, setbacks + 1)
  BY <1>2, <1>4, CountedAnew
<1> QED
  BY <1>3, <1>5

LEMMA ResetOnce ==
  ASSUME EvCore, OnceInv, NEW p \in Tickers, NEW ds, Reset(p, ds)
  PROVE  OnceInv'
<1>1. /\ UNCHANGED <<plan, link, tick, told, downs>> /\ p \in plan.tickers /\ Unlocked(p)
      /\ setbacks' = setbacks + 1
  BY DEF Reset, SetBack
<1>2. /\ told \in [Events -> Nat] /\ setbacks \in Nat /\ downs \in [Monitored -> [real : Nat, told : Nat]]
  BY CountTypes
<1> SUFFICES ASSUME OneProcess
             PROVE  /\ Counted(file', AtRest, told, link, downs, setbacks + 1)
                    /\ \A q \in Tickers : tick[q].pc = "idle"
  BY <1>1 DEF OnceInv, OneProcess
<1>3. \A q \in Tickers : tick[q].pc = "idle"
  BY <1>1, OneTick
<1>4. Counted(file, AtRest, told, link, downs, setbacks)
  BY <1>3 DEF OnceInv
<1>5. Counted(file', AtRest, told, link, downs, setbacks + 1)
  BY <1>2, <1>4, CountedAnew
<1> QED
  BY <1>3, <1>5

LEMMA OnceInit ==
  ASSUME EventInit
  PROVE  OnceInv
<1>1. /\ link = [d \in Monitored |-> "UP"] /\ tick = [p \in Tickers |-> AtRest]
      /\ told = [e \in Events |-> 0] /\ setbacks = 0
      /\ downs = [d \in Monitored |-> [real |-> 0, told |-> 0]]
  BY DEF EventInit
<1>2. \A p \in Tickers : tick[p].pc = "idle"
  BY <1>1, AtRestIs
<1>3. \A e \in Events : EventCount(file, AtRest, told, e) <= 1 + setbacks
  BY <1>1, AtRestIs DEF EventCount, One
<1>4. \A d \in Monitored : LinkCount(file, AtRest, link, downs, d) <= downs[d].real + setbacks
  BY <1>1, AtRestIs DEF LinkCount, One
<1> QED
  BY <1>2, <1>3, <1>4 DEF OnceInv, Counted

LEMMA OnceStep ==
  ASSUME RingHolds, EvCore, OnceInv, [EventNext]_eventVars
  PROVE  OnceInv'
<1>1. CASE UNCHANGED <<plan, link, file, tick, told, downs, setbacks>>
  BY <1>1 DEF OnceInv, OneProcess
<1>2. CASE \E p \in Tickers : TickStep(p)
  BY <1>2, ReadLogOnce, ReadLinksOnce, PostOnce, NextDeviceOnce, SaveOnce DEF TickStep
<1>3. CASE \E p \in Tickers : \/ \E dry \in BOOLEAN : StartTick(p, dry)
                              \/ Die(p) \/ \E ds \in SUBSET Monitored \ {{}} : Reset(p, ds)
  BY <1>3, StartTickOnce, DieOnce, ResetOnce
<1>4. CASE \E d \in Monitored : Flip(d)
  BY <1>4, FlipOnce
<1>5. CASE Clock \/ \E e \in Events : Arrive(e)
  BY <1>1, <1>5 DEF Clock, Arrive, history
<1>6. CASE UNCHANGED eventVars
  BY <1>1, <1>6 DEF eventVars
<1> QED
  BY <1>2, <1>3, <1>4, <1>5, <1>6 DEF EventNext

LEMMA CountsHold ==
  ASSUME EvCore, OnceInv
  PROVE  AlertedOnce
<1> SUFFICES ASSUME OneProcess
             PROVE  /\ \A e \in Events : told[e] <= 1 + setbacks
                    /\ \A d \in Monitored : downs[d].told <= downs[d].real + setbacks
  BY DEF AlertedOnce
<1>1. \E s, t : Counted(s, t, told, link, downs, setbacks)
  <2>1. CASE \A p \in Tickers : tick[p].pc = "idle"
    BY <2>1 DEF OnceInv
  <2>2. CASE \E p \in Tickers : tick[p].pc # "idle"
    BY <2>2 DEF OnceInv
  <2> QED
    BY <2>1, <2>2
<1>2. PICK s, t : Counted(s, t, told, link, downs, setbacks)
  BY <1>1
<1>3. ASSUME NEW e \in Events
      PROVE  told[e] <= 1 + setbacks
  <2>1. PICK m : m = told[e] /\ m \in Nat /\ setbacks \in Nat
    BY CountTypes
  <2>2. EventCount(s, t, told, e) <= 1 + setbacks
    BY <1>2 DEF Counted
  <2> QED
    BY <2>1, <2>2 DEF EventCount, One
<1>4. ASSUME NEW d \in Monitored
      PROVE  downs[d].told <= downs[d].real + setbacks
  <2>1. PICK m, r : m = downs[d].told /\ r = downs[d].real /\ m \in Nat /\ r \in Nat /\ setbacks \in Nat
    BY CountTypes
  <2>2. LinkCount(s, t, link, downs, d) <= r + setbacks
    BY <1>2, <2>1 DEF Counted
  <2> QED
    BY <2>1, <2>2 DEF LinkCount, One
<1> QED
  BY <1>3, <1>4

\* Where the ring of seen events covers the alerts of one overlap, no alert is
\* lost, and in one process a setback costs at most one more post of it.
THEOREM EventsSound ==
  ASSUME RingHolds
  PROVE  EventSpec => []EventsHold
<1>1. EventInit => EvCore /\ OnceInv
  BY EvInitInv, OnceInit
<1>2. EvCore /\ OnceInv /\ [EventNext]_eventVars => EvCore' /\ OnceInv'
  BY CoreStep, OnceStep
<1>3. EvCore /\ OnceInv => EventsHold
  BY NoneFalls, CountsHold DEF EventsHold
<1> QED
  BY <1>1, <1>2, <1>3, PTL DEF EventSpec

LEMMA SpoolTypes ==
  ASSUME NEW s \in Spools, NEW L, NEW n, \A d \in Monitored : RingOK(s[d], d, L, n)
  PROVE  IsSpool(s)
<1>1. DOMAIN s = Monitored
  BY DEF Spools
<1>2. ASSUME NEW d \in Monitored
      PROVE  /\ s[d].cursor \in Nat \cup {NoCursor} /\ s[d].link \in {"unknown", "UP", "DOWN"}
             /\ Range(s[d].seen) \subseteq Alertworthy
             /\ Len(s[d].seen) <= SeenCap /\ IsInjective(s[d].seen)
  <2>1. s[d] \in Memories /\ s[d].seen \in Seq(Alertworthy)
    BY DEF Spools, Memories
  <2>2. Len(s[d].seen) \in Nat /\ DOMAIN s[d].seen = 1..Len(s[d].seen)
    BY <2>1
  <2>3. Len(s[d].seen) <= SeenCap
    BY DEF RingOK
  <2>4. IsInjective(s[d].seen)
    <3> SUFFICES ASSUME NEW i \in DOMAIN s[d].seen, NEW j \in DOMAIN s[d].seen, i # j
                 PROVE  s[d].seen[i] # s[d].seen[j]
      BY DEF IsInjective
    <3>1. i < j \/ j < i
      BY <2>2
    <3> QED
      BY <3>1 DEF RingOK
  <2>5. Range(s[d].seen) \subseteq Alertworthy
    BY <2>1 DEF Range
  <2> QED
    BY <2>1, <2>3, <2>4, <2>5 DEF Memories
<1> QED
  BY <1>1, <1>2 DEF IsSpool

\* The types of the event collector: the rings hold alerts, each once, and no
\* more than they may.
THEOREM EventTypeCorrect == EventSpec => []EventTypeOK
<1>1. ASSUME EvCore PROVE EventTypeOK
  <2>1. now \in 0..MaxTime /\ log \subseteq Events /\ file \in Spools /\ tick \in [Tickers -> Ticks]
    BY <1>1 DEF EvCore, EvTypes
  <2>2. IsSpool(file)
    BY <1>1, <2>1, SpoolTypes DEF EvCore, FileInv
  <2>3. ASSUME NEW p \in Tickers
        PROVE  /\ tick[p].pc \in {"idle", "log", "links", "post"}
               /\ tick[p].pc # "idle" => IsSpool(tick[p].spool) /\ tick[p].todo # <<>>
    <3>1. tick[p].pc \in {"idle", "log", "links", "post"}
      BY <2>1 DEF Ticks
    <3>2. ASSUME tick[p].pc # "idle"
          PROVE  IsSpool(tick[p].spool) /\ tick[p].todo # <<>>
      <4>1. Tidy(tick[p], log) /\ Sound(tick[p], log, now, Excused) /\ tick[p].spool \in Spools
        BY <1>1, <3>2, TickIs
      <4>2. \A d \in Monitored : RingOK(tick[p].spool[d], d, log, now)
        BY <4>1 DEF Sound
      <4> QED
        BY <4>1, <4>2, SpoolTypes DEF Tidy
    <3> QED
      BY <3>1, <3>2
  <2> QED
    BY <2>1, <2>2, <2>3 DEF EventTypeOK
<1> QED
  BY <1>1, EvInvariance, PTL
=============================================================================

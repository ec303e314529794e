---------------------------- MODULE TarLoadJobsProofs ----------------------------
(***************************************************************************)
(* Proofs about TarLoadJobs for any jobs, readers, images and requests.     *)
(***************************************************************************)
EXTENDS TarLoadJobs, TLAPS

-----------------------------------------------------------------------------
(* The inductive invariant.                                                *)

\* A worker is started by its kickoff, with commands to send and a fresh
\* start; a parent that has not taken its snapshot is one of a fork.
LaunchInv == \A j \in Jobs :
  /\ kick[j] # "idle" => plan[j] # <<>>
  /\ kick[j] \in {"idle", "read", "judge", "launch", "refused"} => work[j] = "none"
  /\ kick[j] = "snapshot" =>
       front[j] = "detach" /\ work[j] \in {"start", "over"} /\ store[j] = None
  /\ work[j] \in {"none", "start"} => at[j] = 1 /\ flagged[j] = {} /\ outcome[j] = "ok"

\* A worker that sends has a command left, and waits for downloads only.
CommandInv == \A j \in Jobs :
  /\ work[j] \in {"drive", "wait"} => at[j] \in 1..Len(plan[j])
  /\ work[j] = "wait" => Command(j) # PreCheck

\* One tool of the server runs at a time.
OneCall == \A i, j \in Jobs :
  (front[i] = "server" /\ kick[i] \in InCall /\ front[j] = "server" /\ kick[j] \in InCall)
    => i = j

\* Where a job of the server is, it has the slot.
Holding == {"start", "drive", "wait", "verify", "poll", "finish"}

SlotInv == \A j \in Jobs : front[j] = "server" =>
  /\ kick[j] \in {"read", "judge"} => slot = None
  /\ kick[j] = "launch" \/ work[j] \in Holding => slot = j
  /\ ~up => kick[j] \notin InCall /\ ~Working(j)

\* An envelope on disk, or in somebody's hands, is of a job that was launched,
\* and names its worker.
DiskInv == \A j \in Jobs : store[j] # None =>
  kick[j] = "over" /\ work[j] # "none" /\ store[j].pid = Pid(j)

Known(e) == e # None =>
  kick[e.job] = "over" /\ work[e.job] # "none" /\ e.pid = Pid(e.job)

SeenInv == \A x \in Jobs \cup Readers : Known(seen[x])

\* What is on disk follows the worker.
StateInv == \A j \in Jobs :
  /\ work[j] = "start" =>
       store[j] = None \/ (front[j] = "detach" /\ store[j].state = "loading")
  /\ work[j] \in {"drive", "wait", "verify"} =>
       store[j] # None /\ store[j].state = "loading"
  /\ work[j] = "poll" => store[j] # None /\ store[j].state \in Active

\* What is downloaded is registered already, and not staged.
DownloadInv == download # None => image[download] = "registered"

Staged(i) == i = PreCheck \/ image[i] = "staged"

\* What was sent is staged, or was called registered and is still to verify.
ProgressInv == \A j \in Jobs : \A n \in DOMAIN plan[j] : n < at[j] =>
  /\ work[j] \in {"drive", "wait", "verify"} => Staged(plan[j][n]) \/ plan[j][n] \in flagged[j]
  /\ work[j] \in {"poll", "finish", "save"} /\ outcome[j] = "ok" => Staged(plan[j][n])

IInv ==
  /\ TypeOK /\ LaunchInv /\ CommandInv /\ OneCall /\ SlotInv
  /\ DiskInv /\ SeenInv /\ StateInv /\ DownloadInv /\ ProgressInv /\ DoneIsStaged

-----------------------------------------------------------------------------
(* What a write of an envelope does.                                       *)

\* The worker, or the parent, of j has saved its envelope in state s.
Wrote(j, s) ==
  /\ store' \in [Jobs -> Envelopes \cup {None}] /\ newest' = j
  /\ \A i \in Jobs \ {j} : store'[i] = store[i]
  /\ store'[j] # None /\ store'[j].job = j /\ store'[j].state = s
  /\ store'[j].pid = Pid(j)
  /\ store'[j].whole => s = "done" /\ AllSent(j)

LEMMA SaveWrites ==
  ASSUME TypeOK, NEW j \in Jobs, NEW s \in Active \cup Terminal, Save(Envelope(j, s))
  PROVE  Wrote(j, s)
<1> DEFINE e == Envelope(j, s)
<1>1. e \in Envelopes
  BY DEF Envelope, Envelopes, Pid, AllSent, TypeOK
<1>2. e # None
  BY <1>1, NoneIsNoEnvelope
<1>3. /\ e.job = j /\ e.state = s /\ e.pid = Pid(j)
      /\ e.whole => s = "done" /\ AllSent(j)
  BY DEF Envelope
<1>4. store' = [store EXCEPT ![j] = e] /\ newest' = j
  BY <1>3 DEF Save
<1> HIDE DEF e
<1> QED
  BY <1>1, <1>2, <1>3, <1>4 DEF Wrote, TypeOK

\* Somebody has marked the envelope of i, whose worker is dead.
Wiped(i) ==
  /\ store' \in [Jobs -> Envelopes \cup {None}] /\ newest' = i
  /\ \A k \in Jobs \ {i} : store'[k] = store[k]
  /\ store'[i] # None /\ store'[i].job = i /\ store'[i].state = "error"
  /\ store'[i].pid = Pid(i)
  /\ kick[i] = "over" /\ work[i] # "none" /\ work[i] \notin Holding

LEMMA MarkWipes ==
  ASSUME TypeOK, SeenInv, NEW x \in Jobs \cup Readers, seen[x] # None,
         work[seen[x].job] \notin Holding, MarkOrphaned(seen[x])
  PROVE  \E i \in Jobs : Wiped(i)
<1> DEFINE f == [seen[x] EXCEPT !.state = "error"]
           i == seen[x].job
<1>1. seen[x] \in Envelopes
  BY DEF TypeOK
<1>2. f \in Envelopes /\ f.job = i /\ f.state = "error" /\ f.pid = seen[x].pid
  BY <1>1 DEF Envelopes, Terminal
<1>3. f # None
  BY <1>2, NoneIsNoEnvelope
<1>4. store' = [store EXCEPT ![i] = f] /\ newest' = i
  BY <1>2 DEF MarkOrphaned, Save
<1>5. i \in Jobs
  BY <1>1 DEF Envelopes
<1>6. kick[i] = "over" /\ work[i] # "none" /\ seen[x].pid = Pid(i) /\ work[i] \notin Holding
  BY DEF SeenInv, Known
<1> HIDE DEF f, i
<1>7. Wiped(i)
  BY <1>2, <1>3, <1>4, <1>5, <1>6 DEF Wiped, TypeOK
<1> QED
  BY <1>5, <1>7

\* A job that was launched stays so, in the same process.
Stays ==
  \A i \in Jobs : kick[i] = "over" /\ work[i] # "none" =>
    kick'[i] = "over" /\ work'[i] # "none" /\ front'[i] = front[i]

LEMMA KnownStays ==
  ASSUME TypeOK, Stays, NEW x \in Jobs \cup Readers, Known(seen[x]),
         seen'[x] \in {seen[x], None}
  PROVE  Known(seen[x])'
<1> CASE seen'[x] = None
  BY DEF Known
<1> CASE seen'[x] = seen[x] /\ seen[x] # None
  <2>1. seen[x].job \in Jobs
    BY DEF TypeOK, Envelopes
  <2> QED
    BY <2>1 DEF Known, Stays, Pid
<1> QED
  OBVIOUS

LEMMA StoredIsKnown ==
  ASSUME TypeOK, DiskInv, Stays, NEW x \in Jobs \cup Readers, NEW i \in Jobs,
         seen'[x] = store[i]
  PROVE  Known(seen[x])'
<1> CASE store[i] # None
  <2>1. store[i].job = i /\ kick'[i] = "over" /\ work'[i] # "none" /\ front'[i] = front[i]
    BY DEF TypeOK, DiskInv, Stays
  <2> QED
    BY <2>1 DEF Known, DiskInv, Pid
<1> CASE store[i] = None
  BY DEF Known
<1> QED
  OBVIOUS

\* Who is judged dead does not work: a kickoff of the server that finds its own
\* pid holds the only call of the server, and the slot is free.
LEMMA MarkedIsDead ==
  ASSUME IInv, NEW x \in Jobs \cup Readers, kick[x] = "judge", seen[x] # None,
         (x \in Jobs /\ seen[x].pid = Pid(x)) \/ ~PidAlive(seen[x].pid)
  PROVE  work[seen[x].job] \notin Holding
<1> DEFINE i == seen[x].job
<1>1. i \in Jobs /\ kick[i] = "over" /\ seen[x].pid = Pid(i)
  BY DEF IInv, TypeOK, SeenInv, Known, Envelopes
<1>2. seen[x].pid = Server <=> front[i] = "server"
  BY <1>1, TarLoadAssumption DEF Pid
<1>3. CASE front[i] # "server"
  <2>1. seen[x].pid = i
    BY <1>1, <1>3 DEF Pid
  <2>2. CASE ~PidAlive(seen[x].pid)
    BY <1>1, <1>2, <1>3, <2>1, <2>2 DEF PidAlive, Working, Holding
  <2>3. CASE x \in Jobs /\ seen[x].pid = Pid(x)
    <3>1. x = i
      BY <1>1, <1>2, <1>3, <2>1, <2>3, TarLoadAssumption DEF Pid
    <3> QED
      BY <1>1, <3>1
  <2> QED
    BY <2>2, <2>3
<1>4. CASE front[i] = "server" /\ ~PidAlive(seen[x].pid)
  BY <1>1, <1>2, <1>4 DEF IInv, PidAlive, SlotInv, Working, Holding
<1>5. CASE front[i] = "server" /\ x \in Jobs /\ seen[x].pid = Pid(x)
  <2>1. front[x] = "server" /\ slot = None /\ slot # i
    BY <1>1, <1>2, <1>5, TarLoadAssumption DEF IInv, SlotInv, Pid
  <2> QED
    BY <1>1, <1>5, <2>1 DEF IInv, SlotInv
<1> QED
  BY <1>3, <1>4, <1>5

LEMMA CommandTyped ==
  ASSUME IInv, NEW j \in Jobs, work[j] \in {"drive", "wait"}
  PROVE  Command(j) \in Images \cup {PreCheck}
BY DEF IInv, TypeOK, CommandInv, Command

\* One more command was sent: it is staged, or the device called it registered.
LEMMA SentOneMore ==
  ASSUME IInv, NEW j \in Jobs, work[j] \in {"drive", "wait"}, StepClean(j),
         UNCHANGED <<plan, image>>,
         \A i \in Jobs : flagged[i] \subseteq flagged'[i],
         Staged(Command(j)) \/ Command(j) \in flagged'[j]
  PROVE  ProgressInv'
<1>1. /\ at'[j] = at[j] + 1 /\ at[j] \in Nat
      /\ work'[j] \in {"drive", "verify"}
      /\ \A i \in Jobs \ {j} : at'[i] = at[i] /\ work'[i] = work[i]
      /\ outcome' = outcome
  BY DEF IInv, TypeOK, StepClean, WorkGoto
<1>2. SUFFICES ASSUME NEW i \in Jobs, NEW n \in DOMAIN plan[i], n < at'[i]
      PROVE  /\ work'[i] \in {"drive", "wait", "verify"} =>
                  Staged(plan[i][n]) \/ plan[i][n] \in flagged'[i]
             /\ work'[i] \in {"poll", "finish", "save"} /\ outcome'[i] = "ok" =>
                  Staged(plan[i][n])
  BY DEF ProgressInv, Staged
<1>3. CASE i # j
  BY <1>1, <1>2, <1>3 DEF IInv, ProgressInv
<1>4. CASE i = j /\ n < at[j]
  BY <1>1, <1>4 DEF IInv, ProgressInv
<1>5. CASE i = j /\ n = at[j]
  BY <1>1, <1>5 DEF Command
<1>6. n \in Nat
  BY DEF IInv, TypeOK
<1> QED
  BY <1>1, <1>2, <1>3, <1>4, <1>5, <1>6

LEMMA Apart ==
  /\ Server \notin Jobs /\ None \notin Jobs \cup Images \cup {Server}
  /\ PreCheck \notin Images /\ Readers \cap Jobs = {}
BY TarLoadAssumption

LEMMA JudgeLatestMarks ==
  ASSUME IInv, NEW j \in Jobs, JudgeLatest(j)
  PROVE  (store' = store /\ newest' = newest) \/ \E i \in Jobs : Wiped(i)
<1>1. CASE ~MarkOrphaned(seen[j])
  BY <1>1 DEF JudgeLatest, diskVars
<1>2. CASE MarkOrphaned(seen[j]) /\ ~(store' = store /\ newest' = newest)
  <2>1. seen[j] # None /\ work[seen[j].job] \notin Holding
    BY <1>2, MarkedIsDead DEF JudgeLatest, Unfinished, diskVars
  <2> QED
    BY <1>2, <2>1, MarkWipes DEF IInv
<1> QED
  BY <1>1, <1>2

LEMMA AnswerMarks ==
  ASSUME IInv, NEW r \in Readers, Answer(r)
  PROVE  (store' = store /\ newest' = newest) \/ \E i \in Jobs : Wiped(i)
<1>1. CASE ~MarkOrphaned(seen[r])
  BY <1>1 DEF Answer, diskVars
<1>2. CASE MarkOrphaned(seen[r]) /\ ~(store' = store /\ newest' = newest)
  <2>1. seen[r] # None /\ work[seen[r].job] \notin Holding
    BY <1>2, MarkedIsDead DEF Answer, Unfinished, diskVars
  <2> QED
    BY <1>2, <2>1, MarkWipes DEF IInv
<1> QED
  BY <1>1, <1>2

-----------------------------------------------------------------------------
(* The invariant is inductive.                                             *)

LEMMA InitInv == ASSUME Init PROVE IInv
<1> USE Apart DEF Init
<1>1. TypeOK
  BY DEF TypeOK, InCall
<1>2. LaunchInv /\ CommandInv /\ OneCall /\ SlotInv
  BY DEF LaunchInv, CommandInv, OneCall, SlotInv, InCall, Working, Holding
<1>3. DiskInv /\ SeenInv /\ StateInv /\ DownloadInv /\ ProgressInv /\ DoneIsStaged
  BY DEF DiskInv, SeenInv, Known, StateInv, DownloadInv, ProgressInv, DoneIsStaged
<1> QED
  BY <1>1, <1>2, <1>3 DEF IInv

LEMMA InvStep == ASSUME IInv, [Next]_vars PROVE IInv'
<1> USE Apart
    DEF IInv, askVars, workVars, diskVars, boxVars
<1>1. ASSUME NEW j \in Jobs, NEW q \in Requests[j], CheckMemory(j, q)
     PROVE  IInv'
  <2>1. Stays
    BY <1>1 DEF Stays, TypeOK, LaunchInv, InCall, CheckMemory
  <2>2. TypeOK'
    BY <1>1, <2>1, TarLoadAssumption
    DEF TypeOK, InCall, CommandInv, DownloadInv, Wrote, Wiped, CheckMemory
  <2>3. LaunchInv'
    BY <1>1, <2>1, TarLoadAssumption
    DEF TypeOK, LaunchInv, InCall, DiskInv, Wrote, Wiped, CheckMemory
  <2>4. CommandInv'
    BY <1>1, <2>1, TarLoadAssumption
    DEF TypeOK, CommandInv, LaunchInv, Command, CheckMemory
  <2>5. OneCall'
    BY <1>1, <2>1
    DEF TypeOK, OneCall, InCall, ServerFree, CheckMemory
  <2>6. SlotInv'
    BY <1>1, <2>1, TarLoadAssumption
    DEF TypeOK, SlotInv, LaunchInv, OneCall, InCall, Holding, Working,
      CheckMemory
  <2>7. DiskInv'
    BY <1>1, <2>1, TarLoadAssumption
    DEF TypeOK, DiskInv, Stays, Pid, Wrote, Wiped, CheckMemory
  <2>8. SeenInv'
    BY <1>1, <2>1, TarLoadAssumption, KnownStays
    DEF TypeOK, SeenInv, Stays, CheckMemory
  <2>9. StateInv'
    BY <1>1, <2>1, TarLoadAssumption
    DEF TypeOK, StateInv, LaunchInv, DiskInv, Holding, Wrote, Wiped, Active,
      CheckMemory
  <2>10. ProgressInv'
    BY <1>1, <2>1, TarLoadAssumption
    DEF TypeOK, ProgressInv, LaunchInv, CommandInv, Staged, DownloadInv,
      CheckMemory
  <2>11. DoneIsStaged'
    BY <1>1, <2>1, TarLoadAssumption
    DEF TypeOK, DoneIsStaged, LaunchInv, DiskInv, ProgressInv, Staged,
      DownloadInv, AllSent, Wrote, Wiped, CheckMemory
  <2>12. DownloadInv'
    BY <1>1 DEF DownloadInv, CheckMemory
  <2> QED
    BY <2>2, <2>3, <2>4, <2>5, <2>6, <2>7, <2>8, <2>9, <2>10, <2>11, <2>12
<1>2. ASSUME NEW j \in Jobs, ReadLatest(j) PROVE IInv'
  <2>1. Stays
    BY <1>2 DEF Stays, TypeOK, LaunchInv, InCall, ReadLatest, Latest
  <2>2. TypeOK'
    BY <1>2, <2>1
    DEF TypeOK, InCall, CommandInv, DownloadInv, Wrote, Wiped, ReadLatest,
      Latest
  <2>3. LaunchInv'
    BY <1>2, <2>1
    DEF TypeOK, LaunchInv, InCall, DiskInv, Wrote, Wiped, ReadLatest, Latest
  <2>4. OneCall'
    BY <1>2, <2>1
    DEF TypeOK, OneCall, InCall, ReadLatest, Latest
  <2>5. SlotInv'
    BY <1>2, <2>1
    DEF TypeOK, SlotInv, LaunchInv, OneCall, InCall, Holding, Working,
      ReadLatest, Latest
  <2>6. DiskInv'
    BY <1>2, <2>1
    DEF TypeOK, DiskInv, Stays, Pid, Wrote, Wiped, ReadLatest, Latest
  <2>7. SeenInv'
    <3> SUFFICES ASSUME NEW x \in Jobs \cup Readers PROVE Known(seen[x])'
      BY DEF SeenInv
    <3>1. CASE x # j
      BY <3>1, <1>2, <2>1, KnownStays DEF ReadLatest, SeenInv, TypeOK
    <3>2. CASE x = j /\ \E i \in Jobs : seen'[x] = store[i]
      BY <3>2, <2>1, StoredIsKnown
    <3>3. CASE x = j /\ seen'[x] = None
      BY <3>3 DEF Known
    <3> QED
      BY <1>2, <3>1, <3>2, <3>3 DEF ReadLatest, Latest, TypeOK
  <2>8. CommandInv' /\ StateInv' /\ DownloadInv' /\ ProgressInv' /\ DoneIsStaged'
    BY <1>2 DEF CommandInv, Command, StateInv, DownloadInv, ProgressInv,
      Staged, DoneIsStaged, ReadLatest, Latest
  <2> QED
    BY <2>2, <2>3, <2>4, <2>5, <2>6, <2>7, <2>8
<1>3. ASSUME NEW j \in Jobs, JudgeLatest(j) PROVE IInv'
  <2>1. /\ \/ kick' = [kick EXCEPT ![j] = "refused"] /\ slot' = slot
           \/ /\ kick' = [kick EXCEPT ![j] = "launch"]
              /\ slot' = IF front[j] = "server" THEN j ELSE slot
        /\ kick[j] = "judge"
        /\ front' = front /\ plan' = plan /\ work' = work /\ at' = at
        /\ attempt' = attempt /\ flagged' = flagged /\ outcome' = outcome
        /\ up' = up /\ image' = image /\ download' = download
    BY <1>3 DEF JudgeLatest
  <2>2. (store' = store /\ newest' = newest) \/ \E i \in Jobs : Wiped(i)
    BY <1>3, JudgeLatestMarks
  <2>3. Stays
    BY <1>3 DEF Stays, TypeOK, LaunchInv, InCall, JudgeLatest
  <2>4. TypeOK'
    <3>1. (kick \in [Jobs \cup Readers -> InCall \cup {"idle", "over", "refused"}])'
      <4>1. \E v \in {"refused", "launch"} : kick' = [kick EXCEPT ![j] = v]
        BY <2>1
      <4>2. kick \in [Jobs \cup Readers -> InCall \cup {"idle", "over", "refused"}]
        BY DEF TypeOK
      <4> QED
        BY <4>1, <4>2 DEF InCall
    <3>2. (seen \in [Jobs \cup Readers -> Envelopes \cup {None}])'
      BY <1>3, <2>1, <2>2, <2>3 DEF TypeOK, InCall, JudgeLatest
    <3>3. (slot \in Jobs \cup {None})'
      BY <2>1 DEF TypeOK, InCall
    <3>4. /\ store' \in [Jobs -> Envelopes \cup {None}] /\ newest' \in Jobs \cup {None}
          /\ \A i \in Jobs : store'[i] # None => store'[i].job = i
      BY <2>2 DEF TypeOK, Wrote, Wiped
    <3>5. UNCHANGED <<front, plan, work, at, attempt, flagged, outcome, up, image,
                      download>>
      BY <1>3 DEF JudgeLatest
    <3> QED
      BY <3>1, <3>2, <3>3, <3>4, <3>5 DEF TypeOK
  <2>5. LaunchInv'
    BY <1>3, <2>1, <2>2, <2>3
    DEF TypeOK, LaunchInv, InCall, DiskInv, Wrote, Wiped
  <2>6. OneCall'
    <3>1. \A i \in Jobs : kick'[i] \in InCall => kick[i] \in InCall
      BY <2>1, <2>2, <2>3 DEF TypeOK, InCall
    <3>2. front' = front
      BY <2>1, <2>2, <2>3
    <3> QED
      BY <3>1, <3>2 DEF OneCall
  <2>7. SlotInv'
    BY <1>3, <2>1, <2>2, <2>3
    DEF TypeOK, SlotInv, LaunchInv, OneCall, InCall, Holding, Working
  <2>8. DiskInv'
    BY <1>3, <2>1, <2>2, <2>3
    DEF TypeOK, DiskInv, Stays, Pid, Wrote, Wiped
  <2>9. SeenInv'
    BY <1>3, <2>1, <2>2, <2>3, KnownStays
    DEF TypeOK, SeenInv, Stays, JudgeLatest
  <2>10. StateInv'
    <3>1. ASSUME NEW i \in Jobs, store'[i] # store[i]
          PROVE  work[i] \notin Holding
      BY <3>1, <2>1, <2>2, <2>3 DEF Wiped
    <3>2. work' = work /\ front' = front
      BY <2>1, <2>2, <2>3
    <3> QED
      BY <3>1, <3>2 DEF StateInv, Holding
  <2>11. DoneIsStaged'
    <3>1. ASSUME NEW i \in Jobs, store'[i] # store[i]
          PROVE  store'[i].state = "error"
      BY <3>1, <2>1, <2>2, <2>3 DEF Wiped
    <3> QED
      BY <3>1, <2>1, <2>2, <2>3 DEF DoneIsStaged
  <2>12. CommandInv' /\ DownloadInv' /\ ProgressInv'
    BY <1>3 DEF CommandInv, Command, DownloadInv, ProgressInv, Staged,
      JudgeLatest
  <2> QED
    BY <2>4, <2>5, <2>6, <2>7, <2>8, <2>9, <2>10, <2>11, <2>12
<1>4. ASSUME NEW j \in Jobs, Launch(j) PROVE IInv'
  <2>1. Stays
    BY <1>4 DEF Stays, TypeOK, LaunchInv, InCall, Launch
  <2>2. TypeOK'
    BY <1>4, <2>1
    DEF TypeOK, InCall, CommandInv, DownloadInv, Wrote, Wiped, Launch
  <2>3. LaunchInv'
    BY <1>4, <2>1
    DEF TypeOK, LaunchInv, InCall, DiskInv, Wrote, Wiped, Launch
  <2>4. CommandInv'
    BY <1>4, <2>1
    DEF TypeOK, CommandInv, LaunchInv, Command, Launch
  <2>5. OneCall'
    BY <1>4, <2>1
    DEF TypeOK, OneCall, InCall, Launch
  <2>6. SlotInv'
    BY <1>4, <2>1
    DEF TypeOK, SlotInv, LaunchInv, OneCall, InCall, Holding, Working, Launch
  <2>7. DiskInv'
    BY <1>4, <2>1
    DEF TypeOK, DiskInv, Stays, Pid, Wrote, Wiped, Launch
  <2>8. SeenInv'
    BY <1>4, <2>1, KnownStays
    DEF TypeOK, SeenInv, Stays, Launch
  <2>9. StateInv'
    BY <1>4, <2>1
    DEF TypeOK, StateInv, LaunchInv, DiskInv, Holding, Wrote, Wiped, Active,
      Launch
  <2>10. ProgressInv'
    BY <1>4, <2>1
    DEF TypeOK, ProgressInv, LaunchInv, CommandInv, Staged, DownloadInv, Launch
  <2>11. DownloadInv' /\ DoneIsStaged'
    BY <1>4 DEF DownloadInv, DoneIsStaged, Launch
  <2> QED
    BY <2>2, <2>3, <2>4, <2>5, <2>6, <2>7, <2>8, <2>9, <2>10, <2>11
<1>5. ASSUME NEW j \in Jobs, Snapshot(j) PROVE IInv'
  <2>1. Wrote(j, "loading")
    BY <1>5, SaveWrites DEF Snapshot, TypeOK, Active, Terminal
  <2>2. Stays
    BY <1>5 DEF Stays, TypeOK, LaunchInv, InCall, Snapshot
  <2>3. /\ kick'[j] = "over" /\ work'[j] # "none"
        /\ front' = front /\ plan' = plan /\ image' = image
    BY <1>5 DEF TypeOK, LaunchInv, InCall, Snapshot
  <2>4. TypeOK'
    BY <1>5, <2>1, <2>2, <2>3
    DEF TypeOK, InCall, CommandInv, DownloadInv, Wrote, Wiped, Snapshot
  <2>5. LaunchInv'
    BY <1>5, <2>1, <2>2, <2>3
    DEF TypeOK, LaunchInv, InCall, DiskInv, Wrote, Wiped, Snapshot
  <2>6. OneCall'
    BY <1>5, <2>1, <2>2, <2>3
    DEF TypeOK, OneCall, InCall, Snapshot
  <2>7. SlotInv'
    BY <1>5, <2>1, <2>2, <2>3
    DEF TypeOK, SlotInv, LaunchInv, OneCall, InCall, Holding, Working, Snapshot
  <2>8. DiskInv'
    BY <1>5, <2>1, <2>2, <2>3
    DEF TypeOK, DiskInv, Stays, Pid, Wrote, Wiped, Snapshot
  <2>9. SeenInv'
    BY <1>5, <2>1, <2>2, <2>3, KnownStays
    DEF TypeOK, SeenInv, Stays, Snapshot
  <2>10. StateInv'
    <3>1. /\ front[j] = "detach" /\ work[j] \in {"start", "over"}
          /\ work' = work /\ front' = front
      BY <1>5 DEF Snapshot, LaunchInv
    <3> QED
      BY <2>1, <3>1 DEF Wrote, StateInv
  <2>11. DoneIsStaged'
    BY <2>1, <2>2, <2>3
    DEF DoneIsStaged, Wrote
  <2>12. CommandInv' /\ DownloadInv' /\ ProgressInv'
    BY <1>5 DEF CommandInv, Command, DownloadInv, ProgressInv, Staged, Snapshot
  <2> QED
    BY <2>4, <2>5, <2>6, <2>7, <2>8, <2>9, <2>10, <2>11, <2>12
<1>6. ASSUME NEW j \in Jobs, SaveStart(j) PROVE IInv'
  <2>1. Wrote(j, "loading")
    BY <1>6, SaveWrites DEF SaveStart, TypeOK, Active, Terminal
  <2>2. Stays
    BY <1>6 DEF Stays, TypeOK, LaunchInv, InCall, SaveStart, Woken, WorkGoto
  <2>3. /\ kick'[j] = "over" /\ work'[j] # "none"
        /\ front' = front /\ plan' = plan /\ image' = image
    BY <1>6 DEF TypeOK, LaunchInv, InCall, SaveStart, Woken, WorkGoto
  <2>4. TypeOK'
    BY <1>6, <2>1, <2>2, <2>3
    DEF TypeOK, InCall, CommandInv, DownloadInv, Wrote, Wiped, SaveStart,
      Woken, WorkGoto
  <2>5. LaunchInv'
    BY <1>6, <2>1, <2>2, <2>3
    DEF TypeOK, LaunchInv, InCall, DiskInv, Wrote, Wiped, SaveStart, Woken,
      WorkGoto
  <2>6. CommandInv'
    BY <1>6, <2>1, <2>2, <2>3
    DEF TypeOK, CommandInv, LaunchInv, Command, SaveStart, Woken, WorkGoto
  <2>7. SlotInv'
    BY <1>6, <2>1, <2>2, <2>3
    DEF TypeOK, SlotInv, LaunchInv, OneCall, InCall, Holding, Working,
      SaveStart, Woken, WorkGoto
  <2>8. DiskInv'
    BY <1>6, <2>1, <2>2, <2>3
    DEF TypeOK, DiskInv, Stays, Pid, Wrote, Wiped, SaveStart, Woken, WorkGoto
  <2>9. SeenInv'
    BY <1>6, <2>1, <2>2, <2>3, KnownStays
    DEF TypeOK, SeenInv, Stays, SaveStart, Woken, WorkGoto
  <2>10. StateInv'
    BY <1>6, <2>1, <2>2, <2>3
    DEF TypeOK, StateInv, LaunchInv, DiskInv, Holding, Wrote, Wiped, Active,
      SaveStart, Woken, WorkGoto
  <2>11. ProgressInv'
    BY <1>6, <2>1, <2>2, <2>3
    DEF TypeOK, ProgressInv, LaunchInv, CommandInv, Staged, DownloadInv,
      SaveStart, Woken, WorkGoto
  <2>12. DoneIsStaged'
    BY <2>1, <2>2, <2>3
    DEF DoneIsStaged, Wrote
  <2>13. OneCall' /\ DownloadInv'
    BY <1>6 DEF OneCall, InCall, DownloadInv, SaveStart, Woken, WorkGoto
  <2> QED
    BY <2>4, <2>5, <2>6, <2>7, <2>8, <2>9, <2>10, <2>11, <2>12, <2>13
<1>7. ASSUME NEW j \in Jobs, SetUpFails(j) PROVE IInv'
  <2>1. Stays
    BY <1>7 DEF Stays, TypeOK, LaunchInv, InCall, SetUpFails, WorkGoto
  <2>2. TypeOK'
    BY <1>7, <2>1
    DEF TypeOK, InCall, CommandInv, DownloadInv, Wrote, Wiped, SetUpFails,
      WorkGoto
  <2>3. LaunchInv'
    BY <1>7, <2>1
    DEF TypeOK, LaunchInv, InCall, DiskInv, Wrote, Wiped, SetUpFails, WorkGoto
  <2>4. CommandInv'
    BY <1>7, <2>1
    DEF TypeOK, CommandInv, LaunchInv, Command, SetUpFails, WorkGoto
  <2>5. SlotInv'
    BY <1>7, <2>1
    DEF TypeOK, SlotInv, LaunchInv, OneCall, InCall, Holding, Working,
      SetUpFails, WorkGoto
  <2>6. DiskInv'
    BY <1>7, <2>1
    DEF TypeOK, DiskInv, Stays, Pid, Wrote, Wiped, SetUpFails, WorkGoto
  <2>7. SeenInv'
    BY <1>7, <2>1, KnownStays
    DEF TypeOK, SeenInv, Stays, SetUpFails, WorkGoto
  <2>8. StateInv'
    BY <1>7, <2>1
    DEF TypeOK, StateInv, LaunchInv, DiskInv, Holding, Wrote, Wiped, Active,
      SetUpFails, WorkGoto
  <2>9. ProgressInv'
    BY <1>7, <2>1
    DEF TypeOK, ProgressInv, LaunchInv, CommandInv, Staged, DownloadInv,
      SetUpFails, WorkGoto
  <2>10. OneCall' /\ DownloadInv' /\ DoneIsStaged'
    BY <1>7 DEF OneCall, InCall, DownloadInv, DoneIsStaged, SetUpFails,
      WorkGoto
  <2> QED
    BY <2>2, <2>3, <2>4, <2>5, <2>6, <2>7, <2>8, <2>9, <2>10
<1>8. ASSUME NEW j \in Jobs, LoadStarts(j) PROVE IInv'
  <2>1. Command(j) \in Images
    BY <1>8, CommandTyped DEF LoadStarts, WorkGoto
  <2>2. Stays
    BY <1>8 DEF Stays, TypeOK, LaunchInv, InCall, LoadStarts, WorkGoto
  <2>3. TypeOK'
    BY <1>8, <2>1, <2>2
    DEF TypeOK, InCall, CommandInv, DownloadInv, Wrote, Wiped, LoadStarts,
      WorkGoto
  <2>4. LaunchInv'
    BY <1>8, <2>1, <2>2
    DEF TypeOK, LaunchInv, InCall, DiskInv, Wrote, Wiped, LoadStarts, WorkGoto
  <2>5. CommandInv'
    BY <1>8, <2>1, <2>2
    DEF TypeOK, CommandInv, LaunchInv, Command, LoadStarts, WorkGoto
  <2>6. SlotInv'
    BY <1>8, <2>1, <2>2
    DEF TypeOK, SlotInv, LaunchInv, OneCall, InCall, Holding, Working,
      LoadStarts, WorkGoto
  <2>7. DiskInv'
    BY <1>8, <2>1, <2>2
    DEF TypeOK, DiskInv, Stays, Pid, Wrote, Wiped, LoadStarts, WorkGoto
  <2>8. SeenInv'
    BY <1>8, <2>1, <2>2, KnownStays
    DEF TypeOK, SeenInv, Stays, LoadStarts, WorkGoto
  <2>9. StateInv'
    BY <1>8, <2>1, <2>2
    DEF TypeOK, StateInv, LaunchInv, DiskInv, Holding, Wrote, Wiped, Active,
      LoadStarts, WorkGoto
  <2>10. DownloadInv'
    BY <1>8, <2>1, <2>2
    DEF TypeOK, DownloadInv, LoadStarts, WorkGoto
  <2>11. ProgressInv'
    BY <1>8, <2>1, <2>2
    DEF TypeOK, ProgressInv, LaunchInv, CommandInv, Staged, DownloadInv,
      LoadStarts, WorkGoto
  <2>12. DoneIsStaged'
    BY <1>8, <2>1, <2>2
    DEF TypeOK, DoneIsStaged, LaunchInv, DiskInv, ProgressInv, Staged,
      DownloadInv, AllSent, Wrote, Wiped, LoadStarts, WorkGoto
  <2>13. OneCall'
    BY <1>8 DEF OneCall, InCall, LoadStarts, WorkGoto
  <2> QED
    BY <2>3, <2>4, <2>5, <2>6, <2>7, <2>8, <2>9, <2>10, <2>11, <2>12, <2>13
<1>9. ASSUME NEW j \in Jobs, LoadKnown(j) PROVE IInv'
  <2>1. Command(j) \in Images
    BY <1>9, CommandTyped DEF LoadKnown, StepClean, WorkGoto
  <2>2. Wrote(j, "loading")
    BY <1>9, SaveWrites DEF LoadKnown, StepClean, TypeOK, Active, Terminal
  <2>3. Stays
    BY <1>9 DEF Stays, TypeOK, LaunchInv, InCall, LoadKnown, StepClean, WorkGoto
  <2>4. /\ kick'[j] = "over" /\ work'[j] # "none"
        /\ front' = front /\ plan' = plan /\ image' = image
    BY <1>9 DEF TypeOK, LaunchInv, InCall, LoadKnown, StepClean, WorkGoto
  <2>5. TypeOK'
    <3>1. (work \in [Jobs -> {"none", "start", "drive", "wait", "verify", "poll",
                        "finish", "save", "over"}])'
      BY <1>9, <2>1, <2>2, <2>3, <2>4 DEF TypeOK, InCall, LoadKnown, StepClean, WorkGoto
    <3>2. (at \in [Jobs -> Nat \ {0}])'
      BY <1>9, <2>1, <2>2, <2>3, <2>4 DEF TypeOK, InCall, LoadKnown, StepClean, WorkGoto
    <3>3. (flagged \in [Jobs -> SUBSET Images])'
      BY <1>9, <2>1, <2>2, <2>3, <2>4 DEF TypeOK, InCall, LoadKnown, StepClean, WorkGoto
    <3>4. /\ store' \in [Jobs -> Envelopes \cup {None}] /\ newest' \in Jobs \cup {None}
          /\ \A i \in Jobs : store'[i] # None => store'[i].job = i
      BY <2>2 DEF TypeOK, Wrote, Wiped
    <3>5. UNCHANGED <<front, plan, kick, attempt, outcome, seen, slot, up, image,
                      download>>
      BY <1>9 DEF LoadKnown, StepClean, WorkGoto
    <3> QED
      BY <3>1, <3>2, <3>3, <3>4, <3>5 DEF TypeOK
  <2>6. LaunchInv'
    BY <1>9, <2>1, <2>2, <2>3, <2>4
    DEF TypeOK, LaunchInv, InCall, DiskInv, Wrote, Wiped, LoadKnown, StepClean,
      WorkGoto
  <2>7. CommandInv'
    BY <1>9, <2>1, <2>2, <2>3, <2>4
    DEF TypeOK, CommandInv, LaunchInv, Command, LoadKnown, StepClean, WorkGoto
  <2>8. SlotInv'
    BY <1>9, <2>1, <2>2, <2>3, <2>4
    DEF TypeOK, SlotInv, LaunchInv, OneCall, InCall, Holding, Working,
      LoadKnown, StepClean, WorkGoto
  <2>9. DiskInv'
    BY <1>9, <2>1, <2>2, <2>3, <2>4
    DEF TypeOK, DiskInv, Stays, Pid, Wrote, Wiped, LoadKnown, StepClean,
      WorkGoto
  <2>10. SeenInv'
    BY <1>9, <2>1, <2>2, <2>3, <2>4, KnownStays
    DEF TypeOK, SeenInv, Stays, LoadKnown, StepClean, WorkGoto
  <2>11. StateInv'
    BY <1>9, <2>1, <2>2, <2>3, <2>4
    DEF TypeOK, StateInv, LaunchInv, DiskInv, Holding, Wrote, Wiped, Active,
      LoadKnown, StepClean, WorkGoto
  <2>12. ProgressInv'
    <3>1. /\ work[j] \in {"drive", "wait"} /\ StepClean(j) /\ UNCHANGED <<plan, image>>
          /\ \A i \in Jobs : flagged[i] \subseteq flagged'[i]
          /\ Staged(Command(j)) \/ Command(j) \in flagged'[j]
      BY <1>9, <2>1, <2>2, <2>3, <2>4 DEF LoadKnown, TypeOK
    <3> QED
      BY <3>1, SentOneMore
  <2>13. DoneIsStaged'
    BY <2>1, <2>2, <2>3, <2>4
    DEF DoneIsStaged, Wrote
  <2>14. OneCall' /\ DownloadInv'
    BY <1>9 DEF OneCall, InCall, DownloadInv, LoadKnown, StepClean, WorkGoto
  <2> QED
    BY <2>5, <2>6, <2>7, <2>8, <2>9, <2>10, <2>11, <2>12, <2>13, <2>14
<1>10. ASSUME NEW j \in Jobs, LoadBusy(j) PROVE IInv'
  <2>1. Command(j) \in Images
    BY <1>10, CommandTyped DEF LoadBusy, StepFails, WorkGoto
  <2>2. Wrote(j, "loading")
    BY <1>10, SaveWrites DEF LoadBusy, StepFails, TypeOK, Active, Terminal
  <2>3. Stays
    BY <1>10 DEF Stays, TypeOK, LaunchInv, InCall, LoadBusy, StepFails, WorkGoto
  <2>4. /\ kick'[j] = "over" /\ work'[j] # "none"
        /\ front' = front /\ plan' = plan /\ image' = image
    BY <1>10 DEF TypeOK, LaunchInv, InCall, LoadBusy, StepFails, WorkGoto
  <2>5. TypeOK'
    <3>1. (work \in [Jobs -> {"none", "start", "drive", "wait", "verify", "poll",
                        "finish", "save", "over"}])'
      BY <1>10, <2>1, <2>2, <2>3, <2>4 DEF TypeOK, InCall, LoadBusy, StepFails, WorkGoto
    <3>2. (outcome \in [Jobs -> {"ok", "error", "timeout"}])'
      BY <1>10, <2>1, <2>2, <2>3, <2>4 DEF TypeOK, InCall, LoadBusy, StepFails, WorkGoto
    <3>3. /\ store' \in [Jobs -> Envelopes \cup {None}] /\ newest' \in Jobs \cup {None}
          /\ \A i \in Jobs : store'[i] # None => store'[i].job = i
      BY <2>2 DEF TypeOK, Wrote, Wiped
    <3>4. UNCHANGED <<front, plan, kick, at, attempt, flagged, seen, slot, up, image,
                      download>>
      BY <1>10 DEF LoadBusy, StepFails, WorkGoto
    <3> QED
      BY <3>1, <3>2, <3>3, <3>4 DEF TypeOK
  <2>6. LaunchInv'
    BY <1>10, <2>1, <2>2, <2>3, <2>4
    DEF TypeOK, LaunchInv, InCall, DiskInv, Wrote, Wiped, LoadBusy, StepFails,
      WorkGoto
  <2>7. CommandInv'
    BY <1>10, <2>1, <2>2, <2>3, <2>4
    DEF TypeOK, CommandInv, LaunchInv, Command, LoadBusy, StepFails, WorkGoto
  <2>8. SlotInv'
    BY <1>10, <2>1, <2>2, <2>3, <2>4
    DEF TypeOK, SlotInv, LaunchInv, OneCall, InCall, Holding, Working,
      LoadBusy, StepFails, WorkGoto
  <2>9. DiskInv'
    BY <1>10, <2>1, <2>2, <2>3, <2>4
    DEF TypeOK, DiskInv, Stays, Pid, Wrote, Wiped, LoadBusy, StepFails,
      WorkGoto
  <2>10. SeenInv'
    BY <1>10, <2>1, <2>2, <2>3, <2>4, KnownStays
    DEF TypeOK, SeenInv, Stays, LoadBusy, StepFails, WorkGoto
  <2>11. StateInv'
    BY <1>10, <2>1, <2>2, <2>3, <2>4
    DEF TypeOK, StateInv, LaunchInv, DiskInv, Holding, Wrote, Wiped, Active,
      LoadBusy, StepFails, WorkGoto
  <2>12. ProgressInv'
    BY <1>10, <2>1, <2>2, <2>3, <2>4
    DEF TypeOK, ProgressInv, LaunchInv, CommandInv, Staged, DownloadInv,
      LoadBusy, StepFails, WorkGoto
  <2>13. DoneIsStaged'
    BY <2>1, <2>2, <2>3, <2>4
    DEF DoneIsStaged, Wrote
  <2>14. OneCall' /\ DownloadInv'
    BY <1>10 DEF OneCall, InCall, DownloadInv, LoadBusy, StepFails, WorkGoto
  <2> QED
    BY <2>5, <2>6, <2>7, <2>8, <2>9, <2>10, <2>11, <2>12, <2>13, <2>14
<1>11. ASSUME NEW j \in Jobs, LoadReply(j), StepClean(j), image[Command(j)] = "staged"
     PROVE  IInv'
  <2>1. Wrote(j, "loading")
    BY <1>11, SaveWrites DEF LoadReply, StepClean, TypeOK, Active, Terminal
  <2>2. Stays
    BY <1>11 DEF Stays, TypeOK, LaunchInv, InCall, LoadReply, StepClean, WorkGoto
  <2>3. /\ kick'[j] = "over" /\ work'[j] # "none"
        /\ front' = front /\ plan' = plan /\ image' = image
    BY <1>11 DEF TypeOK, LaunchInv, InCall, LoadReply, StepClean, WorkGoto
  <2>4. TypeOK'
    <3>1. (work \in [Jobs -> {"none", "start", "drive", "wait", "verify", "poll",
                        "finish", "save", "over"}])'
      BY <1>11, <2>1, <2>2, <2>3 DEF TypeOK, InCall, LoadReply, StepClean, WorkGoto
    <3>2. (at \in [Jobs -> Nat \ {0}])'
      BY <1>11, <2>1, <2>2, <2>3 DEF TypeOK, InCall, LoadReply, StepClean, WorkGoto
    <3>3. (outcome \in [Jobs -> {"ok", "error", "timeout"}])'
      BY <1>11, <2>1, <2>2, <2>3 DEF TypeOK, InCall, LoadReply, StepClean, WorkGoto
    <3>4. /\ store' \in [Jobs -> Envelopes \cup {None}] /\ newest' \in Jobs \cup {None}
          /\ \A i \in Jobs : store'[i] # None => store'[i].job = i
      BY <2>1 DEF TypeOK, Wrote, Wiped
    <3>5. UNCHANGED <<front, plan, kick, attempt, flagged, seen, slot, up, image,
                      download>>
      BY <1>11 DEF LoadReply, StepClean, WorkGoto
    <3> QED
      BY <3>1, <3>2, <3>3, <3>4, <3>5 DEF TypeOK
  <2>5. LaunchInv'
    BY <1>11, <2>1, <2>2, <2>3
    DEF TypeOK, LaunchInv, InCall, DiskInv, Wrote, Wiped, LoadReply, StepClean,
      WorkGoto
  <2>6. CommandInv'
    BY <1>11, <2>1, <2>2, <2>3
    DEF TypeOK, CommandInv, LaunchInv, Command, LoadReply, StepClean, WorkGoto
  <2>7. SlotInv'
    BY <1>11, <2>1, <2>2, <2>3
    DEF TypeOK, SlotInv, LaunchInv, OneCall, InCall, Holding, Working,
      LoadReply, StepClean, WorkGoto
  <2>8. DiskInv'
    BY <1>11, <2>1, <2>2, <2>3
    DEF TypeOK, DiskInv, Stays, Pid, Wrote, Wiped, LoadReply, StepClean,
      WorkGoto
  <2>9. SeenInv'
    BY <1>11, <2>1, <2>2, <2>3, KnownStays
    DEF TypeOK, SeenInv, Stays, LoadReply, StepClean, WorkGoto
  <2>10. StateInv'
    BY <1>11, <2>1, <2>2, <2>3
    DEF TypeOK, StateInv, LaunchInv, DiskInv, Holding, Wrote, Wiped, Active,
      LoadReply, StepClean, WorkGoto
  <2>11. ProgressInv'
    <3>1. /\ work[j] \in {"drive", "wait"} /\ StepClean(j) /\ UNCHANGED <<plan, image>>
          /\ \A i \in Jobs : flagged[i] \subseteq flagged'[i]
          /\ Staged(Command(j)) \/ Command(j) \in flagged'[j]
      BY <1>11 DEF LoadReply, StepClean, Staged
    <3> QED
      BY <3>1, SentOneMore
  <2>12. DoneIsStaged'
    BY <2>1, <2>2, <2>3
    DEF DoneIsStaged, Wrote
  <2>13. OneCall' /\ DownloadInv'
    BY <1>11 DEF OneCall, InCall, DownloadInv, LoadReply, StepClean, WorkGoto
  <2> QED
    BY <2>4, <2>5, <2>6, <2>7, <2>8, <2>9, <2>10, <2>11, <2>12, <2>13
<1>12. ASSUME NEW j \in Jobs, LoadReply(j), StepFails(j) PROVE IInv'
  <2>1. Wrote(j, "loading")
    BY <1>12, SaveWrites DEF LoadReply, StepFails, TypeOK, Active, Terminal
  <2>2. Stays
    BY <1>12 DEF Stays, TypeOK, LaunchInv, InCall, LoadReply, StepFails, WorkGoto
  <2>3. /\ kick'[j] = "over" /\ work'[j] # "none"
        /\ front' = front /\ plan' = plan /\ image' = image
    BY <1>12 DEF TypeOK, LaunchInv, InCall, LoadReply, StepFails, WorkGoto
  <2>4. TypeOK'
    <3>1. (work \in [Jobs -> {"none", "start", "drive", "wait", "verify", "poll",
                        "finish", "save", "over"}])'
      BY <1>12, <2>1, <2>2, <2>3 DEF TypeOK, InCall, LoadReply, StepFails, WorkGoto
    <3>2. (outcome \in [Jobs -> {"ok", "error", "timeout"}])'
      BY <1>12, <2>1, <2>2, <2>3 DEF TypeOK, InCall, LoadReply, StepFails, WorkGoto
    <3>3. /\ store' \in [Jobs -> Envelopes \cup {None}] /\ newest' \in Jobs \cup {None}
          /\ \A i \in Jobs : store'[i] # None => store'[i].job = i
      BY <2>1 DEF TypeOK, Wrote, Wiped
    <3>4. UNCHANGED <<front, plan, kick, at, attempt, flagged, seen, slot, up, image,
                      download>>
      BY <1>12 DEF LoadReply, StepFails, WorkGoto
    <3> QED
      BY <3>1, <3>2, <3>3, <3>4 DEF TypeOK
  <2>5. LaunchInv'
    BY <1>12, <2>1, <2>2, <2>3
    DEF TypeOK, LaunchInv, InCall, DiskInv, Wrote, Wiped, LoadReply, StepFails,
      WorkGoto
  <2>6. CommandInv'
    BY <1>12, <2>1, <2>2, <2>3
    DEF TypeOK, CommandInv, LaunchInv, Command, LoadReply, StepFails, WorkGoto
  <2>7. SlotInv'
    BY <1>12, <2>1, <2>2, <2>3
    DEF TypeOK, SlotInv, LaunchInv, OneCall, InCall, Holding, Working,
      LoadReply, StepFails, WorkGoto
  <2>8. DiskInv'
    BY <1>12, <2>1, <2>2, <2>3
    DEF TypeOK, DiskInv, Stays, Pid, Wrote, Wiped, LoadReply, StepFails,
      WorkGoto
  <2>9. SeenInv'
    BY <1>12, <2>1, <2>2, <2>3, KnownStays
    DEF TypeOK, SeenInv, Stays, LoadReply, StepFails, WorkGoto
  <2>10. StateInv'
    BY <1>12, <2>1, <2>2, <2>3
    DEF TypeOK, StateInv, LaunchInv, DiskInv, Holding, Wrote, Wiped, Active,
      LoadReply, StepFails, WorkGoto
  <2>11. ProgressInv'
    BY <1>12, <2>1, <2>2, <2>3
    DEF TypeOK, ProgressInv, LaunchInv, CommandInv, Staged, DownloadInv,
      LoadReply, StepFails, WorkGoto
  <2>12. DoneIsStaged'
    BY <2>1, <2>2, <2>3
    DEF DoneIsStaged, Wrote
  <2>13. OneCall' /\ DownloadInv'
    BY <1>12 DEF OneCall, InCall, DownloadInv, LoadReply, StepFails, WorkGoto
  <2> QED
    BY <2>4, <2>5, <2>6, <2>7, <2>8, <2>9, <2>10, <2>11, <2>12, <2>13
<1>13. ASSUME NEW j \in Jobs, SendPreCheck(j), StepClean(j) PROVE IInv'
  <2>1. Wrote(j, "loading")
    BY <1>13, SaveWrites DEF SendPreCheck, StepClean, TypeOK, Active, Terminal
  <2>2. Stays
    BY <1>13 DEF Stays, TypeOK, LaunchInv, InCall, SendPreCheck, StepClean, WorkGoto
  <2>3. /\ kick'[j] = "over" /\ work'[j] # "none"
        /\ front' = front /\ plan' = plan /\ image' = image
    BY <1>13 DEF TypeOK, LaunchInv, InCall, SendPreCheck, StepClean, WorkGoto
  <2>4. TypeOK'
    <3>1. (work \in [Jobs -> {"none", "start", "drive", "wait", "verify", "poll",
                        "finish", "save", "over"}])'
      BY <1>13, <2>1, <2>2, <2>3 DEF TypeOK, InCall, SendPreCheck, StepClean, WorkGoto
    <3>2. (at \in [Jobs -> Nat \ {0}])'
      BY <1>13, <2>1, <2>2, <2>3 DEF TypeOK, InCall, SendPreCheck, StepClean, WorkGoto
    <3>3. (outcome \in [Jobs -> {"ok", "error", "timeout"}])'
      BY <1>13, <2>1, <2>2, <2>3 DEF TypeOK, InCall, SendPreCheck, StepClean, WorkGoto
    <3>4. /\ store' \in [Jobs -> Envelopes \cup {None}] /\ newest' \in Jobs \cup {None}
          /\ \A i \in Jobs : store'[i] # None => store'[i].job = i
      BY <2>1 DEF TypeOK, Wrote, Wiped
    <3>5. UNCHANGED <<front, plan, kick, attempt, flagged, seen, slot, up, image,
                      download>>
      BY <1>13 DEF SendPreCheck, StepClean, WorkGoto
    <3> QED
      BY <3>1, <3>2, <3>3, <3>4, <3>5 DEF TypeOK
  <2>5. LaunchInv'
    BY <1>13, <2>1, <2>2, <2>3
    DEF TypeOK, LaunchInv, InCall, DiskInv, Wrote, Wiped, SendPreCheck,
      StepClean, WorkGoto
  <2>6. CommandInv'
    BY <1>13, <2>1, <2>2, <2>3
    DEF TypeOK, CommandInv, LaunchInv, Command, SendPreCheck, StepClean,
      WorkGoto
  <2>7. SlotInv'
    BY <1>13, <2>1, <2>2, <2>3
    DEF TypeOK, SlotInv, LaunchInv, OneCall, InCall, Holding, Working,
      SendPreCheck, StepClean, WorkGoto
  <2>8. DiskInv'
    BY <1>13, <2>1, <2>2, <2>3
    DEF TypeOK, DiskInv, Stays, Pid, Wrote, Wiped, SendPreCheck, StepClean,
      WorkGoto
  <2>9. SeenInv'
    BY <1>13, <2>1, <2>2, <2>3, KnownStays
    DEF TypeOK, SeenInv, Stays, SendPreCheck, StepClean, WorkGoto
  <2>10. StateInv'
    BY <1>13, <2>1, <2>2, <2>3
    DEF TypeOK, StateInv, LaunchInv, DiskInv, Holding, Wrote, Wiped, Active,
      SendPreCheck, StepClean, WorkGoto
  <2>11. ProgressInv'
    <3>1. /\ work[j] \in {"drive", "wait"} /\ StepClean(j) /\ UNCHANGED <<plan, image>>
          /\ \A i \in Jobs : flagged[i] \subseteq flagged'[i]
          /\ Staged(Command(j)) \/ Command(j) \in flagged'[j]
      BY <1>13 DEF SendPreCheck, Staged
    <3> QED
      BY <3>1, SentOneMore
  <2>12. DoneIsStaged'
    BY <2>1, <2>2, <2>3
    DEF DoneIsStaged, Wrote
  <2>13. OneCall' /\ DownloadInv'
    BY <1>13 DEF OneCall, InCall, DownloadInv, SendPreCheck, StepClean,
      WorkGoto
  <2> QED
    BY <2>4, <2>5, <2>6, <2>7, <2>8, <2>9, <2>10, <2>11, <2>12, <2>13
<1>14. ASSUME NEW j \in Jobs, SendPreCheck(j), StepFails(j) PROVE IInv'
  <2>1. Wrote(j, "loading")
    BY <1>14, SaveWrites DEF SendPreCheck, StepFails, TypeOK, Active, Terminal
  <2>2. Stays
    BY <1>14 DEF Stays, TypeOK, LaunchInv, InCall, SendPreCheck, StepFails, WorkGoto
  <2>3. /\ kick'[j] = "over" /\ work'[j] # "none"
        /\ front' = front /\ plan' = plan /\ image' = image
    BY <1>14 DEF TypeOK, LaunchInv, InCall, SendPreCheck, StepFails, WorkGoto
  <2>4. TypeOK'
    <3>1. (work \in [Jobs -> {"none", "start", "drive", "wait", "verify", "poll",
                        "finish", "save", "over"}])'
      BY <1>14, <2>1, <2>2, <2>3 DEF TypeOK, InCall, SendPreCheck, StepFails, WorkGoto
    <3>2. (outcome \in [Jobs -> {"ok", "error", "timeout"}])'
      BY <1>14, <2>1, <2>2, <2>3 DEF TypeOK, InCall, SendPreCheck, StepFails, WorkGoto
    <3>3. /\ store' \in [Jobs -> Envelopes \cup {None}] /\ newest' \in Jobs \cup {None}
          /\ \A i \in Jobs : store'[i] # None => store'[i].job = i
      BY <2>1 DEF TypeOK, Wrote, Wiped
    <3>4. UNCHANGED <<front, plan, kick, at, attempt, flagged, seen, slot, up, image,
                      download>>
      BY <1>14 DEF SendPreCheck, StepFails, WorkGoto
    <3> QED
      BY <3>1, <3>2, <3>3, <3>4 DEF TypeOK
  <2>5. LaunchInv'
    BY <1>14, <2>1, <2>2, <2>3
    DEF TypeOK, LaunchInv, InCall, DiskInv, Wrote, Wiped, SendPreCheck,
      StepFails, WorkGoto
  <2>6. CommandInv'
    BY <1>14, <2>1, <2>2, <2>3
    DEF TypeOK, CommandInv, LaunchInv, Command, SendPreCheck, StepFails,
      WorkGoto
  <2>7. SlotInv'
    BY <1>14, <2>1, <2>2, <2>3
    DEF TypeOK, SlotInv, LaunchInv, OneCall, InCall, Holding, Working,
      SendPreCheck, StepFails, WorkGoto
  <2>8. DiskInv'
    BY <1>14, <2>1, <2>2, <2>3
    DEF TypeOK, DiskInv, Stays, Pid, Wrote, Wiped, SendPreCheck, StepFails,
      WorkGoto
  <2>9. SeenInv'
    BY <1>14, <2>1, <2>2, <2>3, KnownStays
    DEF TypeOK, SeenInv, Stays, SendPreCheck, StepFails, WorkGoto
  <2>10. StateInv'
    BY <1>14, <2>1, <2>2, <2>3
    DEF TypeOK, StateInv, LaunchInv, DiskInv, Holding, Wrote, Wiped, Active,
      SendPreCheck, StepFails, WorkGoto
  <2>11. ProgressInv'
    BY <1>14, <2>1, <2>2, <2>3
    DEF TypeOK, ProgressInv, LaunchInv, CommandInv, Staged, DownloadInv,
      SendPreCheck, StepFails, WorkGoto
  <2>12. DoneIsStaged'
    BY <2>1, <2>2, <2>3
    DEF DoneIsStaged, Wrote
  <2>13. OneCall' /\ DownloadInv'
    BY <1>14 DEF OneCall, InCall, DownloadInv, SendPreCheck, StepFails,
      WorkGoto
  <2> QED
    BY <2>4, <2>5, <2>6, <2>7, <2>8, <2>9, <2>10, <2>11, <2>12, <2>13
<1>15. ASSUME NEW j \in Jobs, StepTimeout(j) PROVE IInv'
  <2>1. Stays
    BY <1>15 DEF Stays, TypeOK, LaunchInv, InCall, StepTimeout, WorkGoto
  <2>2. TypeOK'
    BY <1>15, <2>1
    DEF TypeOK, InCall, CommandInv, DownloadInv, Wrote, Wiped, StepTimeout,
      WorkGoto
  <2>3. LaunchInv'
    BY <1>15, <2>1
    DEF TypeOK, LaunchInv, InCall, DiskInv, Wrote, Wiped, StepTimeout, WorkGoto
  <2>4. CommandInv'
    BY <1>15, <2>1
    DEF TypeOK, CommandInv, LaunchInv, Command, StepTimeout, WorkGoto
  <2>5. SlotInv'
    BY <1>15, <2>1
    DEF TypeOK, SlotInv, LaunchInv, OneCall, InCall, Holding, Working,
      StepTimeout, WorkGoto
  <2>6. DiskInv'
    BY <1>15, <2>1
    DEF TypeOK, DiskInv, Stays, Pid, Wrote, Wiped, StepTimeout, WorkGoto
  <2>7. SeenInv'
    BY <1>15, <2>1, KnownStays
    DEF TypeOK, SeenInv, Stays, StepTimeout, WorkGoto
  <2>8. StateInv'
    BY <1>15, <2>1
    DEF TypeOK, StateInv, LaunchInv, DiskInv, Holding, Wrote, Wiped, Active,
      StepTimeout, WorkGoto
  <2>9. ProgressInv'
    BY <1>15, <2>1
    DEF TypeOK, ProgressInv, LaunchInv, CommandInv, Staged, DownloadInv,
      StepTimeout, WorkGoto
  <2>10. OneCall' /\ DownloadInv' /\ DoneIsStaged'
    BY <1>15 DEF OneCall, InCall, DownloadInv, DoneIsStaged, StepTimeout,
      WorkGoto
  <2> QED
    BY <2>2, <2>3, <2>4, <2>5, <2>6, <2>7, <2>8, <2>9, <2>10
<1>16. ASSUME NEW j \in Jobs, StartOver(j) PROVE IInv'
  <2>1. Stays
    BY <1>16 DEF Stays, TypeOK, LaunchInv, InCall, StartOver, WorkGoto
  <2>2. TypeOK'
    BY <1>16, <2>1
    DEF TypeOK, InCall, CommandInv, DownloadInv, Wrote, Wiped, StartOver,
      WorkGoto
  <2>3. LaunchInv'
    BY <1>16, <2>1
    DEF TypeOK, LaunchInv, InCall, DiskInv, Wrote, Wiped, StartOver, WorkGoto
  <2>4. CommandInv'
    BY <1>16, <2>1
    DEF TypeOK, CommandInv, LaunchInv, Command, StartOver, WorkGoto
  <2>5. SlotInv'
    BY <1>16, <2>1
    DEF TypeOK, SlotInv, LaunchInv, OneCall, InCall, Holding, Working,
      StartOver, WorkGoto
  <2>6. DiskInv'
    BY <1>16, <2>1
    DEF TypeOK, DiskInv, Stays, Pid, Wrote, Wiped, StartOver, WorkGoto
  <2>7. SeenInv'
    BY <1>16, <2>1, KnownStays
    DEF TypeOK, SeenInv, Stays, StartOver, WorkGoto
  <2>8. StateInv'
    BY <1>16, <2>1
    DEF TypeOK, StateInv, LaunchInv, DiskInv, Holding, Wrote, Wiped, Active,
      StartOver, WorkGoto
  <2>9. ProgressInv'
    BY <1>16, <2>1
    DEF TypeOK, ProgressInv, LaunchInv, CommandInv, Staged, DownloadInv,
      StartOver, WorkGoto
  <2>10. OneCall' /\ DownloadInv' /\ DoneIsStaged'
    BY <1>16 DEF OneCall, InCall, DownloadInv, DoneIsStaged, StartOver,
      WorkGoto
  <2> QED
    BY <2>2, <2>3, <2>4, <2>5, <2>6, <2>7, <2>8, <2>9, <2>10
<1>17. ASSUME NEW j \in Jobs, GiveUp(j) PROVE IInv'
  <2>1. Stays
    BY <1>17 DEF Stays, TypeOK, LaunchInv, InCall, GiveUp, WorkGoto
  <2>2. TypeOK'
    BY <1>17, <2>1
    DEF TypeOK, InCall, CommandInv, DownloadInv, Wrote, Wiped, GiveUp, WorkGoto
  <2>3. LaunchInv'
    BY <1>17, <2>1
    DEF TypeOK, LaunchInv, InCall, DiskInv, Wrote, Wiped, GiveUp, WorkGoto
  <2>4. CommandInv'
    BY <1>17, <2>1
    DEF TypeOK, CommandInv, LaunchInv, Command, GiveUp, WorkGoto
  <2>5. SlotInv'
    BY <1>17, <2>1
    DEF TypeOK, SlotInv, LaunchInv, OneCall, InCall, Holding, Working, GiveUp,
      WorkGoto
  <2>6. DiskInv'
    BY <1>17, <2>1
    DEF TypeOK, DiskInv, Stays, Pid, Wrote, Wiped, GiveUp, WorkGoto
  <2>7. SeenInv'
    BY <1>17, <2>1, KnownStays
    DEF TypeOK, SeenInv, Stays, GiveUp, WorkGoto
  <2>8. StateInv'
    BY <1>17, <2>1
    DEF TypeOK, StateInv, LaunchInv, DiskInv, Holding, Wrote, Wiped, Active,
      GiveUp, WorkGoto
  <2>9. ProgressInv'
    BY <1>17, <2>1
    DEF TypeOK, ProgressInv, LaunchInv, CommandInv, Staged, DownloadInv,
      GiveUp, WorkGoto
  <2>10. OneCall' /\ DownloadInv' /\ DoneIsStaged'
    BY <1>17 DEF OneCall, InCall, DownloadInv, DoneIsStaged, GiveUp, WorkGoto
  <2> QED
    BY <2>2, <2>3, <2>4, <2>5, <2>6, <2>7, <2>8, <2>9, <2>10
<1>18. ASSUME NEW j \in Jobs, Verify(j), AllSent(j), plan[j][Len(plan[j])] = PreCheck
     PROVE  IInv'
  <2>1. /\ work[j] = "verify" /\ work' = [work EXCEPT ![j] = "poll"]
        /\ front' = front /\ plan' = plan /\ kick' = kick /\ at' = at
        /\ attempt' = attempt /\ flagged' = flagged /\ seen' = seen
        /\ slot' = slot /\ up' = up /\ image' = image /\ download' = download
    BY <1>18 DEF Verify, WorkGoto
  <2>2. /\ outcome' \in [Jobs -> {"ok", "error", "timeout"}]
        /\ \A i \in Jobs \ {j} : outcome'[i] = outcome[i]
        /\ outcome'[j] = "ok" => outcome[j] = "ok" /\ Verified(j)
    <3>1. Blame(j, "error") \in {"error", "timeout"}
      BY DEF Blame, TypeOK
    <3>2. \/ outcome' = outcome /\ Verified(j)
          \/ outcome' = [outcome EXCEPT ![j] = Blame(j, "error")]
      BY <1>18 DEF Verify
    <3>3. outcome \in [Jobs -> {"ok", "error", "timeout"}]
      BY DEF TypeOK
    <3> QED
      BY <3>1, <3>2, <3>3
  <2>3. Wrote(j, "precheck")
    BY <1>18, SaveWrites DEF Verify, TypeOK, Active, Terminal
  <2>4. Stays
    BY <1>18 DEF Stays, TypeOK, LaunchInv, InCall, Verify, Verified, Blame, WorkGoto
  <2>5. /\ kick'[j] = "over" /\ work'[j] # "none"
        /\ front' = front /\ plan' = plan /\ image' = image
    BY <2>1 DEF TypeOK, LaunchInv, InCall
  <2>6. TypeOK'
    <3>1. (work \in [Jobs -> {"none", "start", "drive", "wait", "verify", "poll",
                        "finish", "save", "over"}])'
      BY <2>1 DEF TypeOK, InCall
    <3>2. (outcome \in [Jobs -> {"ok", "error", "timeout"}])'
      BY <2>2
    <3>3. /\ store' \in [Jobs -> Envelopes \cup {None}] /\ newest' \in Jobs \cup {None}
          /\ \A i \in Jobs : store'[i] # None => store'[i].job = i
      BY <2>3 DEF TypeOK, Wrote, Wiped
    <3>4. UNCHANGED <<front, plan, kick, at, attempt, flagged, seen, slot, up, image,
                      download>>
      BY <1>18 DEF Verify, Verified, Blame, WorkGoto
    <3> QED
      BY <3>1, <3>2, <3>3, <3>4 DEF TypeOK
  <2>7. LaunchInv'
    <3>1. /\ \A i \in Jobs \ {j} : work'[i] = work[i]
          /\ work'[j] \in {"poll", "finish"}
      BY <2>1 DEF TypeOK
    <3>2. \A i \in Jobs \ {j} : outcome'[i] = outcome[i] /\ store'[i] = store[i]
      BY <2>1, <2>2, <2>3 DEF Wrote
    <3>3. kick[j] \notin {"idle", "read", "judge", "launch", "refused", "snapshot"}
      BY <2>1 DEF LaunchInv
    <3> QED
      BY <2>1, <3>1, <3>2, <3>3 DEF LaunchInv
  <2>8. CommandInv'
    BY <1>18, <2>1, <2>2, <2>3, <2>4, <2>5
    DEF TypeOK, CommandInv, LaunchInv, Command
  <2>9. SlotInv'
    BY <1>18, <2>1, <2>2, <2>3, <2>4, <2>5
    DEF TypeOK, SlotInv, LaunchInv, OneCall, InCall, Holding, Working
  <2>10. DiskInv'
    BY <1>18, <2>1, <2>2, <2>3, <2>4, <2>5
    DEF TypeOK, DiskInv, Stays, Pid, Wrote, Wiped
  <2>11. SeenInv'
    BY <1>18, <2>1, <2>2, <2>3, <2>4, <2>5, KnownStays
    DEF TypeOK, SeenInv, Stays, Verify, Verified, Blame, WorkGoto
  <2>12. StateInv'
    BY <1>18, <2>1, <2>2, <2>3, <2>4, <2>5
    DEF TypeOK, StateInv, LaunchInv, DiskInv, Holding, Wrote, Wiped, Active
  <2>13. ProgressInv'
    <3>1. /\ \A i \in Jobs \ {j} : work'[i] = work[i] /\ outcome'[i] = outcome[i]
          /\ work[j] = "verify" /\ work'[j] \in {"poll", "finish"}
      BY <2>1, <2>2 DEF TypeOK
    <3>2. ASSUME NEW i \in Jobs, NEW n \in DOMAIN plan[i], n < at[i]
          PROVE  /\ work'[i] \in {"drive", "wait", "verify"} =>
                      Staged(plan[i][n]) \/ plan[i][n] \in flagged[i]
                 /\ work'[i] \in {"poll", "finish", "save"} /\ outcome'[i] = "ok" =>
                      Staged(plan[i][n])
      <4>1. CASE i # j
        BY <3>1, <3>2, <4>1 DEF ProgressInv
      <4>2. CASE i = j
        BY <2>2, <3>1, <3>2, <4>2 DEF ProgressInv, Verified, Staged
      <4> QED
        BY <4>1, <4>2
    <3> QED
      BY <2>1, <3>2 DEF ProgressInv, Staged
  <2>14. DoneIsStaged'
    <3>1. \A i \in Jobs \ {j} : store'[i] = store[i]
      BY <2>3 DEF Wrote
    <3>2. store'[j].state = "precheck"
      BY <2>3 DEF Wrote
    <3> QED
      BY <2>5, <3>1, <3>2 DEF DoneIsStaged
  <2>15. OneCall' /\ DownloadInv'
    BY <1>18 DEF OneCall, InCall, DownloadInv, Verify, Verified, Blame,
      WorkGoto
  <2> QED
    BY <2>6, <2>7, <2>8, <2>9, <2>10, <2>11, <2>12, <2>13, <2>14, <2>15
<1>19. ASSUME NEW j \in Jobs, Verify(j), ~(AllSent(j) /\ plan[j][Len(plan[j])] = PreCheck)
     PROVE  IInv'
  <2>1. /\ work[j] = "verify" /\ work' = [work EXCEPT ![j] = "finish"]
        /\ front' = front /\ plan' = plan /\ kick' = kick /\ at' = at
        /\ attempt' = attempt /\ flagged' = flagged /\ seen' = seen
        /\ slot' = slot /\ up' = up /\ image' = image /\ download' = download
        /\ store' = store /\ newest' = newest
    BY <1>19 DEF Verify, WorkGoto
  <2>2. /\ outcome' \in [Jobs -> {"ok", "error", "timeout"}]
        /\ \A i \in Jobs \ {j} : outcome'[i] = outcome[i]
        /\ outcome'[j] = "ok" => outcome[j] = "ok" /\ Verified(j)
    <3>1. Blame(j, "error") \in {"error", "timeout"}
      BY DEF Blame, TypeOK
    <3>2. \/ outcome' = outcome /\ Verified(j)
          \/ outcome' = [outcome EXCEPT ![j] = Blame(j, "error")]
      BY <1>19 DEF Verify
    <3>3. outcome \in [Jobs -> {"ok", "error", "timeout"}]
      BY DEF TypeOK
    <3> QED
      BY <3>1, <3>2, <3>3
  <2>3. Stays
    BY <1>19 DEF Stays, TypeOK, LaunchInv, InCall, Verify, Verified, Blame, WorkGoto
  <2>4. TypeOK'
    <3>1. (work \in [Jobs -> {"none", "start", "drive", "wait", "verify", "poll",
                        "finish", "save", "over"}])'
      BY <2>1 DEF TypeOK, InCall
    <3>2. (outcome \in [Jobs -> {"ok", "error", "timeout"}])'
      BY <2>2
    <3>3. UNCHANGED <<front, plan, kick, at, attempt, flagged, seen, slot, up, store,
                      newest, image, download>>
      BY <1>19 DEF Verify, Verified, Blame, WorkGoto
    <3> QED
      BY <3>1, <3>2, <3>3 DEF TypeOK
  <2>5. LaunchInv'
    <3>1. /\ \A i \in Jobs \ {j} : work'[i] = work[i]
          /\ work'[j] \in {"poll", "finish"}
      BY <2>1 DEF TypeOK
    <3>2. \A i \in Jobs \ {j} : outcome'[i] = outcome[i] /\ store'[i] = store[i]
      BY <2>1, <2>2, <2>3 DEF Wrote
    <3>3. kick[j] \notin {"idle", "read", "judge", "launch", "refused", "snapshot"}
      BY <2>1 DEF LaunchInv
    <3> QED
      BY <2>1, <3>1, <3>2, <3>3 DEF LaunchInv
  <2>6. CommandInv'
    BY <1>19, <2>1, <2>2, <2>3
    DEF TypeOK, CommandInv, LaunchInv, Command
  <2>7. SlotInv'
    BY <1>19, <2>1, <2>2, <2>3
    DEF TypeOK, SlotInv, LaunchInv, OneCall, InCall, Holding, Working
  <2>8. DiskInv'
    BY <1>19, <2>1, <2>2, <2>3
    DEF TypeOK, DiskInv, Stays, Pid, Wrote, Wiped
  <2>9. SeenInv'
    BY <1>19, <2>1, <2>2, <2>3, KnownStays
    DEF TypeOK, SeenInv, Stays, Verify, Verified, Blame, WorkGoto
  <2>10. StateInv'
    BY <1>19, <2>1, <2>2, <2>3
    DEF TypeOK, StateInv, LaunchInv, DiskInv, Holding, Wrote, Wiped, Active
  <2>11. ProgressInv'
    <3>1. /\ \A i \in Jobs \ {j} : work'[i] = work[i] /\ outcome'[i] = outcome[i]
          /\ work[j] = "verify" /\ work'[j] \in {"poll", "finish"}
      BY <2>1, <2>2 DEF TypeOK
    <3>2. ASSUME NEW i \in Jobs, NEW n \in DOMAIN plan[i], n < at[i]
          PROVE  /\ work'[i] \in {"drive", "wait", "verify"} =>
                      Staged(plan[i][n]) \/ plan[i][n] \in flagged[i]
                 /\ work'[i] \in {"poll", "finish", "save"} /\ outcome'[i] = "ok" =>
                      Staged(plan[i][n])
      <4>1. CASE i # j
        BY <3>1, <3>2, <4>1 DEF ProgressInv
      <4>2. CASE i = j
        BY <2>2, <3>1, <3>2, <4>2 DEF ProgressInv, Verified, Staged
      <4> QED
        BY <4>1, <4>2
    <3> QED
      BY <2>1, <3>2 DEF ProgressInv, Staged
  <2>12. OneCall' /\ DownloadInv' /\ DoneIsStaged'
    BY <1>19 DEF OneCall, InCall, DownloadInv, DoneIsStaged, Verify, Verified,
      Blame, WorkGoto
  <2> QED
    BY <2>4, <2>5, <2>6, <2>7, <2>8, <2>9, <2>10, <2>11, <2>12
<1>20. ASSUME NEW j \in Jobs, PollEnds(j) PROVE IInv'
  <2>1. Stays
    BY <1>20 DEF Stays, TypeOK, LaunchInv, InCall, PollEnds, Blame, WorkGoto
  <2>2. TypeOK'
    BY <1>20, <2>1
    DEF TypeOK, InCall, CommandInv, DownloadInv, Wrote, Wiped, PollEnds, Blame,
      WorkGoto
  <2>3. LaunchInv'
    BY <1>20, <2>1
    DEF TypeOK, LaunchInv, InCall, DiskInv, Wrote, Wiped, PollEnds, Blame,
      WorkGoto
  <2>4. CommandInv'
    BY <1>20, <2>1
    DEF TypeOK, CommandInv, LaunchInv, Command, PollEnds, Blame, WorkGoto
  <2>5. SlotInv'
    BY <1>20, <2>1
    DEF TypeOK, SlotInv, LaunchInv, OneCall, InCall, Holding, Working,
      PollEnds, Blame, WorkGoto
  <2>6. DiskInv'
    BY <1>20, <2>1
    DEF TypeOK, DiskInv, Stays, Pid, Wrote, Wiped, PollEnds, Blame, WorkGoto
  <2>7. SeenInv'
    BY <1>20, <2>1, KnownStays
    DEF TypeOK, SeenInv, Stays, PollEnds, Blame, WorkGoto
  <2>8. StateInv'
    BY <1>20, <2>1
    DEF TypeOK, StateInv, LaunchInv, DiskInv, Holding, Wrote, Wiped, Active,
      PollEnds, Blame, WorkGoto
  <2>9. ProgressInv'
    BY <1>20, <2>1
    DEF TypeOK, ProgressInv, LaunchInv, CommandInv, Staged, DownloadInv,
      PollEnds, Blame, WorkGoto
  <2>10. OneCall' /\ DownloadInv' /\ DoneIsStaged'
    BY <1>20 DEF OneCall, InCall, DownloadInv, DoneIsStaged, PollEnds, Blame,
      WorkGoto
  <2> QED
    BY <2>2, <2>3, <2>4, <2>5, <2>6, <2>7, <2>8, <2>9, <2>10
<1>21. ASSUME NEW j \in Jobs, Finish(j) PROVE IInv'
  <2>1. Stays
    BY <1>21 DEF Stays, TypeOK, LaunchInv, InCall, Finish, WorkGoto
  <2>2. TypeOK'
    BY <1>21, <2>1
    DEF TypeOK, InCall, CommandInv, DownloadInv, Wrote, Wiped, Finish, WorkGoto
  <2>3. LaunchInv'
    BY <1>21, <2>1
    DEF TypeOK, LaunchInv, InCall, DiskInv, Wrote, Wiped, Finish, WorkGoto
  <2>4. CommandInv'
    BY <1>21, <2>1
    DEF TypeOK, CommandInv, LaunchInv, Command, Finish, WorkGoto
  <2>5. SlotInv'
    BY <1>21, <2>1
    DEF TypeOK, SlotInv, LaunchInv, OneCall, InCall, Holding, Working, Finish,
      WorkGoto
  <2>6. DiskInv'
    BY <1>21, <2>1
    DEF TypeOK, DiskInv, Stays, Pid, Wrote, Wiped, Finish, WorkGoto
  <2>7. SeenInv'
    BY <1>21, <2>1, KnownStays
    DEF TypeOK, SeenInv, Stays, Finish, WorkGoto
  <2>8. StateInv'
    BY <1>21, <2>1
    DEF TypeOK, StateInv, LaunchInv, DiskInv, Holding, Wrote, Wiped, Active,
      Finish, WorkGoto
  <2>9. ProgressInv'
    BY <1>21, <2>1
    DEF TypeOK, ProgressInv, LaunchInv, CommandInv, Staged, DownloadInv,
      Finish, WorkGoto
  <2>10. OneCall' /\ DownloadInv' /\ DoneIsStaged'
    BY <1>21 DEF OneCall, InCall, DownloadInv, DoneIsStaged, Finish, WorkGoto
  <2> QED
    BY <2>2, <2>3, <2>4, <2>5, <2>6, <2>7, <2>8, <2>9, <2>10
<1>22. ASSUME NEW j \in Jobs, SaveTerminal(j) PROVE IInv'
  <2>1. \E s \in Terminal : Wrote(j, s) /\ (s = "done" => outcome[j] = "ok")
    <3>1. CASE outcome[j] = "ok"
      <4>1. Wrote(j, "done")
        BY <1>22, <3>1, SaveWrites DEF SaveTerminal, Terminal
      <4> QED
        BY <3>1, <4>1 DEF Terminal
    <3>2. CASE outcome[j] # "ok"
      <4>1. outcome[j] \in {"error", "timeout"}
        BY <3>2 DEF TypeOK
      <4>2. Wrote(j, outcome[j])
        BY <1>22, <3>2, <4>1, SaveWrites DEF SaveTerminal, Terminal
      <4> QED
        BY <4>1, <4>2 DEF Terminal
    <3> QED
      BY <3>1, <3>2
  <2>2. Stays
    BY <1>22 DEF Stays, TypeOK, LaunchInv, InCall, SaveTerminal, Forget, WorkGoto
  <2>3. /\ kick'[j] = "over" /\ work'[j] # "none"
        /\ front' = front /\ plan' = plan /\ image' = image
    BY <1>22 DEF TypeOK, LaunchInv, InCall, SaveTerminal, Forget, WorkGoto
  <2>4. TypeOK'
    <3>1. (work \in [Jobs -> {"none", "start", "drive", "wait", "verify", "poll",
                        "finish", "save", "over"}])'
      BY <1>22, <2>1, <2>2, <2>3 DEF TypeOK, InCall, SaveTerminal, Forget, WorkGoto
    <3>2. (at \in [Jobs -> Nat \ {0}])'
      BY <1>22, <2>1, <2>2, <2>3 DEF TypeOK, InCall, SaveTerminal, Forget, WorkGoto
    <3>3. (attempt \in [Jobs -> {1, 2}])'
      BY <1>22, <2>1, <2>2, <2>3 DEF TypeOK, InCall, SaveTerminal, Forget, WorkGoto
    <3>4. (flagged \in [Jobs -> SUBSET Images])'
      BY <1>22, <2>1, <2>2, <2>3 DEF TypeOK, InCall, SaveTerminal, Forget, WorkGoto
    <3>5. (outcome \in [Jobs -> {"ok", "error", "timeout"}])'
      BY <1>22, <2>1, <2>2, <2>3 DEF TypeOK, InCall, SaveTerminal, Forget, WorkGoto
    <3>6. /\ store' \in [Jobs -> Envelopes \cup {None}] /\ newest' \in Jobs \cup {None}
          /\ \A i \in Jobs : store'[i] # None => store'[i].job = i
      BY <2>1 DEF TypeOK, Wrote, Wiped
    <3>7. UNCHANGED <<front, plan, kick, seen, slot, up, image, download>>
      BY <1>22 DEF SaveTerminal, Forget, WorkGoto
    <3> QED
      BY <3>1, <3>2, <3>3, <3>4, <3>5, <3>6, <3>7 DEF TypeOK
  <2>5. LaunchInv'
    BY <1>22, <2>1, <2>2, <2>3
    DEF TypeOK, LaunchInv, InCall, DiskInv, Wrote, Wiped, SaveTerminal, Forget,
      WorkGoto
  <2>6. CommandInv'
    BY <1>22, <2>1, <2>2, <2>3
    DEF TypeOK, CommandInv, LaunchInv, Command, SaveTerminal, Forget, WorkGoto
  <2>7. SlotInv'
    BY <1>22, <2>1, <2>2, <2>3
    DEF TypeOK, SlotInv, LaunchInv, OneCall, InCall, Holding, Working,
      SaveTerminal, Forget, WorkGoto
  <2>8. DiskInv'
    BY <1>22, <2>1, <2>2, <2>3
    DEF TypeOK, DiskInv, Stays, Pid, Wrote, Wiped, SaveTerminal, Forget,
      WorkGoto
  <2>9. SeenInv'
    BY <1>22, <2>1, <2>2, <2>3, KnownStays
    DEF TypeOK, SeenInv, Stays, SaveTerminal, Forget, WorkGoto
  <2>10. StateInv'
    BY <1>22, <2>1, <2>2, <2>3
    DEF TypeOK, StateInv, LaunchInv, DiskInv, Holding, Wrote, Wiped, Active,
      SaveTerminal, Forget, WorkGoto
  <2>11. ProgressInv'
    BY <1>22, <2>1, <2>2, <2>3
    DEF TypeOK, ProgressInv, LaunchInv, CommandInv, Staged, DownloadInv,
      SaveTerminal, Forget, WorkGoto
  <2>12. DoneIsStaged'
    <3>1. SUFFICES ASSUME NEW i \in Jobs, store'[i] # None, store'[i].state = "done",
                          store'[i].whole, NEW n \in DOMAIN plan[i], plan[i][n] # PreCheck
                   PROVE  image[plan[i][n]] = "staged"
      BY <2>3 DEF DoneIsStaged
    <3>2. CASE i # j
      BY <2>1, <3>1, <3>2 DEF Wrote, DoneIsStaged
    <3>3. CASE i = j
      <4>1. AllSent(j) /\ outcome[j] = "ok" /\ work[j] = "save"
        BY <1>22, <2>1, <3>1, <3>3 DEF Wrote, SaveTerminal
      <4>2. n < at[j]
        BY <3>3, <4>1 DEF AllSent, TypeOK
      <4> QED
        BY <3>1, <3>3, <4>1, <4>2 DEF ProgressInv, Staged
    <3> QED
      BY <3>2, <3>3
  <2>13. OneCall' /\ DownloadInv'
    BY <1>22 DEF OneCall, InCall, DownloadInv, SaveTerminal, Forget, WorkGoto
  <2> QED
    BY <2>4, <2>5, <2>6, <2>7, <2>8, <2>9, <2>10, <2>11, <2>12, <2>13
<1>23. ASSUME NEW r \in Readers, Show(r) PROVE IInv'
  <2>1. Stays
    BY <1>23 DEF Stays, TypeOK, LaunchInv, InCall, Show
  <2>2. TypeOK'
    BY <1>23, <2>1
    DEF TypeOK, InCall, CommandInv, DownloadInv, Wrote, Wiped, Show
  <2>3. LaunchInv'
    BY <1>23, <2>1
    DEF TypeOK, LaunchInv, InCall, DiskInv, Wrote, Wiped, Show
  <2>4. OneCall'
    BY <1>23, <2>1
    DEF TypeOK, OneCall, InCall, Show
  <2>5. SlotInv'
    BY <1>23, <2>1
    DEF TypeOK, SlotInv, LaunchInv, OneCall, InCall, Holding, Working, Show
  <2>6. DiskInv'
    BY <1>23, <2>1
    DEF TypeOK, DiskInv, Stays, Pid, Wrote, Wiped, Show
  <2>7. SeenInv'
    <3> SUFFICES ASSUME NEW x \in Jobs \cup Readers PROVE Known(seen[x])'
      BY DEF SeenInv
    <3>1. CASE x # r
      BY <3>1, <1>23, <2>1, KnownStays DEF Show, SeenInv, TypeOK
    <3>2. CASE x = r /\ \E i \in Jobs : seen'[x] = store[i]
      BY <3>2, <2>1, StoredIsKnown
    <3>3. CASE x = r /\ seen'[x] = None
      BY <3>3 DEF Known
    <3> QED
      BY <1>23, <3>1, <3>2, <3>3 DEF Show, Latest, TypeOK
  <2>8. CommandInv' /\ StateInv' /\ DownloadInv' /\ ProgressInv' /\ DoneIsStaged'
    BY <1>23 DEF CommandInv, Command, StateInv, DownloadInv, ProgressInv,
      Staged, DoneIsStaged, Show
  <2> QED
    BY <2>2, <2>3, <2>4, <2>5, <2>6, <2>7, <2>8
<1>24. ASSUME NEW r \in Readers, Answer(r) PROVE IInv'
  <2>1. /\ kick' = [kick EXCEPT ![r] = "over"]
        /\ front' = front /\ plan' = plan /\ work' = work /\ at' = at
        /\ attempt' = attempt /\ flagged' = flagged /\ outcome' = outcome
        /\ slot' = slot /\ up' = up /\ image' = image /\ download' = download
    BY <1>24 DEF Answer
  <2>2. (store' = store /\ newest' = newest) \/ \E i \in Jobs : Wiped(i)
    BY <1>24, AnswerMarks
  <2>3. Stays
    BY <1>24 DEF Stays, TypeOK, LaunchInv, InCall, Answer
  <2>4. TypeOK'
    <3>1. (kick \in [Jobs \cup Readers -> InCall \cup {"idle", "over", "refused"}])'
      BY <1>24, <2>1, <2>2, <2>3 DEF TypeOK, InCall, Answer
    <3>2. (seen \in [Jobs \cup Readers -> Envelopes \cup {None}])'
      BY <1>24, <2>1, <2>2, <2>3 DEF TypeOK, InCall, Answer
    <3>3. /\ store' \in [Jobs -> Envelopes \cup {None}] /\ newest' \in Jobs \cup {None}
          /\ \A i \in Jobs : store'[i] # None => store'[i].job = i
      BY <2>2 DEF TypeOK, Wrote, Wiped
    <3>4. UNCHANGED <<front, plan, work, at, attempt, flagged, outcome, slot, up, image,
                      download>>
      BY <1>24 DEF Answer
    <3> QED
      BY <3>1, <3>2, <3>3, <3>4 DEF TypeOK
  <2>5. LaunchInv'
    BY <1>24, <2>1, <2>2, <2>3
    DEF TypeOK, LaunchInv, InCall, DiskInv, Wrote, Wiped
  <2>6. OneCall'
    <3>1. \A i \in Jobs : kick'[i] \in InCall => kick[i] \in InCall
      BY <2>1, <2>2, <2>3 DEF TypeOK, InCall
    <3>2. front' = front
      BY <2>1, <2>2, <2>3
    <3> QED
      BY <3>1, <3>2 DEF OneCall
  <2>7. SlotInv'
    BY <1>24, <2>1, <2>2, <2>3
    DEF TypeOK, SlotInv, LaunchInv, OneCall, InCall, Holding, Working
  <2>8. DiskInv'
    BY <1>24, <2>1, <2>2, <2>3
    DEF TypeOK, DiskInv, Stays, Pid, Wrote, Wiped
  <2>9. SeenInv'
    BY <1>24, <2>1, <2>2, <2>3, KnownStays
    DEF TypeOK, SeenInv, Stays, Answer
  <2>10. StateInv'
    <3>1. ASSUME NEW i \in Jobs, store'[i] # store[i]
          PROVE  work[i] \notin Holding
      BY <3>1, <2>1, <2>2, <2>3 DEF Wiped
    <3>2. work' = work /\ front' = front
      BY <2>1, <2>2, <2>3
    <3> QED
      BY <3>1, <3>2 DEF StateInv, Holding
  <2>11. DoneIsStaged'
    <3>1. ASSUME NEW i \in Jobs, store'[i] # store[i]
          PROVE  store'[i].state = "error"
      BY <3>1, <2>1, <2>2, <2>3 DEF Wiped
    <3> QED
      BY <3>1, <2>1, <2>2, <2>3 DEF DoneIsStaged
  <2>12. CommandInv' /\ DownloadInv' /\ ProgressInv'
    BY <1>24 DEF CommandInv, Command, DownloadInv, ProgressInv, Staged, Answer
  <2> QED
    BY <2>4, <2>5, <2>6, <2>7, <2>8, <2>9, <2>10, <2>11, <2>12
<1>25. ASSUME KillServer PROVE IInv'
  <2>1. Stays
    BY <1>25 DEF Stays, TypeOK, LaunchInv, InCall, KillServer, KillCalls, KillWorkers,
      Forget, Working
  <2>2. TypeOK'
    <3>1. (kick \in [Jobs \cup Readers -> InCall \cup {"idle", "over", "refused"}])'
      BY <1>25, <2>1 DEF TypeOK, InCall, KillServer, KillCalls, KillWorkers, Forget,
        Working
    <3>2. (work \in [Jobs -> {"none", "start", "drive", "wait", "verify", "poll",
                        "finish", "save", "over"}])'
      BY <1>25, <2>1 DEF TypeOK, InCall, KillServer, KillCalls, KillWorkers, Forget,
        Working
    <3>3. (at \in [Jobs -> Nat \ {0}])'
      BY <1>25, <2>1 DEF TypeOK, InCall, KillServer, KillCalls, KillWorkers, Forget,
        Working
    <3>4. (attempt \in [Jobs -> {1, 2}])'
      BY <1>25, <2>1 DEF TypeOK, InCall, KillServer, KillCalls, KillWorkers, Forget,
        Working
    <3>5. (flagged \in [Jobs -> SUBSET Images])'
      BY <1>25, <2>1 DEF TypeOK, InCall, KillServer, KillCalls, KillWorkers, Forget,
        Working
    <3>6. (outcome \in [Jobs -> {"ok", "error", "timeout"}])'
      BY <1>25, <2>1 DEF TypeOK, InCall, KillServer, KillCalls, KillWorkers, Forget,
        Working
    <3>7. (seen \in [Jobs \cup Readers -> Envelopes \cup {None}])'
      BY <1>25, <2>1 DEF TypeOK, InCall, KillServer, KillCalls, KillWorkers, Forget,
        Working
    <3>8. (slot \in Jobs \cup {None})'
      BY <1>25, <2>1 DEF TypeOK, InCall, KillServer, KillCalls, KillWorkers, Forget,
        Working
    <3>9. (up \in BOOLEAN)'
      BY <1>25, <2>1 DEF TypeOK, InCall, KillServer, KillCalls, KillWorkers, Forget,
        Working
    <3>10. UNCHANGED <<front, plan, store, newest, image, download>>
      BY <1>25 DEF KillServer, KillCalls, KillWorkers, Forget, Working
    <3> QED
      BY <3>1, <3>2, <3>3, <3>4, <3>5, <3>6, <3>7, <3>8, <3>9, <3>10 DEF TypeOK
  <2>3. LaunchInv'
    BY <1>25, <2>1
    DEF TypeOK, LaunchInv, InCall, DiskInv, Wrote, Wiped, KillServer,
      KillCalls, KillWorkers, Forget, Working
  <2>4. CommandInv'
    BY <1>25, <2>1
    DEF TypeOK, CommandInv, LaunchInv, Command, KillServer, KillCalls,
      KillWorkers, Forget, Working
  <2>5. OneCall'
    BY <1>25, <2>1
    DEF TypeOK, OneCall, InCall, KillServer, KillCalls, KillWorkers, Forget,
      Working
  <2>6. SlotInv'
    BY <1>25, <2>1
    DEF TypeOK, SlotInv, LaunchInv, OneCall, InCall, Holding, Working,
      KillServer, KillCalls, KillWorkers, Forget
  <2>7. DiskInv'
    BY <1>25, <2>1
    DEF TypeOK, DiskInv, Stays, Pid, Wrote, Wiped, KillServer, KillCalls,
      KillWorkers, Forget, Working
  <2>8. SeenInv'
    BY <1>25, <2>1, KnownStays
    DEF TypeOK, SeenInv, Stays, KillServer, KillCalls, KillWorkers, Forget,
      Working
  <2>9. StateInv'
    BY <1>25, <2>1
    DEF TypeOK, StateInv, LaunchInv, DiskInv, Holding, Wrote, Wiped, Active,
      KillServer, KillCalls, KillWorkers, Forget, Working
  <2>10. ProgressInv'
    BY <1>25, <2>1
    DEF TypeOK, ProgressInv, LaunchInv, CommandInv, Staged, DownloadInv,
      KillServer, KillCalls, KillWorkers, Forget, Working
  <2>11. DownloadInv' /\ DoneIsStaged'
    BY <1>25 DEF DownloadInv, DoneIsStaged, KillServer, KillCalls, KillWorkers,
      Forget, Working
  <2> QED
    BY <2>2, <2>3, <2>4, <2>5, <2>6, <2>7, <2>8, <2>9, <2>10, <2>11
<1>26. ASSUME NEW j \in Jobs, KillBlocking(j) PROVE IInv'
  <2>1. Stays
    BY <1>26 DEF Stays, TypeOK, LaunchInv, InCall, KillBlocking, KillCalls, KillWorkers,
      Forget, Working
  <2>2. TypeOK'
    <3>1. (kick \in [Jobs \cup Readers -> InCall \cup {"idle", "over", "refused"}])'
      BY <1>26, <2>1 DEF TypeOK, InCall, KillBlocking, KillCalls, KillWorkers, Forget,
        Working
    <3>2. (work \in [Jobs -> {"none", "start", "drive", "wait", "verify", "poll",
                        "finish", "save", "over"}])'
      BY <1>26, <2>1 DEF TypeOK, InCall, KillBlocking, KillCalls, KillWorkers, Forget,
        Working
    <3>3. (at \in [Jobs -> Nat \ {0}])'
      BY <1>26, <2>1 DEF TypeOK, InCall, KillBlocking, KillCalls, KillWorkers, Forget,
        Working
    <3>4. (attempt \in [Jobs -> {1, 2}])'
      BY <1>26, <2>1 DEF TypeOK, InCall, KillBlocking, KillCalls, KillWorkers, Forget,
        Working
    <3>5. (flagged \in [Jobs -> SUBSET Images])'
      BY <1>26, <2>1 DEF TypeOK, InCall, KillBlocking, KillCalls, KillWorkers, Forget,
        Working
    <3>6. (outcome \in [Jobs -> {"ok", "error", "timeout"}])'
      BY <1>26, <2>1 DEF TypeOK, InCall, KillBlocking, KillCalls, KillWorkers, Forget,
        Working
    <3>7. (seen \in [Jobs \cup Readers -> Envelopes \cup {None}])'
      BY <1>26, <2>1 DEF TypeOK, InCall, KillBlocking, KillCalls, KillWorkers, Forget,
        Working
    <3>8. UNCHANGED <<front, plan, slot, up, store, newest, image, download>>
      BY <1>26 DEF KillBlocking, KillCalls, KillWorkers, Forget, Working
    <3> QED
      BY <3>1, <3>2, <3>3, <3>4, <3>5, <3>6, <3>7, <3>8 DEF TypeOK
  <2>3. LaunchInv'
    BY <1>26, <2>1
    DEF TypeOK, LaunchInv, InCall, DiskInv, Wrote, Wiped, KillBlocking,
      KillCalls, KillWorkers, Forget, Working
  <2>4. CommandInv'
    BY <1>26, <2>1
    DEF TypeOK, CommandInv, LaunchInv, Command, KillBlocking, KillCalls,
      KillWorkers, Forget, Working
  <2>5. OneCall'
    BY <1>26, <2>1
    DEF TypeOK, OneCall, InCall, KillBlocking, KillCalls, KillWorkers, Forget,
      Working
  <2>6. SlotInv'
    BY <1>26, <2>1
    DEF TypeOK, SlotInv, LaunchInv, OneCall, InCall, Holding, Working,
      KillBlocking, KillCalls, KillWorkers, Forget
  <2>7. DiskInv'
    BY <1>26, <2>1
    DEF TypeOK, DiskInv, Stays, Pid, Wrote, Wiped, KillBlocking, KillCalls,
      KillWorkers, Forget, Working
  <2>8. SeenInv'
    BY <1>26, <2>1, KnownStays
    DEF TypeOK, SeenInv, Stays, KillBlocking, KillCalls, KillWorkers, Forget,
      Working
  <2>9. StateInv'
    BY <1>26, <2>1
    DEF TypeOK, StateInv, LaunchInv, DiskInv, Holding, Wrote, Wiped, Active,
      KillBlocking, KillCalls, KillWorkers, Forget, Working
  <2>10. ProgressInv'
    BY <1>26, <2>1
    DEF TypeOK, ProgressInv, LaunchInv, CommandInv, Staged, DownloadInv,
      KillBlocking, KillCalls, KillWorkers, Forget, Working
  <2>11. DownloadInv' /\ DoneIsStaged'
    BY <1>26 DEF DownloadInv, DoneIsStaged, KillBlocking, KillCalls,
      KillWorkers, Forget, Working
  <2> QED
    BY <2>2, <2>3, <2>4, <2>5, <2>6, <2>7, <2>8, <2>9, <2>10, <2>11
<1>27. ASSUME NEW j \in Jobs, KillParent(j) PROVE IInv'
  <2>1. Stays
    BY <1>27 DEF Stays, TypeOK, LaunchInv, InCall, KillParent, KillCalls
  <2>2. TypeOK'
    BY <1>27, <2>1
    DEF TypeOK, InCall, CommandInv, DownloadInv, Wrote, Wiped, KillParent,
      KillCalls
  <2>3. LaunchInv'
    BY <1>27, <2>1
    DEF TypeOK, LaunchInv, InCall, DiskInv, Wrote, Wiped, KillParent, KillCalls
  <2>4. OneCall'
    BY <1>27, <2>1
    DEF TypeOK, OneCall, InCall, KillParent, KillCalls
  <2>5. SlotInv'
    BY <1>27, <2>1
    DEF TypeOK, SlotInv, LaunchInv, OneCall, InCall, Holding, Working,
      KillParent, KillCalls
  <2>6. DiskInv'
    BY <1>27, <2>1
    DEF TypeOK, DiskInv, Stays, Pid, Wrote, Wiped, KillParent, KillCalls
  <2>7. SeenInv'
    BY <1>27, <2>1, KnownStays
    DEF TypeOK, SeenInv, Stays, KillParent, KillCalls
  <2>8. CommandInv' /\ StateInv' /\ DownloadInv' /\ ProgressInv' /\ DoneIsStaged'
    BY <1>27 DEF CommandInv, Command, StateInv, DownloadInv, ProgressInv,
      Staged, DoneIsStaged, KillParent, KillCalls
  <2> QED
    BY <2>2, <2>3, <2>4, <2>5, <2>6, <2>7, <2>8
<1>28. ASSUME NEW j \in Jobs, KillChild(j) PROVE IInv'
  <2>1. Stays
    BY <1>28 DEF Stays, TypeOK, LaunchInv, InCall, KillChild, KillWorkers, Forget, Working
  <2>2. TypeOK'
    <3>1. (work \in [Jobs -> {"none", "start", "drive", "wait", "verify", "poll",
                        "finish", "save", "over"}])'
      BY <1>28, <2>1 DEF TypeOK, InCall, KillChild, KillWorkers, Forget, Working
    <3>2. (at \in [Jobs -> Nat \ {0}])'
      BY <1>28, <2>1 DEF TypeOK, InCall, KillChild, KillWorkers, Forget, Working
    <3>3. (attempt \in [Jobs -> {1, 2}])'
      BY <1>28, <2>1 DEF TypeOK, InCall, KillChild, KillWorkers, Forget, Working
    <3>4. (flagged \in [Jobs -> SUBSET Images])'
      BY <1>28, <2>1 DEF TypeOK, InCall, KillChild, KillWorkers, Forget, Working
    <3>5. (outcome \in [Jobs -> {"ok", "error", "timeout"}])'
      BY <1>28, <2>1 DEF TypeOK, InCall, KillChild, KillWorkers, Forget, Working
    <3>6. UNCHANGED <<front, plan, kick, seen, slot, up, store, newest, image, download>>
      BY <1>28 DEF KillChild, KillWorkers, Forget, Working
    <3> QED
      BY <3>1, <3>2, <3>3, <3>4, <3>5, <3>6 DEF TypeOK
  <2>3. LaunchInv'
    BY <1>28, <2>1
    DEF TypeOK, LaunchInv, InCall, DiskInv, Wrote, Wiped, KillChild,
      KillWorkers, Forget, Working
  <2>4. CommandInv'
    BY <1>28, <2>1
    DEF TypeOK, CommandInv, LaunchInv, Command, KillChild, KillWorkers, Forget,
      Working
  <2>5. SlotInv'
    BY <1>28, <2>1
    DEF TypeOK, SlotInv, LaunchInv, OneCall, InCall, Holding, Working,
      KillChild, KillWorkers, Forget
  <2>6. DiskInv'
    BY <1>28, <2>1
    DEF TypeOK, DiskInv, Stays, Pid, Wrote, Wiped, KillChild, KillWorkers,
      Forget, Working
  <2>7. SeenInv'
    BY <1>28, <2>1, KnownStays
    DEF TypeOK, SeenInv, Stays, KillChild, KillWorkers, Forget, Working
  <2>8. StateInv'
    BY <1>28, <2>1
    DEF TypeOK, StateInv, LaunchInv, DiskInv, Holding, Wrote, Wiped, Active,
      KillChild, KillWorkers, Forget, Working
  <2>9. ProgressInv'
    BY <1>28, <2>1
    DEF TypeOK, ProgressInv, LaunchInv, CommandInv, Staged, DownloadInv,
      KillChild, KillWorkers, Forget, Working
  <2>10. OneCall' /\ DownloadInv' /\ DoneIsStaged'
    BY <1>28 DEF OneCall, InCall, DownloadInv, DoneIsStaged, KillChild,
      KillWorkers, Forget, Working
  <2> QED
    BY <2>2, <2>3, <2>4, <2>5, <2>6, <2>7, <2>8, <2>9, <2>10
<1>29. ASSUME DownloadEnds PROVE IInv'
  <2>1. TypeOK'
    BY <1>29
    DEF TypeOK, InCall, CommandInv, DownloadInv, Wrote, Wiped, DownloadEnds
  <2>2. DownloadInv'
    BY <1>29
    DEF TypeOK, DownloadInv, DownloadEnds
  <2>3. ProgressInv'
    BY <1>29
    DEF TypeOK, ProgressInv, LaunchInv, CommandInv, Staged, DownloadInv,
      DownloadEnds
  <2>4. DoneIsStaged'
    BY <1>29
    DEF TypeOK, DoneIsStaged, LaunchInv, DiskInv, ProgressInv, Staged,
      DownloadInv, AllSent, Wrote, Wiped, DownloadEnds
  <2>5. LaunchInv' /\ CommandInv' /\ OneCall' /\ SlotInv' /\ DiskInv' /\ SeenInv' /\
      StateInv'
    BY <1>29 DEF LaunchInv, CommandInv, Command, OneCall, InCall, SlotInv,
      Working, Holding, DiskInv, Pid, SeenInv, Known, StateInv, DownloadEnds
  <2> QED
    BY <2>1, <2>2, <2>3, <2>4, <2>5
<1>30. CASE UNCHANGED vars
  BY <1>30 DEF vars, TypeOK, LaunchInv, CommandInv, Command, OneCall, InCall,
      SlotInv, Working, Holding, DiskInv, Pid, SeenInv, Known, StateInv,
      DownloadInv, ProgressInv, Staged, DoneIsStaged
<1> QED
  BY <1>1, <1>2, <1>3, <1>4, <1>5, <1>6, <1>7, <1>8, <1>9, <1>10, <1>11, <1>12,
     <1>13, <1>14, <1>15, <1>16, <1>17, <1>18, <1>19, <1>20, <1>21, <1>22,
     <1>23, <1>24, <1>25, <1>26, <1>27, <1>28, <1>29, <1>30
  DEF Next, Kickoff, Worker, SendLoad, LoadReply, SendPreCheck, Break, Kill

-----------------------------------------------------------------------------
(* The theorems.                                                           *)

\* The invariant above holds in every reachable state: of kickoffs, workers,
\* parents and readers of any number of jobs, whoever is killed.
THEOREM Invariance == Spec => []IInv
<1>1. Init => IInv
  BY InitInv
<1>2. IInv /\ [Next]_vars => IInv'
  BY InvStep
<1> QED
  BY <1>1, <1>2, PTL DEF Spec

\* The variables keep their types.
THEOREM TypeCorrect == Spec => []TypeOK
<1>1. IInv => TypeOK
  BY DEF IInv
<1> QED
  BY <1>1, Invariance, PTL

\* Two workers of the server never drive the device at once (the registry's
\* slot, claimed by the kickoff and released by the worker).
THEOREM OneLoadPerServer == Spec => []ServerOneLoad
<1>1. IInv => ServerOneLoad
  BY DEF IInv, SlotInv, ServerOneLoad, Driving, Holding
<1> QED
  BY <1>1, Invariance, PTL

\* A worker that drives the device has an unfinished envelope on disk that
\* names it, whoever marks orphans meanwhile.
THEOREM LiveOnDisk == Spec => []LiveIsVisible
<1>1. IInv => LiveIsVisible
  BY DEF IInv, StateInv, DiskInv, LiveIsVisible, Driving, Unfinished, Active
<1> QED
  BY <1>1, Invariance, PTL

\* What a job reports as done, with all commands sent, is staged, for retries,
\* images known already and any other downloads.
THEOREM DoneStaged == Spec => []DoneIsStaged
<1>1. IInv => DoneIsStaged
  BY DEF IInv
<1> QED
  BY <1>1, Invariance, PTL

-----------------------------------------------------------------------------
(* The envelope of a job goes forward.                                     *)

Forward == \A i \in Jobs : Rank(store'[i]) >= Rank(store[i])

LEMMA Ranks ==
  ASSUME NEW e
  PROVE  /\ Rank(e) \in 0..3
         /\ e # None => (e.state = "loading" => Rank(e) = 1)
                        /\ (e.state = "precheck" => Rank(e) = 2)
                        /\ (e.state \in Terminal => Rank(e) = 3)
         /\ Rank(None) = 0
BY DEF Rank, Terminal

LEMMA OneForward ==
  ASSUME NEW j \in Jobs, \A i \in Jobs \ {j} : store'[i] = store[i],
         Rank(store'[j]) >= Rank(store[j])
  PROVE  Forward
<1>1. ASSUME NEW i \in Jobs PROVE Rank(store[i]) >= Rank(store[i])
  BY Ranks
<1> QED
  BY <1>1 DEF Forward

LEMMA LoadingForward ==
  ASSUME NEW j \in Jobs, Wrote(j, "loading"),
         store[j] = None \/ store[j].state = "loading"
  PROVE  Forward
<1>1. Rank(store'[j]) = 1 /\ Rank(store[j]) \in {0, 1}
  BY Ranks DEF Wrote
<1> QED
  BY <1>1, OneForward DEF Wrote

LEMMA LaterForward ==
  ASSUME TypeOK, NEW j \in Jobs, NEW s \in Terminal \cup {"precheck"}, Wrote(j, s),
         s = "precheck" => store[j] = None \/ store[j].state = "loading"
  PROVE  Forward
<1>1. CASE s = "precheck"
  <2>1. Rank(store'[j]) = 2 /\ Rank(store[j]) \in {0, 1}
    BY <1>1, Ranks DEF Wrote
  <2> QED
    BY <2>1, OneForward DEF Wrote
<1>2. CASE s \in Terminal
  <2>1. Rank(store'[j]) = 3 /\ Rank(store[j]) \in 0..3
    BY <1>2, Ranks DEF Wrote
  <2> QED
    BY <2>1, OneForward DEF Wrote
<1> QED
  BY <1>1, <1>2

LEMMA WipedForward ==
  ASSUME NEW j \in Jobs, Wiped(j)
  PROVE  Forward
<1>1. Rank(store'[j]) = 3 /\ Rank(store[j]) \in 0..3
  BY Ranks DEF Wiped, Terminal
<1> QED
  BY <1>1, OneForward DEF Wiped

LEMMA SameForward ==
  ASSUME store' = store
  PROVE  Forward
<1>1. ASSUME NEW i \in Jobs PROVE Rank(store[i]) >= Rank(store[i])
  BY Ranks
<1> QED
  BY <1>1 DEF Forward

LEMMA ForwardStep == ASSUME IInv, [Next]_vars PROVE Forward
<1> USE DEF IInv, diskVars
<1>1. ASSUME NEW j \in Jobs, SaveStart(j) \/ Snapshot(j) PROVE Forward
  <2>1. Wrote(j, "loading")
    BY <1>1, SaveWrites DEF SaveStart, Snapshot, Active
  <2>2. store[j] = None \/ store[j].state = "loading"
    BY <1>1 DEF SaveStart, Snapshot, StateInv, LaunchInv
  <2> QED
    BY <2>1, <2>2, LoadingForward
<1>2. ASSUME NEW j \in Jobs, work[j] \in {"drive", "wait"}, StepClean(j) \/ StepFails(j)
      PROVE  Forward
  <2>1. Wrote(j, "loading")
    BY <1>2, SaveWrites DEF StepClean, StepFails, Active
  <2>2. store[j].state = "loading"
    BY <1>2 DEF StateInv
  <2> QED
    BY <2>1, <2>2, LoadingForward
<1>3. ASSUME NEW j \in Jobs,
LoadKnown(j) \/ LoadBusy(j) \/ LoadReply(j) \/ SendPreCheck(j)
      PROVE  Forward
  BY <1>2, <1>3 DEF LoadKnown, LoadBusy, LoadReply, SendPreCheck
<1>4. ASSUME NEW j \in Jobs, Verify(j) PROVE Forward
  <2>1. CASE store' = store
    BY <2>1, SameForward
  <2>2. CASE Save(Envelope(j, "precheck"))
    <3>1. Wrote(j, "precheck")
      BY <2>2, SaveWrites DEF Active
    <3>2. store[j].state = "loading"
      BY <1>4 DEF Verify, StateInv
    <3> QED
      BY <3>1, <3>2, LaterForward
  <2> QED
    BY <1>4, <2>1, <2>2 DEF Verify
<1>5. ASSUME NEW j \in Jobs, SaveTerminal(j) PROVE Forward
  <2>1. PICK s \in Terminal : Save(Envelope(j, s))
    <3>1. outcome[j] \in {"ok", "error", "timeout"}
      BY DEF TypeOK
    <3> QED
      BY <1>5, <3>1 DEF SaveTerminal, Terminal
  <2>2. Wrote(j, s) /\ s # "precheck"
    BY <2>1, SaveWrites DEF Terminal
  <2> QED
    BY <2>2, LaterForward
<1>6. ASSUME NEW j \in Jobs, JudgeLatest(j) PROVE Forward
  BY <1>6, JudgeLatestMarks, WipedForward, SameForward
<1>7. ASSUME NEW r \in Readers, Answer(r) PROVE Forward
  BY <1>7, AnswerMarks, WipedForward, SameForward
<1>8. ASSUME NEW j \in Jobs, NEW q \in Requests[j], CheckMemory(j, q) PROVE Forward
  BY <1>8, SameForward DEF CheckMemory
<1>9. ASSUME NEW j \in Jobs,
             ReadLatest(j) \/ Launch(j) \/ SetUpFails(j) \/ LoadStarts(j) \/ StepTimeout(j)
               \/ Break(j) \/ PollEnds(j) \/ Finish(j)
      PROVE  Forward
  BY <1>9, SameForward
  DEF ReadLatest, Launch, SetUpFails, LoadStarts, StepTimeout, Break, StartOver, GiveUp,
      PollEnds, Finish
<1>10. ASSUME Kill \/ DownloadEnds \/ (\E r \in Readers : Show(r)) \/ UNCHANGED vars
       PROVE  Forward
  BY <1>10, SameForward
  DEF Kill, KillServer, KillBlocking, KillParent, KillChild, DownloadEnds, Show, vars
<1> QED
  BY <1>1, <1>3, <1>4, <1>5, <1>6, <1>7, <1>8, <1>9, <1>10
  DEF Next, Kickoff, Worker, SendLoad

\* The file of a job never goes back, from pre-check to loading or from its
\* end to either: parent, child, worker and readers write it in order.
THEOREM NeverBack == Spec => NeverRegresses
<1>1. IInv /\ [Next]_vars => [\A j \in Jobs : Rank(store'[j]) >= Rank(store[j])]_vars
  BY ForwardStep DEF Forward
<1> QED
  BY <1>1, Invariance, PTL DEF Spec, NeverRegresses
=============================================================================

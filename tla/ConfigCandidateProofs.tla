------------------------ MODULE ConfigCandidateProofs ------------------------
(***************************************************************************)
(* Proofs about the configurations that several callers edit: the two       *)
(* candidates of a device and the session of an IxNetwork server, for any   *)
(* callers, batches, payloads, histories, trees and settings.               *)
(*                                                                         *)
(* ConfigCandidate: its types; and, where all callers take one lock, that   *)
(* the shared candidate is clean between calls, that every commit is the    *)
(* whole effect of one call (it implements ConfigPromise), that an ok is    *)
(* true, and that an edit undoes nobody's commit.  NetconfCandidate: its    *)
(* types, that an ok is true, that what is answered as refused stays out,   *)
(* and that what comes to run has somebody who answers for it.  IxiaConfig: *)
(* its types, that an edit mends what it breaks, that a route line is as    *)
(* the last action upon it said, and that a start which says ok started.    *)
(*                                                                         *)
(* The inductive invariant of the first says, for the call that holds the   *)
(* lock, what the candidate holds before each of its commands (CdMidway,    *)
(* CdStaged); those of the others stand before their proofs (NcInv, IxInv). *)
(* OneLock and CleanersOnly, of ConfigCandidate, are hypotheses where they  *)
(* are named: processes with a lock each, and a refused factory default,    *)
(* rollback or restore, do leave the candidate dirty.                       *)
(***************************************************************************)
EXTENDS Candidates, IxiaConfig, SequenceTheorems, FiniteSetTheorems, TLAPS

Entry == [conf : Configs, by : Clients \cup {Outsider}]
Device == [cand : Configs, dirty : BOOLEAN, sync : BOOLEAN, hist : Seq(Entry)]

\* The first k statements of a batch.
Staged(c, k) == {Batch[c][i] : i \in 1..k}

\* What the proofs need of the constants.
LEMMA Given ==
  /\ \A s \in Settings : /\ s.ops \in [Clients -> SUBSET OpNames]
                         /\ s.faults \subseteq FaultNames /\ s.calls \in Nat
  /\ LockOf \in [Clients -> Locks] /\ Nobody \notin Clients /\ Outsider \notin Clients
  /\ RollbackId \in Nat \ {0} /\ MaxOutside \in Nat /\ HistMax \in Nat \ {0}
  /\ Len(Before) \in 1..HistMax /\ Before \in Seq(SUBSET UNION Range(Before))
  /\ \A c \in Clients : Batch[c] \in Seq(Range(Batch[c])) /\ Len(Batch[c]) \in Nat
BY CandidateAssumption DEF CandidateAssumption, SettingsOK

\* The range of a function is the same in both modules.
LEMMA SameRange ==
  ASSUME NEW f
  PROVE  Promise!Range(f) = Range(f)
BY DEF Promise!Range, Range

\* The constants are configurations.
LEMMA ConfigsGiven ==
  /\ Golden \in Configs /\ {} \in Configs
  /\ \A c \in Clients : Range(Batch[c]) \in Configs
  /\ \A i \in DOMAIN Before : Before[i] \in Configs
  /\ \A conf1, conf2 \in Configs : conf1 \cup conf2 \in Configs
<1>1. \A i \in DOMAIN Before : Before[i] \in Range(Before)
  BY DEF Range
<1>2. \A i \in DOMAIN Before : Before[i] \subseteq UNION Range(Before)
  BY <1>1
<1> DEFINE batches == UNION {Promise!Range(Batch[c]) : c \in Clients}
           earlier == UNION Promise!Range(Before)
<1>a. Promise!Statements = (batches \cup Golden) \cup earlier
  BY DEF Promise!Statements
<1>b. \A c \in Clients : Promise!Range(Batch[c]) \subseteq batches
  OBVIOUS
<1>c. earlier = UNION Range(Before)
  BY SameRange
<1> HIDE DEF batches, earlier
<1>3. Golden \in Configs /\ {} \in Configs
  BY <1>a DEF Configs
<1>4. \A c \in Clients : Range(Batch[c]) \in Configs
  BY <1>a, <1>b, SameRange DEF Configs
<1>5. \A i \in DOMAIN Before : Before[i] \in Configs
  BY <1>2, <1>a, <1>c DEF Configs
<1>6. \A conf1, conf2 \in Configs : conf1 \cup conf2 \in Configs
  BY DEF Configs
<1> QED
  BY <1>3, <1>4, <1>5, <1>6

\* A batch, statement by statement.
LEMMA Batches ==
  ASSUME NEW c \in Clients
  PROVE  /\ \A i \in 1..Len(Batch[c]) : Batch[c][i] \in Range(Batch[c])
         /\ Staged(c, 0) = {} /\ Staged(c, Len(Batch[c])) = Range(Batch[c])
         /\ \A k \in 1..Len(Batch[c]) : Staged(c, k) = Staged(c, k - 1) \cup {Batch[c][k]}
         /\ \A k \in 0..Len(Batch[c]) : Staged(c, k) \in Configs
<1>1. DOMAIN Batch[c] = 1..Len(Batch[c]) /\ Len(Batch[c]) \in Nat
  BY Given
<1>2. \A i \in 1..Len(Batch[c]) : Batch[c][i] \in Range(Batch[c])
  BY <1>1 DEF Range
<1>3. Staged(c, Len(Batch[c])) = Range(Batch[c])
  BY <1>1 DEF Range, Staged
<1>4. \A k \in 1..Len(Batch[c]) : 1..k = (1..(k - 1)) \cup {k}
  BY <1>1
<1>5. \A k \in 1..Len(Batch[c]) : Staged(c, k) = Staged(c, k - 1) \cup {Batch[c][k]}
  BY <1>4 DEF Staged
<1>6. Staged(c, 0) = {}
  BY DEF Staged
<1>7. \A k \in 0..Len(Batch[c]) : Staged(c, k) \subseteq Range(Batch[c])
  BY <1>1, <1>2 DEF Staged
<1>8. \A k \in 0..Len(Batch[c]) : Staged(c, k) \in Configs
  BY <1>7, ConfigsGiven DEF Configs
<1> QED
  BY <1>2, <1>3, <1>5, <1>6, <1>8

\* A commit is remembered in front of the others.
LEMMA Pushed ==
  ASSUME NEW h \in Seq(Entry), Len(h) \in 1..HistMax, NEW conf \in Configs,
         NEW who \in Clients \cup {Outsider}
  PROVE  LET g == Promise!Push(h, conf, who) IN
         /\ g \in Seq(Entry) /\ Len(g) \in 1..HistMax /\ g[1] = [conf |-> conf, by |-> who]
<1> DEFINE e == [conf |-> conf, by |-> who]
           s == <<e>> \o h
           n == IF Len(h) < HistMax THEN Len(h) + 1 ELSE HistMax
<1>1. e \in Entry
  BY DEF Entry
<1>2. <<e>> \in Seq(Entry) /\ Len(<<e>>) = 1 /\ <<e>>[1] = e
  BY <1>1
<1> HIDE DEF e
<1>3. s \in Seq(Entry) /\ Len(s) = 1 + Len(h) /\ s[1] = e
  BY <1>2, ConcatProperties, Z3
<1> HIDE DEF s
<1>4. n \in 1..HistMax /\ n <= Len(s) /\ HistMax \in Nat
  BY <1>3, Given
<1> HIDE DEF n
<1>5. \A i \in 1..n : s[i] \in Entry
  BY <1>3, <1>4
<1>6. /\ SubSeq(s, 1, n) \in Seq(Entry) /\ Len(SubSeq(s, 1, n)) = n
      /\ SubSeq(s, 1, n)[1] = s[1]
  BY <1>4, <1>5, SubSeqProperties
<1>7. Promise!Push(h, conf, who) = SubSeq(s, 1, n)
  BY DEF Promise!Push, s, e, n
<1> QED
  BY <1>3, <1>4, <1>6, <1>7 DEF e

\* What a whole call makes of a history is a configuration.
LEMMA ResultIsConfig ==
  ASSUME NEW h \in Seq(Entry), Len(h) \in 1..HistMax, NEW c \in Clients, NEW o \in OpNames
  PROVE  Promise!Result(h, c, o) \in Configs
<1>1. \A i \in 1..Len(h) : h[i].conf \in Configs
  <2> TAKE i \in 1..Len(h)
  <2>1. h[i] \in Entry
    OBVIOUS
  <2> QED
    BY <2>1 DEF Entry
<1>2. h[1].conf \in Configs
  BY <1>1
<1>3. RollbackId < Len(h) => h[RollbackId + 1].conf \in Configs
  BY <1>1, Given
<1>4. Range(Batch[c]) \in Configs /\ Golden \in Configs /\ {} \in Configs
  BY ConfigsGiven
<1>5. h[1].conf \cup Range(Batch[c]) \in Configs /\ Golden \cup Range(Batch[c]) \in Configs
  BY <1>2, <1>4, ConfigsGiven
<1>6. CASE o = "edit"
  BY <1>5, <1>6, SameRange DEF Promise!Result
<1>7. CASE o = "lofd"
  BY <1>4, <1>7 DEF Promise!Result
<1>8. CASE o = "restore"
  BY <1>5, <1>8, SameRange DEF Promise!Result
<1>9. CASE o = "rollback"
  BY <1>2, <1>3, <1>9 DEF Promise!Result
<1>10. CASE o = "check" \/ o = "compare"
  BY <1>2, <1>10 DEF Promise!Result
<1> QED
  BY <1>6, <1>7, <1>8, <1>9, <1>10 DEF OpNames
-----------------------------------------------------------------------------
CmdsOf(c) == {Stage(s) : s \in Range(Batch[c])} \cup {Load({}), Load(Golden)}
               \cup {Cmd(name) : name \in {"commit", "check", "discard", "revert"}}

\* One command stages one statement.
LEMMA StagingSteps ==
  ASSUME NEW c \in Clients
  PROVE  /\ Staging(c) \in Seq(CmdsOf(c)) /\ Len(Staging(c)) = Len(Batch[c])
         /\ \A i \in 1..Len(Batch[c]) : Staging(c)[i] = Stage(Batch[c][i])
<1>1. DOMAIN Batch[c] = 1..Len(Batch[c]) /\ Len(Batch[c]) \in Nat
  BY Given
<1>2. Staging(c) = [i \in 1..Len(Batch[c]) |-> Stage(Batch[c][i])]
  BY <1>1 DEF Staging
<1>3. \A i \in 1..Len(Batch[c]) : Stage(Batch[c][i]) \in CmdsOf(c)
  BY Batches DEF CmdsOf
<1> QED
  BY <1>1, <1>2, <1>3

\* The commands of each tool, one by one.
LEMMA Programs ==
  ASSUME NEW c \in Clients
  PROVE  LET n == Len(Batch[c]) IN
         /\ n \in Nat
         /\ Len(EditSteps(c)) = n + 1 /\ EditSteps(c)[n + 1] = Cmd("commit")
         /\ \A i \in 1..n : EditSteps(c)[i] = Stage(Batch[c][i])
         /\ Len(CheckSteps(c)) = n + 2 /\ CheckSteps(c)[n + 1] = Cmd("check")
         /\ CheckSteps(c)[n + 2] = Cmd("discard")
         /\ \A i \in 1..n : CheckSteps(c)[i] = Stage(Batch[c][i])
         /\ Len(CompareSteps(c)) = n + 1 /\ CompareSteps(c)[n + 1] = Cmd("discard")
         /\ \A i \in 1..n : CompareSteps(c)[i] = Stage(Batch[c][i])
         /\ Len(FactorySteps) = 2 /\ FactorySteps[1] = Load({}) /\ FactorySteps[2] = Cmd("commit")
         /\ Len(RollbackSteps) = 2 /\ RollbackSteps[1] = Cmd("revert")
         /\ RollbackSteps[2] = Cmd("commit")
         /\ Len(RestoreSteps(c)) = n + 2 /\ RestoreSteps(c)[1] = Load(Golden)
         /\ \A i \in 1..n : RestoreSteps(c)[i + 1] = Stage(Batch[c][i])
         /\ RestoreSteps(c)[n + 2] = Cmd("commit")
<1> DEFINE n == Len(Batch[c])
           st == Staging(c)
           S == CmdsOf(c)
<1>1. /\ st \in Seq(S) /\ Len(st) = n /\ n \in Nat
      /\ \A i \in 1..n : st[i] = Stage(Batch[c][i])
  BY StagingSteps, Given
<1>2. ASSUME NEW x \in S
      PROVE  /\ <<x>> \in Seq(S) /\ Len(<<x>>) = 1 /\ <<x>>[1] = x
  BY <1>2
<1>3. ASSUME NEW x \in S, NEW y \in S
      PROVE  /\ <<x, y>> \in Seq(S) /\ Len(<<x, y>>) = 2 /\ <<x, y>>[1] = x /\ <<x, y>>[2] = y
  BY <1>3
<1>4. /\ Cmd("commit") \in S /\ Cmd("check") \in S /\ Cmd("discard") \in S /\ Cmd("revert") \in S
      /\ Load(Golden) \in S /\ Load({}) \in S
  BY DEF CmdsOf
<1> HIDE DEF st, S
<1>5. ASSUME NEW x \in S
      PROVE  /\ st \o <<x>> \in Seq(S) /\ Len(st \o <<x>>) = n + 1 /\ (st \o <<x>>)[n + 1] = x
             /\ \A i \in 1..n : (st \o <<x>>)[i] = Stage(Batch[c][i])
  BY <1>1, <1>2, <1>5, ConcatProperties
<1>6. ASSUME NEW x \in S, NEW y \in S
      PROVE  /\ Len(st \o <<x, y>>) = n + 2 /\ (st \o <<x, y>>)[n + 1] = x
             /\ (st \o <<x, y>>)[n + 2] = y
             /\ \A i \in 1..n : (st \o <<x, y>>)[i] = Stage(Batch[c][i])
  BY <1>1, <1>3, <1>6, ConcatProperties
<1>7. ASSUME NEW x \in S, NEW y \in S
      PROVE  LET p == <<x>> \o st \o <<y>> IN
             /\ Len(p) = n + 2 /\ p[1] = x /\ p[n + 2] = y
             /\ \A i \in 1..n : p[i + 1] = Stage(Batch[c][i])
  <2>1. /\ <<x>> \o st \in Seq(S) /\ Len(<<x>> \o st) = n + 1 /\ (<<x>> \o st)[1] = x
        /\ \A i \in 1..n : (<<x>> \o st)[i + 1] = Stage(Batch[c][i])
    BY <1>1, <1>2, <1>7, ConcatProperties
  <2> QED
    BY <1>1, <1>2, <1>7, <2>1, ConcatProperties
<1>8. /\ EditSteps(c) = st \o <<Cmd("commit")>>
      /\ CheckSteps(c) = st \o <<Cmd("check"), Cmd("discard")>>
      /\ CompareSteps(c) = st \o <<Cmd("discard")>>
      /\ FactorySteps = <<Load({}), Cmd("commit")>>
      /\ RollbackSteps = <<Cmd("revert"), Cmd("commit")>>
      /\ RestoreSteps(c) = <<Load(Golden)>> \o st \o <<Cmd("commit")>>
  BY DEF EditSteps, CheckSteps, CompareSteps, FactorySteps, RollbackSteps, RestoreSteps, st
<1> QED
  BY <1>1, <1>3, <1>4, <1>5, <1>6, <1>7, <1>8
-----------------------------------------------------------------------------
(* The inductive invariant.  CdTyped, CdSteps and CdLocks hold whatever the  *)
(* settings; the others need that all callers take one lock, or that what    *)
(* may fail cleans up after itself, or that every reply arrives.             *)

Busy(c) == pc[c] \in {"run", "cleanup"}

CdTyped ==
  /\ setting \in Settings
  /\ dev \in Device /\ Len(dev.hist) \in 1..HistMax
  /\ lock \in [Locks -> Clients \cup {Nobody}]
  /\ pc \in [Clients -> {"idle", "wait", "run", "cleanup"}]
  /\ op \in [Clients -> OpNames]
  /\ at \in [Clients -> Nat \ {0}] /\ attempt \in [Clients -> {1, 2}]
  /\ verdict \in [Clients -> Verdicts]
  /\ goal \in [Clients -> Configs]
  /\ flaw \in [Clients -> BOOLEAN] /\ landed \in [Clients -> BOOLEAN]
  /\ budget \in [Clients \cup {Outsider} -> Nat]

\* A call runs a tool it may call, is at one of its commands, and only an
\* edit that did not succeed is cleaned up after.
CdSteps ==
  \A c \in Clients :
    /\ pc[c] # "idle" => op[c] \in Ops[c]
    /\ Busy(c) => at[c] \in 1..Len(Program(c))
    /\ pc[c] = "run" => verdict[c] = "none"
    /\ pc[c] = "cleanup" => verdict[c] \notin {"ok", "none"}

\* Whoever is at work holds its lock, and nobody else holds it.
CdLocks == \A c \in Clients : Busy(c) <=> lock[LockOf[c]] = c

\* An edit has staged what it sent, unless the device took it for another's.
CdStaged ==
  \A c \in Clients :
    pc[c] = "run" /\ op[c] = "edit"
      => Staged(c, at[c] - 1) \subseteq dev.cand /\ (at[c] > 1 => dev.dirty)

\* Where something may fail, only tools are called that clean up after a failure.
Tidy == Faults # {} => \A c \in Clients : Ops[c] \subseteq {"edit", "check", "compare"}

\* Where something may fail, a candidate in sync holds all that runs.
CdBase == Faults # {} /\ Tidy /\ dev.sync => Running \subseteq dev.cand

\* What a call is to leave is what it would make of the configuration now.
CdGoal == Faults = {} => \A c \in Clients : pc[c] = "run" => goal[c] = Promise!Result(dev.hist, c, op[c])

\* The candidate holds nothing but what runs.
Ready == dev.cand = Running /\ dev.sync /\ (Faults # {} => ~dev.dirty)

\* What the candidate holds before command at[c] of the call at work.
CdMidway(c) ==
  /\ at[c] = 1 => Ready
  /\ op[c] = "edit" /\ dev.sync => dev.cand = Running \cup Staged(c, at[c] - 1)
  /\ Faults = {} => dev.sync
  /\ at[c] > 1 =>
       /\ op[c] = "lofd" => dev.cand = {}
       /\ op[c] = "rollback" => dev.cand = Promise!Result(dev.hist, c, "rollback")
       /\ op[c] = "restore" => dev.cand = Golden \cup Staged(c, at[c] - 2)

CdHeld ==
  Answering /\ Tidy => /\ (\A c \in Clients : ~Busy(c)) => Ready
                       /\ \A c \in Clients : pc[c] = "run" => CdMidway(c)

CdAborted ==
  Answering => \A c \in Clients : /\ pc[c] = "run" /\ op[c] = "edit" => ~landed[c]
                                  /\ verdict[c] = "aborted" => ~landed[c]

CdInv == CdTyped /\ CdSteps /\ CdLocks
CdWhole == CdStaged /\ CdBase /\ CdGoal /\ CdHeld /\ CdAborted
-----------------------------------------------------------------------------
(* What a call sends and what it may be told.                              *)

\* The command a call at work sends next.
Sent(c) == Program(c)[at[c]]

\* By tool and place: which command it is.
SentIs(c) ==
  LET n == Len(Batch[c])
      k == at[c]
  IN /\ pc[c] = "cleanup" => k = 1 /\ Len(Program(c)) = 1 /\ Sent(c) = Cmd("discard")
     /\ pc[c] = "run" =>
          /\ op[c] = "edit" => /\ k \in 1..(n + 1) /\ Len(Program(c)) = n + 1
                               /\ k <= n => Sent(c) = Stage(Batch[c][k])
                               /\ k = n + 1 => Sent(c) = Cmd("commit")
          /\ op[c] = "check" => /\ k \in 1..(n + 2) /\ Len(Program(c)) = n + 2
                                /\ k <= n => Sent(c) = Stage(Batch[c][k])
                                /\ k = n + 1 => Sent(c) = Cmd("check")
                                /\ k = n + 2 => Sent(c) = Cmd("discard")
          /\ op[c] = "compare" => /\ k \in 1..(n + 1) /\ Len(Program(c)) = n + 1
                                  /\ k <= n => Sent(c) = Stage(Batch[c][k])
                                  /\ k = n + 1 => Sent(c) = Cmd("discard")
          /\ op[c] = "lofd" => /\ k \in 1..2 /\ Len(Program(c)) = 2
                               /\ k = 1 => Sent(c) = Load({})
                               /\ k = 2 => Sent(c) = Cmd("commit")
          /\ op[c] = "rollback" => /\ k \in 1..2 /\ Len(Program(c)) = 2
                                   /\ k = 1 => Sent(c) = Cmd("revert")
                                   /\ k = 2 => Sent(c) = Cmd("commit")
          /\ op[c] = "restore" => /\ k \in 1..(n + 2) /\ Len(Program(c)) = n + 2
                                  /\ k = 1 => Sent(c) = Load(Golden)
                                  /\ k \in 2..(n + 1) => Sent(c) = Stage(Batch[c][k - 1])
                                  /\ k = n + 2 => Sent(c) = Cmd("commit")

\* A call at work sends the command of its tool and place.
LEMMA Sends ==
  ASSUME CdTyped, CdSteps, NEW c \in Clients, Busy(c)
  PROVE  SentIs(c) /\ Sent(c) \in CmdsOf(c) /\ Len(Batch[c]) \in Nat
<1> DEFINE n == Len(Batch[c])
           k == at[c]
<1>1. k \in 1..Len(Program(c)) /\ k \in Nat /\ n \in Nat
  BY Given DEF CdTyped, CdSteps
<1>2. /\ op[c] \in {"edit", "check", "compare", "lofd", "rollback", "restore"}
      /\ pc[c] \in {"run", "cleanup"}
  BY DEF CdTyped, OpNames, Busy
<1>3. \A i \in 1..n : Stage(Batch[c][i]) \in CmdsOf(c)
  BY Batches DEF CmdsOf
<1>4. /\ Cmd("commit") \in CmdsOf(c) /\ Cmd("check") \in CmdsOf(c)
      /\ Cmd("discard") \in CmdsOf(c) /\ Cmd("revert") \in CmdsOf(c)
      /\ Load(Golden) \in CmdsOf(c) /\ Load({}) \in CmdsOf(c)
  BY DEF CmdsOf
<1> HIDE DEF n, k
<1>5. CASE pc[c] = "cleanup"
  <2>1. Program(c) = <<Cmd("discard")>>
    BY <1>5 DEF Program
  <2>2. Len(Program(c)) = 1 /\ Program(c)[1] = Cmd("discard")
    BY <2>1
  <2>3. k = 1
    BY <1>1, <2>2
  <2> QED
    BY <1>1, <1>4, <1>5, <2>2, <2>3 DEF SentIs, Sent, k, n
<1>6. CASE pc[c] = "run" /\ op[c] = "edit"
  <2>1. Program(c) = EditSteps(c)
    BY <1>6 DEF Program
  <2>2. /\ Len(EditSteps(c)) = n + 1 /\ EditSteps(c)[n + 1] = Cmd("commit")
        /\ \A i \in 1..n : EditSteps(c)[i] = Stage(Batch[c][i])
    BY Programs DEF n
  <2>3. Sent(c) \in CmdsOf(c)
    <3>1. k \in 1..n \/ k = n + 1
      BY <1>1, <2>1, <2>2
    <3> QED
      BY <1>3, <1>4, <2>1, <2>2, <3>1 DEF Sent, k
  <2> QED
    BY <1>1, <1>6, <2>1, <2>2, <2>3 DEF SentIs, Sent, k, n
<1>7. CASE pc[c] = "run" /\ op[c] = "check"
  <2>1. Program(c) = CheckSteps(c)
    BY <1>7 DEF Program
  <2>2. /\ Len(CheckSteps(c)) = n + 2 /\ CheckSteps(c)[n + 1] = Cmd("check")
        /\ CheckSteps(c)[n + 2] = Cmd("discard")
        /\ \A i \in 1..n : CheckSteps(c)[i] = Stage(Batch[c][i])
    BY Programs DEF n
  <2>3. Sent(c) \in CmdsOf(c)
    <3>1. k \in 1..n \/ k = n + 1 \/ k = n + 2
      BY <1>1, <2>1, <2>2
    <3> QED
      BY <1>3, <1>4, <2>1, <2>2, <3>1 DEF Sent, k
  <2> QED
    BY <1>1, <1>7, <2>1, <2>2, <2>3 DEF SentIs, Sent, k, n
<1>8. CASE pc[c] = "run" /\ op[c] = "compare"
  <2>1. Program(c) = CompareSteps(c)
    BY <1>8 DEF Program
  <2>2. /\ Len(CompareSteps(c)) = n + 1 /\ CompareSteps(c)[n + 1] = Cmd("discard")
        /\ \A i \in 1..n : CompareSteps(c)[i] = Stage(Batch[c][i])
    BY Programs DEF n
  <2>3. Sent(c) \in CmdsOf(c)
    <3>1. k \in 1..n \/ k = n + 1
      BY <1>1, <2>1, <2>2
    <3> QED
      BY <1>3, <1>4, <2>1, <2>2, <3>1 DEF Sent, k
  <2> QED
    BY <1>1, <1>8, <2>1, <2>2, <2>3 DEF SentIs, Sent, k, n
<1>9. CASE pc[c] = "run" /\ op[c] = "lofd"
  <2>1. Program(c) = FactorySteps
    BY <1>9 DEF Program
  <2>2. /\ Len(FactorySteps) = 2 /\ FactorySteps[1] = Load({})
        /\ FactorySteps[2] = Cmd("commit")
    BY Programs DEF n
  <2>3. Sent(c) \in CmdsOf(c)
    <3>1. k = 1 \/ k = 2
      BY <1>1, <2>1, <2>2
    <3> QED
      BY <1>3, <1>4, <2>1, <2>2, <3>1 DEF Sent, k
  <2> QED
    BY <1>1, <1>9, <2>1, <2>2, <2>3 DEF SentIs, Sent, k, n
<1>10. CASE pc[c] = "run" /\ op[c] = "rollback"
  <2>1. Program(c) = RollbackSteps
    BY <1>10 DEF Program
  <2>2. /\ Len(RollbackSteps) = 2 /\ RollbackSteps[1] = Cmd("revert")
        /\ RollbackSteps[2] = Cmd("commit")
    BY Programs DEF n
  <2>3. Sent(c) \in CmdsOf(c)
    <3>1. k = 1 \/ k = 2
      BY <1>1, <2>1, <2>2
    <3> QED
      BY <1>3, <1>4, <2>1, <2>2, <3>1 DEF Sent, k
  <2> QED
    BY <1>1, <1>10, <2>1, <2>2, <2>3 DEF SentIs, Sent, k, n
<1>11. CASE pc[c] = "run" /\ op[c] = "restore"
  <2>1. Program(c) = RestoreSteps(c)
    BY <1>11 DEF Program
  <2>2. \A i \in 2..(n + 1) : RestoreSteps(c)[i] = Stage(Batch[c][i - 1]) /\ i - 1 \in 1..n
    <3> TAKE i \in 2..(n + 1)
    <3>1. i - 1 \in 1..n /\ (i - 1) + 1 = i
      BY <1>1
    <3> QED
      BY <3>1, Programs DEF n
  <2>3. Len(RestoreSteps(c)) = n + 2 /\ RestoreSteps(c)[1] = Load(Golden)
        /\ RestoreSteps(c)[n + 2] = Cmd("commit")
    BY Programs DEF n
  <2>4. k = 1 \/ k \in 2..(n + 1) \/ k = n + 2
    BY <1>1, <2>1, <2>3
  <2>5. Sent(c) \in CmdsOf(c)
    BY <1>3, <1>4, <2>1, <2>2, <2>3, <2>4 DEF Sent, k
  <2> QED
    BY <1>1, <1>11, <2>1, <2>2, <2>3, <2>5 DEF SentIs, Sent, k, n
<1> QED
  BY <1>2, <1>5, <1>6, <1>7, <1>8, <1>9, <1>10, <1>11

\* What the device answers to a command and what becomes of it.
Answered(c, cmd, o) ==
  /\ cmd.do = "stage" => \/ o = Reply("done", Changed(dev.cand \cup {cmd.stmt}))
                         \/ o = Reply("rejected", dev) /\ "reject" \in Faults
  /\ cmd.do = "load" => \/ o = Reply("done", Changed(cmd.conf))
                        \/ o = Reply("rejected", dev) /\ "reject" \in Faults
  /\ cmd.do = "revert" =>
       \/ /\ RollbackId < Len(dev.hist)
          /\ o = Reply("done", Changed(dev.hist[RollbackId + 1].conf))
       \/ ~(RollbackId < Len(dev.hist)) /\ o = Reply("rejected", dev)
  /\ cmd.do = "discard" =>
       o = Reply("done", [dev EXCEPT !.cand = Running, !.dirty = FALSE, !.sync = TRUE])
  /\ cmd.do = "check" => o.dev = dev /\ o.reply \in {"no_change", "done", "invalid"}
  /\ cmd.do = "commit" =>
       \/ ~dev.sync /\ o = Reply("conflict", dev)
       \/ dev.sync /\ dev.cand = Running /\ o = Reply("no_change", dev)
       \/ dev.sync /\ dev.cand # Running /\ o = Reply("committed", Committed(c))
       \/ o = Reply("invalid", dev) /\ "invalid" \in Faults

\* The replies of the model, as Answered lists them.
LEMMA Answers ==
  ASSUME NEW c \in Clients, NEW cmd \in CmdsOf(c), NEW o \in Replies(c, cmd)
  PROVE  Answered(c, cmd, o)
<1>1. CASE \E s : cmd = Stage(s)
  <2>1. cmd.do = "stage"
    BY <1>1 DEF Stage
  <2>2. Replies(c, cmd) = {Reply("done", Changed(dev.cand \cup {cmd.stmt}))} \cup Refusal("reject", "rejected")
    BY <2>1 DEF Replies
  <2> QED
    BY <2>1, <2>2 DEF Answered, Refusal
<1>2. CASE \E conf : cmd = Load(conf)
  <2>1. cmd.do = "load"
    BY <1>2 DEF Load
  <2>2. Replies(c, cmd) = {Reply("done", Changed(cmd.conf))} \cup Refusal("reject", "rejected")
    BY <2>1 DEF Replies
  <2> QED
    BY <2>1, <2>2 DEF Answered, Refusal
<1>3. CASE cmd = Cmd("revert")
  <2>1. cmd.do = "revert"
    BY <1>3 DEF Cmd
  <2>2. Replies(c, cmd) = IF RollbackId < Len(dev.hist)
                          THEN {Reply("done", Changed(dev.hist[RollbackId + 1].conf))}
                          ELSE {Reply("rejected", dev)}
    BY <2>1 DEF Replies
  <2> QED
    BY <2>1, <2>2 DEF Answered
<1>4. CASE cmd = Cmd("discard")
  <2>1. cmd.do = "discard"
    BY <1>4 DEF Cmd
  <2>2. Replies(c, cmd) = {Reply("done", [dev EXCEPT !.cand = Running, !.dirty = FALSE, !.sync = TRUE])}
    BY <2>1 DEF Replies
  <2> QED
    BY <2>1, <2>2 DEF Answered
<1>5. CASE cmd = Cmd("check")
  <2>1. cmd.do = "check"
    BY <1>5 DEF Cmd
  <2>2. Replies(c, cmd) = {Reply(IF dev.cand = Running THEN "no_change" ELSE "done", dev)}
                            \cup Refusal("invalid", "invalid")
    BY <2>1 DEF Replies
  <2> QED
    BY <2>1, <2>2 DEF Answered, Refusal, Reply
<1>6. CASE cmd = Cmd("commit")
  <2>1. cmd.do = "commit"
    BY <1>6 DEF Cmd
  <2>2. Replies(c, cmd) = CommitReplies(c)
    BY <2>1 DEF Replies
  <2> QED
    BY <2>1, <2>2 DEF Answered, CommitReplies, Refusal
<1> QED
  BY <1>1, <1>2, <1>3, <1>4, <1>5, <1>6 DEF CmdsOf

\* What an answer makes of the device; only a commit adds to the history.
LEMMA AnsweredDevice ==
  ASSUME CdTyped, NEW c \in Clients, NEW cmd \in CmdsOf(c), NEW o, Answered(c, cmd, o)
  PROVE  /\ o.dev \in Device /\ Len(o.dev.hist) \in 1..HistMax
         /\ o.reply \in {"done", "rejected", "conflict", "no_change", "committed", "invalid"}
         /\ \/ o.dev.hist = dev.hist
            \/ cmd = Cmd("commit") /\ dev.sync /\ dev.cand # Running /\ o = Reply("committed", Committed(c))
<1>1. /\ dev \in Device /\ Len(dev.hist) \in 1..HistMax
      /\ dev.cand \in Configs /\ dev.hist \in Seq(Entry) /\ dev.dirty \in BOOLEAN /\ dev.sync \in BOOLEAN
  BY DEF CdTyped, Device
<1>2. \A i \in 1..Len(dev.hist) : dev.hist[i].conf \in Configs
  <2> TAKE i \in 1..Len(dev.hist)
  <2>1. dev.hist[i] \in Entry
    BY <1>1
  <2> QED
    BY <2>1 DEF Entry
<1>3. Running \in Configs
  BY <1>1, <1>2 DEF Running
<1>4. ASSUME NEW conf \in Configs
      PROVE  Changed(conf) \in Device /\ Changed(conf).hist = dev.hist
  BY <1>1, <1>4 DEF Changed, Device
<1>5. ASSUME NEW r
      PROVE  /\ \A d : Reply(r, d).dev = d /\ Reply(r, d).reply = r
  BY DEF Reply
<1>6. CASE \E st \in Range(Batch[c]) : cmd = Stage(st)
  <2>1. PICK st \in Range(Batch[c]) : cmd = Stage(st)
    BY <1>6
  <2>2. cmd.do = "stage" /\ cmd.stmt = st
    BY <2>1 DEF Stage
  <2>3. Range(Batch[c]) \in Configs
    BY ConfigsGiven
  <2>4. {st} \in Configs
    BY <2>3 DEF Configs
  <2>5. dev.cand \cup {st} \in Configs
    BY <1>1, <2>4, ConfigsGiven
  <2>6. o = Reply("done", Changed(dev.cand \cup {st})) \/ o = Reply("rejected", dev)
    BY <2>2 DEF Answered
  <2> QED
    BY <1>1, <1>4, <1>5, <2>5, <2>6
<1>7. CASE \E conf \in {{}, Golden} : cmd = Load(conf)
  <2>1. PICK conf \in {{}, Golden} : cmd = Load(conf)
    BY <1>7
  <2>2. cmd.do = "load" /\ cmd.conf = conf
    BY <2>1 DEF Load
  <2>3. conf \in Configs
    BY ConfigsGiven
  <2>4. o = Reply("done", Changed(conf)) \/ o = Reply("rejected", dev)
    BY <2>2 DEF Answered
  <2> QED
    BY <1>1, <1>4, <1>5, <2>3, <2>4
<1>8. CASE cmd = Cmd("revert")
  <2>1. cmd.do = "revert"
    BY <1>8 DEF Cmd
  <2>2. RollbackId < Len(dev.hist) => dev.hist[RollbackId + 1].conf \in Configs
    BY <1>1, <1>2, Given
  <2>3. \/ RollbackId < Len(dev.hist) /\ o = Reply("done", Changed(dev.hist[RollbackId + 1].conf))
        \/ o = Reply("rejected", dev)
    BY <2>1 DEF Answered
  <2> QED
    BY <1>1, <1>4, <1>5, <2>2, <2>3
<1>9. CASE cmd = Cmd("discard")
  <2>1. cmd.do = "discard"
    BY <1>9 DEF Cmd
  <2> DEFINE d == [dev EXCEPT !.cand = Running, !.dirty = FALSE, !.sync = TRUE]
  <2>2. d \in Device /\ d.hist = dev.hist
    BY <1>1, <1>3 DEF Device
  <2>3. o = Reply("done", d)
    BY <2>1 DEF Answered
  <2> HIDE DEF d
  <2> QED
    BY <1>1, <1>5, <2>2, <2>3
<1>10. CASE cmd = Cmd("check")
  <2>1. cmd.do = "check"
    BY <1>10 DEF Cmd
  <2> QED
    BY <1>1, <2>1 DEF Answered
<1>11. CASE cmd = Cmd("commit")
  <2>1. cmd.do = "commit"
    BY <1>11 DEF Cmd
  <2> DEFINE d == Committed(c)
             h == Promise!Push(dev.hist, dev.cand, c)
  <2>2. h \in Seq(Entry) /\ Len(h) \in 1..HistMax
    BY <1>1, Pushed
  <2> HIDE DEF h
  <2>3. d = [cand |-> dev.cand, dirty |-> FALSE, sync |-> TRUE, hist |-> h]
    BY DEF Committed, h
  <2>4. d \in Device /\ d.hist = h
    BY <1>1, <2>2, <2>3 DEF Device
  <2> HIDE DEF d
  <2>5. \/ o = Reply("conflict", dev) \/ o = Reply("no_change", dev) \/ o = Reply("invalid", dev)
        \/ dev.sync /\ dev.cand # Running /\ o = Reply("committed", d)
    BY <2>1 DEF Answered, d
  <2> QED
    BY <1>1, <1>5, <1>11, <2>2, <2>4, <2>5 DEF d
<1> QED
  BY <1>6, <1>7, <1>8, <1>9, <1>10, <1>11 DEF CmdsOf
-----------------------------------------------------------------------------
(* What one command of a call changes.                                     *)

Ends == {"done", "rejected", "conflict", "no_change", "committed", "invalid", "timeout", "lost"}

\* The call returns v, or goes to clean up after it.
CallEnds(c, v) ==
  /\ verdict' = [verdict EXCEPT ![c] = v]
  /\ at' = [at EXCEPT ![c] = 1] /\ attempt' = [attempt EXCEPT ![c] = 1]
  /\ \/ /\ pc[c] = "run" /\ CleansUp(c, v)
        /\ pc' = [pc EXCEPT ![c] = "cleanup"] /\ lock' = lock
     \/ /\ ~(pc[c] = "run" /\ CleansUp(c, v))
        /\ pc' = [pc EXCEPT ![c] = "idle"] /\ lock' = [lock EXCEPT ![LockOf[c]] = Nobody]

\* How the end of a sequence is judged.
LEMMA Ending ==
  ASSUME CdTyped, CdSteps, NEW c \in Clients, Busy(c), NEW end \in Ends, NEW f \in BOOLEAN,
         End(c, end, f)
  PROVE  \E v \in Verdicts \ {"none"} :
           /\ CallEnds(c, v)
           /\ pc[c] = "cleanup" => v = verdict[c]
           /\ pc[c] = "run" => v = Judge(c, end, f)
<1> DEFINE v == IF pc[c] = "cleanup" THEN verdict[c] ELSE Judge(c, end, f)
<1>1. Judge(c, end, f) \in Verdicts \ {"none"}
  <2>1. ApplyVerdict(end) \in {"ok", "conflict", "error"}
    BY DEF ApplyVerdict
  <2>2. /\ EditVerdict(end) \in {"ok", "conflict", "error", "aborted"}
        /\ RestoreVerdict(end, f) \in {"ok", "conflict", "error"}
        /\ DryVerdict(f) \in {"ok", "error"}
    BY <2>1 DEF EditVerdict, RestoreVerdict, DryVerdict
  <2>3. op[c] \in {"edit", "check", "compare", "lofd", "rollback", "restore"}
    BY DEF CdTyped, OpNames
  <2>4. CASE end \in {"timeout", "lost"}
    BY <2>4 DEF Judge, Verdicts
  <2>5. CASE end \notin {"timeout", "lost"} /\ op[c] = "edit"
    BY <2>2, <2>5 DEF Judge, Verdicts
  <2>6. CASE end \notin {"timeout", "lost"} /\ op[c] \in {"check", "compare"}
    BY <2>2, <2>6 DEF Judge, Verdicts
  <2>7. CASE end \notin {"timeout", "lost"} /\ op[c] = "restore"
    BY <2>2, <2>7 DEF Judge, Verdicts
  <2>8. CASE end \notin {"timeout", "lost"} /\ op[c] \in {"lofd", "rollback"}
    BY <2>1, <2>8 DEF Judge, Verdicts
  <2> QED
    BY <2>3, <2>4, <2>5, <2>6, <2>7, <2>8
<1>2. v \in Verdicts \ {"none"}
  BY <1>1 DEF CdTyped, CdSteps, Busy
<1> DEFINE more == pc[c] = "run" /\ CleansUp(c, v)
<1>3. /\ verdict' = [verdict EXCEPT ![c] = v]
      /\ pc' = [pc EXCEPT ![c] = IF more THEN "cleanup" ELSE "idle"]
      /\ lock' = IF more THEN lock ELSE [lock EXCEPT ![LockOf[c]] = Nobody]
      /\ at' = [at EXCEPT ![c] = 1] /\ attempt' = [attempt EXCEPT ![c] = 1]
  BY DEF End
<1>4. CallEnds(c, v)
  <2> HIDE DEF v
  <2> QED
    BY <1>3 DEF CallEnds
<1>5. (pc[c] = "cleanup" => v = verdict[c]) /\ (pc[c] = "run" => v = Judge(c, end, f))
  OBVIOUS
<1> HIDE DEF v
<1> QED
  BY <1>2, <1>4, <1>5

\* The device goes to d, on a command of c or on none.
DeviceDoes(c, d) ==
  /\ d \in Device /\ Len(d.hist) \in 1..HistMax
  /\ d = dev \/ \E o : Answered(c, Sent(c), o) /\ o.dev = d
  /\ dev' = d
  /\ landed' = [landed EXCEPT ![c] = @ \/ d.hist # dev.hist]

\* On to the next command.
GoesOn(c) ==
  /\ at[c] < Len(Program(c)) /\ at' = [at EXCEPT ![c] = @ + 1]
  /\ UNCHANGED <<lock, pc, attempt, verdict>>

\* The whole sequence once more.
StartsOver(c) ==
  /\ at' = [at EXCEPT ![c] = 1] /\ attempt' = [attempt EXCEPT ![c] = 2]
  /\ UNCHANGED <<lock, pc, verdict>>

Works(c) == Exec(c) \/ Timeout(c) \/ Break(c) \/ Refused(c)

\* Exec, answered with o.
Gets(c, o) ==
  /\ Answered(c, Sent(c), o)
  /\ DeviceDoes(c, o.dev)
  /\ \/ GoesOn(c) /\ ~Stops(c, o.reply)
     \/ /\ Stops(c, o.reply) \/ at[c] = Len(Program(c))
        /\ \E f \in BOOLEAN, v \in Verdicts \ {"none"} :
             /\ CallEnds(c, v)
             /\ pc[c] = "cleanup" => v = verdict[c]
             /\ pc[c] = "run" => v = Judge(c, o.reply, f)

\* A command whose reply arrives.
LEMMA Seen ==
  ASSUME CdTyped, CdSteps, NEW c \in Clients, Exec(c)
  PROVE  /\ Busy(c) /\ \E o : Gets(c, o)
         /\ flaw' \in [Clients -> BOOLEAN] /\ UNCHANGED <<op, goal, budget>>
<1>1. Busy(c)
  BY DEF Exec, Busy
<1>2. Sent(c) \in CmdsOf(c)
  BY <1>1, Sends
<1>3. PICK o \in Replies(c, Program(c)[at[c]]) :
        \E f \in Flaws(c, o.reply) :
          /\ DeviceGoes(c, o.dev)
          /\ flaw' = [flaw EXCEPT ![c] = f]
          /\ IF Stops(c, o.reply) \/ at[c] = Len(Program(c))
             THEN End(c, o.reply, f)
             ELSE /\ at' = [at EXCEPT ![c] = @ + 1]
                  /\ UNCHANGED <<lock, pc, attempt, verdict>>
  BY DEF Exec
<1>f. PICK f \in Flaws(c, o.reply) :
        /\ DeviceGoes(c, o.dev)
        /\ flaw' = [flaw EXCEPT ![c] = f]
        /\ IF Stops(c, o.reply) \/ at[c] = Len(Program(c))
           THEN End(c, o.reply, f)
           ELSE /\ at' = [at EXCEPT ![c] = @ + 1]
                /\ UNCHANGED <<lock, pc, attempt, verdict>>
  BY <1>3
<1>4. Answered(c, Sent(c), o)
  BY <1>2, <1>3, Answers DEF Sent
<1>5. /\ o.dev \in Device /\ Len(o.dev.hist) \in 1..HistMax /\ o.reply \in Ends
  BY <1>2, <1>4, AnsweredDevice DEF Ends
<1>6. DeviceDoes(c, o.dev)
  BY <1>f, <1>4, <1>5 DEF DeviceDoes, DeviceGoes
<1>7. f \in BOOLEAN
  BY DEF CdTyped, Flaws
<1>8. flaw' = [flaw EXCEPT ![c] = f] /\ flaw \in [Clients -> BOOLEAN]
  BY <1>f DEF CdTyped
<1>9. flaw' \in [Clients -> BOOLEAN]
  BY <1>7, <1>8
<1>10. at[c] \in 1..Len(Program(c)) /\ Len(Program(c)) \in Nat
  BY <1>1, Sends, Given DEF CdSteps, SentIs, Busy, CdTyped, OpNames
<1>11. CASE Stops(c, o.reply) \/ at[c] = Len(Program(c))
  <2>1. End(c, o.reply, f)
    BY <1>f, <1>11
  <2>2. PICK v \in Verdicts \ {"none"} : /\ CallEnds(c, v)
                                         /\ pc[c] = "cleanup" => v = verdict[c]
                                         /\ pc[c] = "run" => v = Judge(c, o.reply, f)
    BY <1>1, <1>5, <1>7, <2>1, Ending
  <2>3. Gets(c, o)
    BY <1>4, <1>6, <1>7, <1>11, <2>2 DEF Gets
  <2> QED
    BY <1>1, <1>9, <2>3 DEF Exec
<1>12. CASE ~(Stops(c, o.reply) \/ at[c] = Len(Program(c)))
  <2>1. GoesOn(c)
    BY <1>f, <1>10, <1>12 DEF GoesOn
  <2>2. Gets(c, o)
    BY <1>4, <1>6, <1>12, <2>1 DEF Gets
  <2> QED
    BY <1>1, <1>9, <2>2 DEF Exec
<1> QED
  BY <1>11, <1>12

\* A command whose reply does not.
LEMMA Unseen ==
  ASSUME CdTyped, CdSteps, NEW c \in Clients, Busy(c), ActsUnseen(c)
  PROVE  DeviceDoes(c, dev')
<1>1. Sent(c) \in CmdsOf(c)
  BY Sends
<1>2. PICK d \in {dev} \cup {o.dev : o \in Replies(c, Program(c)[at[c]])} : DeviceGoes(c, d)
  BY DEF ActsUnseen
<1>3. CASE d = dev
  BY <1>2, <1>3 DEF DeviceGoes, DeviceDoes, CdTyped
<1>4. CASE \E o \in Replies(c, Program(c)[at[c]]) : d = o.dev
  <2>1. PICK o \in Replies(c, Sent(c)) : d = o.dev
    BY <1>4 DEF Sent
  <2>2. Answered(c, Sent(c), o)
    BY <1>1, Answers
  <2>3. d \in Device /\ Len(d.hist) \in 1..HistMax
    BY <1>1, <2>1, <2>2, AnsweredDevice
  <2> QED
    BY <1>2, <2>1, <2>2, <2>3 DEF DeviceGoes, DeviceDoes
<1> QED
  BY <1>2, <1>3, <1>4

\* A step of a call at work.
LEMMA Worked ==
  ASSUME CdTyped, CdSteps, NEW c \in Clients, Works(c)
  PROVE  /\ Busy(c) /\ DeviceDoes(c, dev')
         /\ flaw' \in [Clients -> BOOLEAN] /\ UNCHANGED <<op, goal, budget>>
         /\ \/ GoesOn(c) /\ Exec(c)
            \/ StartsOver(c)
            \/ \E v \in Verdicts \ {"none"} :
                 /\ CallEnds(c, v)
                 /\ pc[c] = "cleanup" => v = verdict[c]
<1>1. CASE Exec(c)
  <2>1. Busy(c) /\ flaw' \in [Clients -> BOOLEAN] /\ UNCHANGED <<op, goal, budget>>
    BY <1>1, Seen
  <2>2. PICK o : Gets(c, o)
    BY <1>1, Seen
  <2>3. DeviceDoes(c, dev')
    BY <2>2 DEF Gets, DeviceDoes
  <2> QED
    BY <1>1, <2>1, <2>2, <2>3 DEF Gets
<1>2. CASE Timeout(c)
  <2>1. Busy(c) /\ ActsUnseen(c) /\ End(c, "timeout", flaw[c])
    BY <1>2 DEF Timeout, Busy
  <2>2. DeviceDoes(c, dev')
    BY <2>1, Unseen
  <2>3. flaw[c] \in BOOLEAN /\ "timeout" \in Ends
    BY DEF CdTyped, Ends
  <2>4. PICK v \in Verdicts \ {"none"} : CallEnds(c, v) /\ (pc[c] = "cleanup" => v = verdict[c])
    BY <2>1, <2>3, Ending
  <2> QED
    BY <1>2, <2>1, <2>2, <2>4 DEF Timeout, CdTyped
<1>3. CASE Break(c)
  <2>1. Busy(c) /\ ActsUnseen(c)
    BY <1>3 DEF Break, Busy
  <2>2. DeviceDoes(c, dev')
    BY <2>1, Unseen
  <2>3. flaw' \in [Clients -> BOOLEAN] /\ UNCHANGED <<op, goal, budget>>
    BY <1>3 DEF Break, CdTyped
  <2>4. CASE attempt[c] = 1
    BY <1>3, <2>1, <2>2, <2>3, <2>4 DEF Break, StartsOver
  <2>5. CASE attempt[c] # 1
    <3>1. End(c, "lost", FALSE) /\ "lost" \in Ends
      BY <1>3, <2>5 DEF Break, Ends
    <3>2. PICK v \in Verdicts \ {"none"} : CallEnds(c, v) /\ (pc[c] = "cleanup" => v = verdict[c])
      BY <2>1, <3>1, Ending
    <3> QED
      BY <2>1, <2>2, <2>3, <3>2
  <2> QED
    BY <2>4, <2>5
<1>4. CASE Refused(c)
  <2>1. Busy(c) /\ End(c, "lost", FALSE) /\ "lost" \in Ends
    BY <1>4 DEF Refused, Busy, Ends
  <2>2. PICK v \in Verdicts \ {"none"} : CallEnds(c, v) /\ (pc[c] = "cleanup" => v = verdict[c])
    BY <2>1, Ending
  <2>3. /\ UNCHANGED <<dev, op, flaw, goal, landed, budget>>
        /\ landed = [landed EXCEPT ![c] = @ \/ dev.hist # dev.hist]
    BY <1>4 DEF Refused, CdTyped
  <2>4. DeviceDoes(c, dev')
    BY <2>3 DEF DeviceDoes, CdTyped
  <2> QED
    BY <2>1, <2>2, <2>3, <2>4 DEF CdTyped
<1> QED
  BY <1>1, <1>2, <1>3, <1>4 DEF Works

\* Only its own call changes what a call is at.
LEMMA ProgramKept ==
  ASSUME NEW c \in Clients, pc'[c] = pc[c], op'[c] = op[c]
  PROVE  Program(c)' = Program(c)
BY DEF Program, EditSteps, CheckSteps, CompareSteps, FactorySteps, RollbackSteps, RestoreSteps,
       Staging

\* A call that sets out has a first command to send.
LEMMA FirstCommand ==
  ASSUME NEW c \in Clients, pc'[c] = "run" \/ pc'[c] = "cleanup", op'[c] \in OpNames
  PROVE  1 \in 1..Len(Program(c)')
<1>1. op'[c] \in {"edit", "check", "compare", "lofd", "rollback", "restore"}
  BY DEF OpNames
<1>2. CASE pc'[c] = "cleanup"
  <2>1. Program(c)' = <<Cmd("discard")>>
    BY <1>2 DEF Program, Cmd
  <2> QED
    BY <2>1
<1>3. CASE pc'[c] = "run" /\ op'[c] = "edit"
  <2>1. Program(c)' = EditSteps(c)
    BY <1>3 DEF Program, EditSteps, Staging
  <2> QED
    BY <2>1, Programs
<1>4. CASE pc'[c] = "run" /\ op'[c] = "check"
  <2>1. Program(c)' = CheckSteps(c)
    BY <1>4 DEF Program, CheckSteps, Staging
  <2> QED
    BY <2>1, Programs
<1>5. CASE pc'[c] = "run" /\ op'[c] = "compare"
  <2>1. Program(c)' = CompareSteps(c)
    BY <1>5 DEF Program, CompareSteps, Staging
  <2> QED
    BY <2>1, Programs
<1>6. CASE pc'[c] = "run" /\ op'[c] = "lofd"
  <2>1. Program(c)' = FactorySteps
    BY <1>6 DEF Program, FactorySteps
  <2> QED
    BY <2>1, Programs
<1>7. CASE pc'[c] = "run" /\ op'[c] = "rollback"
  <2>1. Program(c)' = RollbackSteps
    BY <1>7 DEF Program, RollbackSteps
  <2> QED
    BY <2>1, Programs
<1>8. CASE pc'[c] = "run" /\ op'[c] = "restore"
  <2>1. Program(c)' = RestoreSteps(c)
    BY <1>8 DEF Program, RestoreSteps, Staging
  <2> QED
    BY <2>1, Programs
<1> QED
  BY <1>1, <1>2, <1>3, <1>4, <1>5, <1>6, <1>7, <1>8
-----------------------------------------------------------------------------
(* Types, places and locks, whatever the settings.                         *)

\* The history at the start.
LEMMA InitHistTyped ==
  Promise!InitHist \in Seq(Entry) /\ Len(Promise!InitHist) = Len(Before) /\ Len(Before) >= 1
  /\ Promise!InitHist[1].conf = Before[1] /\ Before[1] \in Configs
<1>1. DOMAIN Before = 1..Len(Before) /\ Len(Before) \in Nat \ {0}
  BY Given
<1>2. \A i \in 1..Len(Before) : [conf |-> Before[i], by |-> Outsider] \in Entry
  BY <1>1, ConfigsGiven DEF Entry
<1>3. Promise!InitHist = [i \in 1..Len(Before) |-> [conf |-> Before[i], by |-> Outsider]]
  BY <1>1 DEF Promise!InitHist
<1>4. Promise!InitHist \in Seq(Entry) /\ Len(Promise!InitHist) = Len(Before)
  BY <1>1, <1>2, <1>3
<1>5. Promise!InitHist[1].conf = Before[1]
  BY <1>1, <1>3
<1> QED
  BY <1>1, <1>4, <1>5, ConfigsGiven

\* The invariant holds at the start.
LEMMA CdInit ==
  ASSUME Init
  PROVE  CdInv
<1>1. dev = [cand |-> Before[1], dirty |-> FALSE, sync |-> TRUE, hist |-> Promise!InitHist]
  BY DEF Init
<1>2. dev \in Device /\ Len(dev.hist) \in 1..HistMax
  BY <1>1, InitHistTyped, Given DEF Device
<1>3. setting \in Settings /\ setting.calls \in Nat
  BY Given DEF Init
<1>4. budget \in [Clients \cup {Outsider} -> Nat]
  BY <1>3, Given DEF Init
<1>5. CdTyped
  BY <1>2, <1>3, <1>4, Given, ConfigsGiven DEF Init, CdTyped, OpNames, Verdicts
<1>6. CdSteps
  BY DEF Init, CdSteps, Busy
<1>7. CdLocks
  BY Given DEF Init, CdLocks, Busy
<1> QED
  BY <1>5, <1>6, <1>7 DEF CdInv

\* A call that starts keeps the invariant.
LEMMA CdStart ==
  ASSUME CdInv, NEW c \in Clients, NEW o \in Ops[c], Start(c, o), setting' = setting
  PROVE  CdInv'
<1>1. o \in OpNames
  BY Given DEF CdInv, CdTyped, Ops
<1>2. CdTyped'
  BY <1>1, Given DEF CdInv, CdTyped, Start
<1>3. pc' = [pc EXCEPT ![c] = "wait"] /\ op' = [op EXCEPT ![c] = o] /\ pc[c] = "idle"
  BY DEF Start
<1>4. ASSUME NEW d \in Clients, d # c
      PROVE  pc'[d] = pc[d] /\ op'[d] = op[d] /\ Program(d)' = Program(d)
  BY <1>3, <1>4, ProgramKept DEF CdInv, CdTyped
<1>5. pc'[c] = "wait" /\ op'[c] = o
  BY <1>3 DEF CdInv, CdTyped
<1>6. CdSteps'
  BY <1>4, <1>5 DEF CdInv, CdSteps, Start, Busy, Ops
<1>7. CdLocks'
  BY <1>3, <1>4, <1>5 DEF CdInv, CdLocks, Start, Busy
<1> QED
  BY <1>2, <1>6, <1>7 DEF CdInv

\* A call that gets its lock keeps the invariant.
LEMMA CdAcquire ==
  ASSUME CdInv, NEW c \in Clients, Acquire(c), setting' = setting
  PROVE  CdInv'
<1>1. Promise!Result(dev.hist, c, op[c]) \in Configs
  BY ResultIsConfig DEF CdInv, CdTyped, Device
<1>2. CdTyped'
  <2>1. goal' \in [Clients -> Configs]
    BY <1>1 DEF CdInv, CdTyped, Acquire
  <2>2. verdict' \in [Clients -> Verdicts]
    BY DEF CdInv, CdTyped, Acquire, Verdicts
  <2> QED
    BY <2>1, <2>2, Given DEF CdInv, CdTyped, Acquire
<1>3. /\ pc' = [pc EXCEPT ![c] = "run"] /\ op' = op /\ pc[c] = "wait" /\ lock[LockOf[c]] = Nobody
      /\ lock' = [lock EXCEPT ![LockOf[c]] = c] /\ at' = [at EXCEPT ![c] = 1]
      /\ verdict' = [verdict EXCEPT ![c] = "none"]
  BY DEF Acquire
<1>4. ASSUME NEW d \in Clients, d # c
      PROVE  pc'[d] = pc[d] /\ op'[d] = op[d] /\ Program(d)' = Program(d) /\ at'[d] = at[d]
             /\ verdict'[d] = verdict[d]
  BY <1>3, <1>4, ProgramKept DEF CdInv, CdTyped
<1>5. pc'[c] = "run" /\ op'[c] = op[c] /\ at'[c] = 1 /\ verdict'[c] = "none" /\ op[c] \in OpNames
  BY <1>3 DEF CdInv, CdTyped
<1>6. 1 \in 1..Len(Program(c)')
  BY <1>5, FirstCommand
<1>7. CdSteps'
  BY <1>3, <1>4, <1>5, <1>6 DEF CdInv, CdSteps, Busy, Ops
<1>8. CdLocks'
  <2>1. lock'[LockOf[c]] = c
    BY <1>3, Given DEF CdInv, CdTyped
  <2>2. ASSUME NEW d \in Clients, d # c
        PROVE  (pc'[d] \in {"run", "cleanup"}) <=> lock'[LockOf[d]] = d
    <3>1. (pc[d] \in {"run", "cleanup"}) <=> lock[LockOf[d]] = d
      BY DEF CdInv, CdLocks, Busy
    <3>2. CASE LockOf[d] = LockOf[c]
      <4>1. lock[LockOf[d]] # d /\ lock'[LockOf[d]] # d
        BY <1>3, <2>1, <2>2, <3>2, Given
      <4> QED
        BY <1>4, <2>2, <3>1, <4>1
    <3>3. CASE LockOf[d] # LockOf[c]
      <4>1. lock'[LockOf[d]] = lock[LockOf[d]]
        BY <1>3, <3>3, Given DEF CdInv, CdTyped
      <4> QED
        BY <1>4, <2>2, <3>1, <4>1
    <3> QED
      BY <3>2, <3>3
  <2> QED
    BY <1>5, <2>1, <2>2 DEF CdLocks, Busy
<1> QED
  BY <1>2, <1>7, <1>8 DEF CdInv

\* What a step of c leaves of the other calls.
LEMMA OthersKept ==
  ASSUME CdTyped, NEW c \in Clients, NEW d \in Clients, d # c,
         UNCHANGED op,
         GoesOn(c) \/ StartsOver(c) \/ \E v : CallEnds(c, v)
  PROVE  /\ pc'[d] = pc[d] /\ op'[d] = op[d] /\ at'[d] = at[d] /\ verdict'[d] = verdict[d]
         /\ Program(d)' = Program(d)
<1>1. pc'[d] = pc[d] /\ op'[d] = op[d] /\ at'[d] = at[d] /\ verdict'[d] = verdict[d]
  BY DEF CdTyped, GoesOn, StartsOver, CallEnds
<1> QED
  BY <1>1, ProgramKept

\* A command keeps the invariant, however it ends.
LEMMA CdWorks ==
  ASSUME CdInv, NEW c \in Clients, Works(c), setting' = setting
  PROVE  CdInv'
<1>1. /\ Busy(c) /\ DeviceDoes(c, dev')
      /\ flaw' \in [Clients -> BOOLEAN] /\ UNCHANGED <<op, goal, budget>>
      /\ \/ GoesOn(c)
         \/ StartsOver(c)
         \/ \E v \in Verdicts \ {"none"} :
              /\ CallEnds(c, v)
              /\ pc[c] = "cleanup" => v = verdict[c]
  BY Worked DEF CdInv
<1>2. /\ dev' \in Device /\ Len(dev'.hist) \in 1..HistMax /\ landed' \in [Clients -> BOOLEAN]
  BY <1>1 DEF DeviceDoes, CdInv, CdTyped
<1>3. pc[c] \in {"run", "cleanup"} /\ lock[LockOf[c]] = c /\ op[c] \in OpNames /\ op'[c] = op[c]
  BY <1>1 DEF CdInv, CdLocks, Busy, CdTyped
<1>4. ASSUME NEW d \in Clients, d # c
      PROVE  /\ pc'[d] = pc[d] /\ op'[d] = op[d] /\ at'[d] = at[d] /\ verdict'[d] = verdict[d]
             /\ Program(d)' = Program(d)
  BY <1>1, <1>4, OthersKept DEF CdInv
<1>5. CASE GoesOn(c)
  <2>1. /\ at' \in [Clients -> Nat \ {0}] /\ at'[c] = at[c] + 1 /\ at[c] \in Nat \ {0}
        /\ pc' = pc /\ lock' = lock /\ verdict' = verdict /\ attempt' = attempt
    BY <1>5 DEF GoesOn, CdInv, CdTyped
  <2>2. CdTyped'
    BY <1>1, <1>2, <2>1 DEF CdInv, CdTyped
  <2>3. at[c] + 1 \in 1..Len(Program(c))
    BY <1>3, <1>5, <2>1 DEF GoesOn, CdInv, CdSteps, Busy
  <2>4. Program(c)' = Program(c)
    BY <1>3, <2>1, ProgramKept
  <2>5. CdSteps'
    BY <1>1, <1>4, <2>1, <2>3, <2>4 DEF CdInv, CdSteps, Busy, Ops
  <2>6. CdLocks'
    BY <2>1 DEF CdInv, CdLocks, Busy
  <2> QED
    BY <2>2, <2>5, <2>6 DEF CdInv
<1>6. CASE StartsOver(c)
  <2>1. /\ at' \in [Clients -> Nat \ {0}] /\ at'[c] = 1 /\ attempt' \in [Clients -> {1, 2}]
        /\ pc' = pc /\ lock' = lock /\ verdict' = verdict
    BY <1>6 DEF StartsOver, CdInv, CdTyped
  <2>2. CdTyped'
    BY <1>1, <1>2, <2>1 DEF CdInv, CdTyped
  <2>3. 1 \in 1..Len(Program(c)')
    BY <1>3, <2>1, FirstCommand
  <2>5. CdSteps'
    BY <1>1, <1>4, <2>1, <2>3 DEF CdInv, CdSteps, Busy, Ops
  <2>6. CdLocks'
    BY <2>1 DEF CdInv, CdLocks, Busy
  <2> QED
    BY <2>2, <2>5, <2>6 DEF CdInv
<1>7. CASE \E v \in Verdicts \ {"none"} : CallEnds(c, v) /\ (pc[c] = "cleanup" => v = verdict[c])
  <2>1. PICK v \in Verdicts \ {"none"} : CallEnds(c, v) /\ (pc[c] = "cleanup" => v = verdict[c])
    BY <1>7
  <2>2. /\ at' \in [Clients -> Nat \ {0}] /\ at'[c] = 1 /\ attempt' \in [Clients -> {1, 2}]
        /\ verdict' \in [Clients -> Verdicts] /\ verdict'[c] = v
    BY <2>1 DEF CallEnds, CdInv, CdTyped
  <2>3. CASE pc'[c] = "cleanup"
    <3>1. /\ pc' = [pc EXCEPT ![c] = "cleanup"] /\ lock' = lock /\ CleansUp(c, v) /\ pc[c] = "run"
      BY <2>1, <2>3 DEF CallEnds, CdInv, CdTyped
    <3>2. CdTyped'
      BY <1>1, <1>2, <2>2, <3>1 DEF CdInv, CdTyped
    <3>3. 1 \in 1..Len(Program(c)')
      BY <1>3, <2>3, FirstCommand
    <3>4. v \notin {"ok", "none"}
      BY <3>1 DEF CleansUp
    <3>5. CdSteps'
      BY <1>1, <1>3, <1>4, <2>2, <2>3, <3>1, <3>3, <3>4 DEF CdInv, CdSteps, Busy, Ops
    <3>6. CdLocks'
      BY <1>3, <1>4, <2>3, <3>1 DEF CdInv, CdLocks, Busy
    <3> QED
      BY <3>2, <3>5, <3>6 DEF CdInv
  <2>4. CASE pc'[c] # "cleanup"
    <3>1. pc' = [pc EXCEPT ![c] = "idle"] /\ lock' = [lock EXCEPT ![LockOf[c]] = Nobody] /\ pc'[c] = "idle"
      BY <2>1, <2>4 DEF CallEnds, CdInv, CdTyped
    <3>2. CdTyped'
      BY <1>1, <1>2, <2>2, <3>1 DEF CdInv, CdTyped
    <3>3. CdSteps'
      BY <1>1, <1>4, <3>1 DEF CdInv, CdSteps, Busy, Ops
    <3>4. lock'[LockOf[c]] = Nobody
      BY <3>1, Given DEF CdInv, CdTyped
    <3>5. ASSUME NEW d \in Clients, d # c
          PROVE  (pc'[d] \in {"run", "cleanup"}) <=> lock'[LockOf[d]] = d
      <4>1. (pc[d] \in {"run", "cleanup"}) <=> lock[LockOf[d]] = d
        BY DEF CdInv, CdLocks, Busy
      <4>2. CASE LockOf[d] = LockOf[c]
        <5>1. lock[LockOf[d]] # d /\ lock'[LockOf[d]] # d
          BY <1>3, <3>4, <3>5, <4>2, Given
        <5> QED
          BY <1>4, <3>5, <4>1, <5>1
      <4>3. CASE LockOf[d] # LockOf[c]
        <5>1. lock'[LockOf[d]] = lock[LockOf[d]]
          BY <3>1, <4>3, Given DEF CdInv, CdTyped
        <5> QED
          BY <1>4, <3>5, <4>1, <5>1
      <4> QED
        BY <4>2, <4>3
    <3>6. CdLocks'
      BY <3>1, <3>4, <3>5, Given DEF CdLocks, Busy
    <3> QED
      BY <3>2, <3>3, <3>6 DEF CdInv
  <2> QED
    BY <2>3, <2>4
<1> QED
  BY <1>1, <1>5, <1>6, <1>7

\* What a commit from outside makes of the device.
LEMMA Outside ==
  ASSUME CdTyped, NEW conf \in SUBSET Promise!Statements, OutsideCommit(conf)
  PROVE  /\ dev' \in Device /\ Len(dev'.hist) \in 1..HistMax
         /\ dev'.hist = Promise!Push(dev.hist, conf, Outsider)
         /\ dev'.hist[1] = [conf |-> conf, by |-> Outsider] /\ Running' = conf
         /\ dev'.cand = (IF dev.dirty THEN dev.cand ELSE conf)
         /\ dev'.dirty = dev.dirty /\ dev'.sync = ~dev.dirty
         /\ Faults # {}
<1>1. conf \in Configs
  BY DEF Configs
<1> DEFINE h == Promise!Push(dev.hist, conf, Outsider)
<1>2. h \in Seq(Entry) /\ Len(h) \in 1..HistMax /\ h[1] = [conf |-> conf, by |-> Outsider]
  BY <1>1, Pushed DEF CdTyped, Device
<1> HIDE DEF h
<1>3. dev' = [cand |-> IF dev.dirty THEN dev.cand ELSE conf,
              dirty |-> dev.dirty, sync |-> ~dev.dirty, hist |-> h]
  BY DEF OutsideCommit, h
<1>4. dev.cand \in Configs /\ dev.dirty \in BOOLEAN
  BY DEF CdTyped, Device
<1> QED
  BY <1>1, <1>2, <1>3, <1>4 DEF Device, Running, h, OutsideCommit

\* A commit from outside keeps the invariant.
LEMMA CdOutside ==
  ASSUME CdInv, NEW conf \in SUBSET Promise!Statements, OutsideCommit(conf), setting' = setting
  PROVE  CdInv'
<1>1. dev' \in Device /\ Len(dev'.hist) \in 1..HistMax
  BY Outside DEF CdInv
<1>2. budget' \in [Clients \cup {Outsider} -> Nat]
  BY DEF CdInv, CdTyped, OutsideCommit
<1>3. UNCHANGED <<lock, pc, op, at, attempt, flaw, verdict, goal, landed>>
  BY DEF OutsideCommit
<1>4. \A c \in Clients : Program(c)' = Program(c)
  BY <1>3, ProgramKept
<1> QED
  BY <1>1, <1>2, <1>3, <1>4 DEF CdInv, CdTyped, CdSteps, CdLocks, Busy, Ops

\* Every step keeps the invariant.
LEMMA CdNext ==
  ASSUME CdInv, [Next]_vars
  PROVE  CdInv'
<1>1. CASE \E c \in Clients : (\E o \in Ops[c] : Start(c, o)) /\ UNCHANGED setting
  BY <1>1, CdStart
<1>2. CASE \E c \in Clients : Acquire(c) /\ UNCHANGED setting
  BY <1>2, CdAcquire
<1>3. CASE \E c \in Clients : Works(c) /\ UNCHANGED setting
  BY <1>3, CdWorks
<1>4. CASE \E conf \in SUBSET Promise!Statements : OutsideCommit(conf) /\ UNCHANGED setting
  BY <1>4, CdOutside
<1>5. CASE UNCHANGED vars
  <2>1. \A c \in Clients : Program(c)' = Program(c)
    BY <1>5, ProgramKept DEF vars
  <2> QED
    BY <1>5, <2>1 DEF CdInv, CdTyped, CdSteps, CdLocks, Busy, Ops, vars
<1> QED
  BY <1>1, <1>2, <1>3, <1>4, <1>5 DEF Next, Step, Works

\* The types, places and locks of every behaviour.
THEOREM CdInvariance == Spec => []CdInv
BY CdInit, CdNext, PTL DEF Spec

\* The variables have their types, whatever the settings.
THEOREM CdTypeCorrect == Spec => []TypeOK
<1>1. ASSUME CdInv
      PROVE  TypeOK
  <2>1. \A i \in DOMAIN dev.hist : /\ dev.hist[i].conf \in Configs
                                   /\ dev.hist[i].by \in Clients \cup {Outsider}
    <3> TAKE i \in DOMAIN dev.hist
    <3>1. dev.hist[i] \in Entry
      BY <1>1 DEF CdInv, CdTyped, Device
    <3> QED
      BY <3>1 DEF Entry
  <2> QED
    BY <1>1, <2>1 DEF CdInv, CdTyped, Device, TypeOK
<1> QED
  BY <1>1, CdInvariance, PTL
-----------------------------------------------------------------------------
(* Each command, by the fields of the device it changes.                   *)

\* A changed candidate, by its fields.
LEMMA ChangedFields ==
  ASSUME CdTyped
  PROVE  /\ \A r, d : Reply(r, d).reply = r /\ Reply(r, d).dev = d
         /\ \A conf : /\ Changed(conf).cand = conf /\ Changed(conf).dirty
                      /\ Changed(conf).sync = dev.sync /\ Changed(conf).hist = dev.hist
<1>1. \A r, d : Reply(r, d).reply = r /\ Reply(r, d).dev = d
  BY DEF Reply
<1>2. \A conf : /\ Changed(conf).cand = conf /\ Changed(conf).dirty
                /\ Changed(conf).sync = dev.sync /\ Changed(conf).hist = dev.hist
  BY DEF Changed, CdTyped, Device
<1> QED
  BY <1>1, <1>2

\* load/set of a statement: it is in the candidate, or refused.
LEMMA OnStage ==
  ASSUME CdTyped, NEW c, NEW st, NEW o, Answered(c, Stage(st), o)
  PROVE  \/ /\ o.reply = "done" /\ o.dev.cand = dev.cand \cup {st} /\ o.dev.dirty
            /\ o.dev.sync = dev.sync /\ o.dev.hist = dev.hist
         \/ o.reply = "rejected" /\ o.dev = dev /\ "reject" \in Faults
<1>1. Stage(st).do = "stage" /\ Stage(st).stmt = st
  BY DEF Stage
<1>2. \/ o = Reply("done", Changed(dev.cand \cup {st}))
      \/ o = Reply("rejected", dev) /\ "reject" \in Faults
  BY <1>1 DEF Answered
<1> QED
  BY <1>2, ChangedFields

\* A loaded configuration replaces the candidate, or is refused.
LEMMA OnLoad ==
  ASSUME CdTyped, NEW c, NEW conf, NEW o, Answered(c, Load(conf), o)
  PROVE  \/ /\ o.reply = "done" /\ o.dev.cand = conf
            /\ o.dev.sync = dev.sync /\ o.dev.hist = dev.hist
         \/ o.reply = "rejected" /\ o.dev = dev /\ "reject" \in Faults
<1>1. Load(conf).do = "load" /\ Load(conf).conf = conf
  BY DEF Load
<1>2. \/ o = Reply("done", Changed(conf))
      \/ o = Reply("rejected", dev) /\ "reject" \in Faults
  BY <1>1 DEF Answered
<1> QED
  BY <1>2, ChangedFields

\* rollback N takes the candidate from the history, if that is long enough.
LEMMA OnRevert ==
  ASSUME CdTyped, NEW c, NEW o, Answered(c, Cmd("revert"), o)
  PROVE  \/ /\ o.dev.cand = dev.hist[RollbackId + 1].conf /\ RollbackId < Len(dev.hist)
            /\ o.dev.sync = dev.sync /\ o.dev.hist = dev.hist
         \/ o.dev = dev /\ ~(RollbackId < Len(dev.hist))
<1>1. Cmd("revert").do = "revert"
  BY DEF Cmd
<1>2. \/ RollbackId < Len(dev.hist) /\ o = Reply("done", Changed(dev.hist[RollbackId + 1].conf))
      \/ ~(RollbackId < Len(dev.hist)) /\ o = Reply("rejected", dev)
  BY <1>1 DEF Answered
<1> QED
  BY <1>2, ChangedFields

\* rollback 0 makes the candidate what runs.
LEMMA OnDiscard ==
  ASSUME CdTyped, NEW c, NEW o, Answered(c, Cmd("discard"), o)
  PROVE  /\ o.dev.cand = Running /\ ~o.dev.dirty /\ o.dev.sync /\ o.dev.hist = dev.hist
         /\ o.reply = "done"
<1>1. Cmd("discard").do = "discard"
  BY DEF Cmd
<1> DEFINE d == [dev EXCEPT !.cand = Running, !.dirty = FALSE, !.sync = TRUE]
<1>2. o = Reply("done", d)
  BY <1>1 DEF Answered
<1>3. d.cand = Running /\ ~d.dirty /\ d.sync /\ d.hist = dev.hist
  BY DEF CdTyped, Device
<1> HIDE DEF d
<1> QED
  BY <1>2, <1>3, ChangedFields

\* commit check changes nothing.
LEMMA OnCheck ==
  ASSUME NEW c, NEW o, Answered(c, Cmd("check"), o)
  PROVE  o.dev = dev
BY DEF Answered, Cmd

\* A commit makes what the candidate holds run, or changes nothing.
LEMMA OnCommit ==
  ASSUME CdTyped, NEW c \in Clients, NEW o, Answered(c, Cmd("commit"), o)
  PROVE  \/ ~dev.sync /\ o.dev = dev /\ o.reply = "conflict"
         \/ dev.sync /\ dev.cand = Running /\ o.dev = dev /\ o.reply = "no_change"
         \/ o.dev = dev /\ o.reply = "invalid" /\ "invalid" \in Faults
         \/ /\ dev.sync /\ dev.cand # Running /\ o.reply = "committed"
            /\ o.dev.cand = dev.cand /\ ~o.dev.dirty /\ o.dev.sync
            /\ o.dev.hist = Promise!Push(dev.hist, dev.cand, c)
            /\ o.dev.hist[1] = [conf |-> dev.cand, by |-> c]
<1>1. Cmd("commit").do = "commit"
  BY DEF Cmd
<1> DEFINE h == Promise!Push(dev.hist, dev.cand, c)
<1>2. h[1] = [conf |-> dev.cand, by |-> c]
  BY Pushed DEF CdTyped, Device
<1> HIDE DEF h
<1>3. /\ Committed(c).cand = dev.cand /\ ~Committed(c).dirty /\ Committed(c).sync
      /\ Committed(c).hist = h
  BY DEF Committed, h
<1>4. \A r, d : Reply(r, d).reply = r /\ Reply(r, d).dev = d
  BY DEF Reply
<1>5. \/ ~dev.sync /\ o = Reply("conflict", dev)
      \/ dev.sync /\ dev.cand = Running /\ o = Reply("no_change", dev)
      \/ dev.sync /\ dev.cand # Running /\ o = Reply("committed", Committed(c))
      \/ o = Reply("invalid", dev) /\ "invalid" \in Faults
  BY <1>1 DEF Answered
<1> QED
  BY <1>2, <1>3, <1>4, <1>5 DEF h

\* A commit is the last command of a call.
LEMMA CommitIsLast ==
  ASSUME CdTyped, CdSteps, NEW c \in Clients, Busy(c), NEW o, Answered(c, Sent(c), o),
         o.dev.hist # dev.hist
  PROVE  /\ pc[c] = "run" /\ op[c] \in {"edit", "lofd", "rollback", "restore"}
         /\ at[c] = Len(Program(c)) /\ Sent(c) = Cmd("commit") /\ dev.sync /\ dev.cand # Running
         /\ o.reply = "committed"
         /\ op[c] = "edit" => at[c] = Len(Batch[c]) + 1
         /\ op[c] = "restore" => at[c] = Len(Batch[c]) + 2
         /\ op[c] \in {"lofd", "rollback"} => at[c] = 2
<1>1. SentIs(c) /\ Sent(c) \in CmdsOf(c) /\ Len(Batch[c]) \in Nat
  BY Sends
<1>2. Sent(c) = Cmd("commit") /\ dev.sync /\ dev.cand # Running /\ o = Reply("committed", Committed(c))
  BY <1>1, AnsweredDevice
<1>3. /\ Cmd("commit") # Cmd("discard") /\ Cmd("commit") # Cmd("check") /\ Cmd("commit") # Cmd("revert")
      /\ \A x : Cmd("commit") # Stage(x) /\ Cmd("commit") # Load(x)
  <2>1. /\ Cmd("commit").do = "commit" /\ Cmd("discard").do = "discard" /\ Cmd("check").do = "check"
        /\ Cmd("revert").do = "revert" /\ \A x : Stage(x).do = "stage" /\ Load(x).do = "load"
    BY DEF Cmd, Stage, Load
  <2> QED
    BY <2>1
<1>4. op[c] \in {"edit", "check", "compare", "lofd", "rollback", "restore"} /\ at[c] \in Nat
      /\ pc[c] \in {"run", "cleanup"}
  BY DEF CdTyped, OpNames, Busy
<1>5. o.reply = "committed"
  BY <1>2 DEF Reply
<1>6. pc[c] = "run"
  BY <1>1, <1>2, <1>3, <1>4 DEF SentIs
<1>7. CASE op[c] = "edit"
  BY <1>1, <1>2, <1>3, <1>4, <1>5, <1>6, <1>7 DEF SentIs
<1>8. CASE op[c] = "check"
  BY <1>1, <1>2, <1>3, <1>4, <1>5, <1>6, <1>8 DEF SentIs
<1>9. CASE op[c] = "compare"
  BY <1>1, <1>2, <1>3, <1>4, <1>5, <1>6, <1>9 DEF SentIs
<1>10. CASE op[c] = "lofd"
  BY <1>1, <1>2, <1>3, <1>4, <1>5, <1>6, <1>10 DEF SentIs
<1>11. CASE op[c] = "rollback"
  BY <1>1, <1>2, <1>3, <1>4, <1>5, <1>6, <1>11 DEF SentIs
<1>12. CASE op[c] = "restore"
  BY <1>1, <1>2, <1>3, <1>4, <1>5, <1>6, <1>12 DEF SentIs
<1> QED
  BY <1>4, <1>7, <1>8, <1>9, <1>10, <1>11, <1>12

\* The configuration a call's own commit leaves running.
LEMMA CommitRuns ==
  ASSUME CdTyped, CdSteps, NEW c \in Clients, Busy(c), NEW o, Answered(c, Sent(c), o),
         o.dev.hist # dev.hist
  PROVE  /\ o.dev.hist = Promise!Push(dev.hist, dev.cand, c)
         /\ o.dev.hist[1].conf = dev.cand /\ o.dev.hist[1].by = c
         /\ o.dev.cand = dev.cand /\ ~o.dev.dirty /\ o.dev.sync
<1>1. Sent(c) = Cmd("commit")
  BY CommitIsLast
<1>2. Answered(c, Cmd("commit"), o)
  BY <1>1
<1>3. /\ o.dev.hist = Promise!Push(dev.hist, dev.cand, c) /\ o.dev.hist[1] = [conf |-> dev.cand, by |-> c]
      /\ o.dev.cand = dev.cand /\ ~o.dev.dirty /\ o.dev.sync
  <2> HIDE DEF Promise!Push
  <2> QED
    BY <1>2, OnCommit
<1>4. o.dev.hist[1].conf = dev.cand /\ o.dev.hist[1].by = c
  BY <1>3
<1> QED
  BY <1>3, <1>4
-----------------------------------------------------------------------------
(* One lock for all, and what may fail cleans up after itself.             *)

\* At most one call is at work.
LEMMA Alone ==
  ASSUME OneLock, CdInv, NEW c \in Clients, NEW d \in Clients, Busy(c), Busy(d)
  PROVE  c = d
BY DEF OneLock, CdInv, CdLocks

\* The tools called where something may fail.
LEMMA CleanTools ==
  ASSUME Tidy, Faults # {}, NEW c \in Clients
  PROVE  Ops[c] \subseteq {"edit", "check", "compare"}
BY DEF Tidy

\* CleanersOnly, of the setting a behaviour runs under.
LEMMA AllTidy ==
  ASSUME CleanersOnly, CdTyped
  PROVE  Tidy
BY DEF CleanersOnly, Tidy, CdTyped, Faults, Ops

\* The setting stays.
LEMMA StillTidy ==
  ASSUME setting' = setting
  PROVE  Tidy' = Tidy
BY DEF Tidy, Faults, Ops

\* The second invariant holds at the start.
LEMMA WholeInit ==
  ASSUME Init
  PROVE  CdWhole
<1>1. dev = [cand |-> Before[1], dirty |-> FALSE, sync |-> TRUE, hist |-> Promise!InitHist]
  BY DEF Init
<1>2. Ready
  BY <1>1, InitHistTyped DEF Ready, Running
<1>3. \A c \in Clients : pc[c] = "idle" /\ ~landed[c] /\ verdict[c] = "none"
  BY DEF Init
<1> QED
  BY <1>2, <1>3 DEF CdWhole, CdStaged, CdBase, CdGoal, CdHeld, CdAborted, Ready

\* A call that starts keeps the second invariant.
LEMMA WholeStart ==
  ASSUME CdInv, CdWhole, NEW c \in Clients, NEW o \in Ops[c], Start(c, o), setting' = setting
  PROVE  CdWhole'
<1>1. /\ pc' = [pc EXCEPT ![c] = "wait"] /\ op' = [op EXCEPT ![c] = o] /\ pc[c] = "idle"
      /\ UNCHANGED <<dev, lock, at, attempt, flaw, verdict, goal, landed, setting>>
  BY DEF Start
<1>2. pc'[c] = "wait" /\ \A d \in Clients \ {c} : pc'[d] = pc[d] /\ op'[d] = op[d]
  BY <1>1 DEF CdInv, CdTyped
<1>3. CdStaged' /\ CdBase' /\ CdGoal'
  BY <1>1, <1>2, StillTidy DEF CdWhole, CdStaged, CdBase, CdGoal, Running, Faults
<1>4. (\A d \in Clients : ~Busy(d))' => \A d \in Clients : ~Busy(d)
  BY <1>1, <1>2 DEF Busy
<1>5. Ready' = Ready /\ Answering' = Answering /\ Tidy' = Tidy
  BY <1>1, StillTidy DEF Ready, Running, Faults, Answering
<1>6. ASSUME NEW d \in Clients, pc'[d] = "run"
      PROVE  pc[d] = "run" /\ (CdMidway(d) => CdMidway(d)')
  <2>1. d # c /\ pc[d] = "run" /\ op'[d] = op[d]
    BY <1>2, <1>6
  <2> QED
    BY <1>1, <1>5, <2>1 DEF CdMidway, Running, Faults
<1>7. CdHeld'
  BY <1>4, <1>5, <1>6 DEF CdWhole, CdHeld
<1>8. CdAborted'
  BY <1>1, <1>2, <1>5 DEF CdWhole, CdAborted
<1> QED
  BY <1>3, <1>7, <1>8 DEF CdWhole

\* So does one that gets the lock: it finds the candidate clean.
LEMMA WholeAcquire ==
  ASSUME OneLock, CdInv, CdWhole, NEW c \in Clients, Acquire(c), setting' = setting
  PROVE  CdWhole'
<1>1. /\ pc' = [pc EXCEPT ![c] = "run"] /\ op' = op /\ lock[LockOf[c]] = Nobody
      /\ at' = [at EXCEPT ![c] = 1] /\ dev' = dev /\ setting' = setting
      /\ verdict' = [verdict EXCEPT ![c] = "none"] /\ landed' = [landed EXCEPT ![c] = FALSE]
      /\ goal' = [goal EXCEPT ![c] = Promise!Result(dev.hist, c, op[c])]
  BY DEF Acquire
<1>2. \A d \in Clients : ~Busy(d)
  BY <1>1, Given DEF OneLock, CdInv, CdLocks
<1>3. ASSUME NEW d \in Clients, pc'[d] = "run"
      PROVE  d = c
  BY <1>1, <1>2, <1>3 DEF Busy, CdInv, CdTyped
<1>4. /\ pc'[c] = "run" /\ op'[c] = op[c] /\ at'[c] = 1 /\ verdict'[c] = "none" /\ ~landed'[c]
      /\ goal'[c] = Promise!Result(dev.hist, c, op[c])
  BY <1>1 DEF CdInv, CdTyped
<1>5. Staged(c, 1 - 1) = {}
  BY Batches
<1>6. CdStaged'
  BY <1>3, <1>4, <1>5 DEF CdStaged
<1>7. CdBase'
  BY <1>1, StillTidy DEF CdWhole, CdBase, Running, Faults
<1>8. CdGoal'
  BY <1>1, <1>3, <1>4 DEF CdGoal
<1>9. /\ Ready' = Ready /\ Answering' = Answering /\ Running' = Running /\ Faults' = Faults
      /\ Tidy' = Tidy
  BY <1>1, StillTidy DEF Ready, Running, Faults, Answering
<1>10. CdHeld'
  <2>1. SUFFICES ASSUME Answering, Tidy
                 PROVE  CdMidway(c)'
    BY <1>3, <1>4, <1>9 DEF CdHeld, Busy
  <2>2. Ready
    BY <1>2, <2>1 DEF CdWhole, CdHeld
  <2>3. dev.cand = Running /\ dev.sync
    BY <2>2 DEF Ready
  <2> QED
    BY <1>1, <1>4, <1>5, <1>9, <2>2, <2>3 DEF CdMidway
<1>11. CdAborted'
  <2>1. \A d \in Clients \ {c} : verdict'[d] = verdict[d] /\ landed'[d] = landed[d]
    BY <1>1 DEF CdInv, CdTyped
  <2> QED
    BY <1>3, <1>4, <1>9, <2>1 DEF CdWhole, CdAborted
<1> QED
  BY <1>6, <1>7, <1>8, <1>10, <1>11 DEF CdWhole

\* So does a commit from outside: a dirty candidate is out of sync.
LEMMA WholeOutside ==
  ASSUME CdInv, CdWhole, NEW conf \in SUBSET Promise!Statements, OutsideCommit(conf),
         setting' = setting
  PROVE  CdWhole'
<1>1. /\ Running' = conf /\ dev'.cand = (IF dev.dirty THEN dev.cand ELSE conf)
      /\ dev'.dirty = dev.dirty /\ dev'.sync = ~dev.dirty /\ Faults # {} /\ dev.dirty \in BOOLEAN
  BY Outside DEF CdInv, CdTyped, Device
<1>2. UNCHANGED <<lock, pc, op, at, attempt, flaw, verdict, goal, landed, setting>>
  BY DEF OutsideCommit
<1>3. Faults' = Faults /\ Answering' = Answering /\ Ops' = Ops /\ Tidy' = Tidy
  BY <1>2, StillTidy DEF Faults, Answering, Ops
<1>4. ASSUME NEW c \in Clients
      PROVE  Staged(c, 0) = {}
  BY Batches
<1>5. ASSUME NEW c \in Clients
      PROVE  at[c] \in Nat \ {0} /\ (~(at[c] > 1) => at[c] - 1 = 0 /\ at[c] = 1)
  BY DEF CdInv, CdTyped
<1>6. CdStaged'
  BY <1>1, <1>2, <1>4, <1>5 DEF CdWhole, CdStaged
<1>7. CdBase' /\ CdGoal'
  BY <1>1, <1>3 DEF CdBase, CdGoal
<1>8. Ready => Ready'
  BY <1>1, <1>3 DEF Ready
<1>9. CdHeld'
  <2>1. SUFFICES ASSUME Answering, Tidy, NEW c \in Clients, pc[c] = "run"
                 PROVE  CdMidway(c)'
    BY <1>2, <1>3, <1>8 DEF CdWhole, CdHeld, Busy
  <2>2. CdMidway(c) /\ (op[c] = "edit" /\ at[c] > 1 => dev.dirty)
    BY <2>1 DEF CdWhole, CdHeld, CdStaged
  <2>3. op[c] \in {"edit", "check", "compare"}
    BY <1>1, <2>1, CleanTools DEF CdInv, CdSteps
  <2>4. at[c] = 1 => Ready'
    BY <1>8, <2>2 DEF CdMidway
  <2>5. op[c] = "edit" /\ dev'.sync => dev'.cand = Running' \cup Staged(c, at[c] - 1)
    BY <1>1, <1>4, <1>5, <2>2
  <2> QED
    BY <1>1, <1>2, <1>3, <2>3, <2>4, <2>5 DEF CdMidway
<1>10. CdAborted'
  BY <1>2, <1>3 DEF CdWhole, CdAborted
<1> QED
  BY <1>6, <1>7, <1>9, <1>10 DEF CdWhole

\* The call at work is alone before and after its step.
LEMMA AloneAfter ==
  ASSUME OneLock, CdInv, NEW c \in Clients, Works(c), NEW d \in Clients, d # c
  PROVE  /\ pc[d] \notin {"run", "cleanup"} /\ pc'[d] = pc[d] /\ op'[d] = op[d]
         /\ verdict'[d] = verdict[d] /\ landed'[d] = landed[d]
<1>1. /\ Busy(c) /\ UNCHANGED op /\ DeviceDoes(c, dev')
      /\ GoesOn(c) \/ StartsOver(c) \/ \E v : CallEnds(c, v)
  BY Worked DEF CdInv
<1>2. pc'[d] = pc[d] /\ op'[d] = op[d] /\ verdict'[d] = verdict[d]
  BY <1>1, OthersKept DEF CdInv
<1>3. ~Busy(d)
  BY <1>1, Alone
<1>4. landed'[d] = landed[d]
  BY <1>1 DEF DeviceDoes, CdInv, CdTyped
<1> QED
  BY <1>2, <1>3, <1>4 DEF Busy

\* The next place of a call that goes on.
LEMMA NextPlace ==
  ASSUME CdInv, NEW c \in Clients, Busy(c), GoesOn(c), UNCHANGED op
  PROVE  /\ at[c] \in Nat \ {0} /\ at'[c] = at[c] + 1 /\ pc'[c] = "run" /\ pc[c] = "run" /\ op'[c] = op[c]
         /\ at[c] + 1 <= Len(Program(c)) /\ verdict'[c] = verdict[c]
<1>1. /\ at[c] \in Nat \ {0} /\ at'[c] = at[c] + 1 /\ pc' = pc /\ at[c] < Len(Program(c))
      /\ verdict'[c] = verdict[c]
  BY DEF GoesOn, CdInv, CdTyped
<1>2. SentIs(c) /\ Len(Batch[c]) \in Nat
  BY Sends DEF CdInv
<1>3. pc[c] # "cleanup"
  <2> SUFFICES ASSUME pc[c] = "cleanup"
               PROVE  FALSE
    OBVIOUS
  <2>1. at[c] = 1 /\ Len(Program(c)) = 1
    BY <1>2 DEF SentIs
  <2>2. 1 < 1
    BY <1>1, <2>1
  <2> QED
    BY <2>2
<1>4. Len(Program(c)) \in Nat
  BY <1>1, <1>2, <1>3 DEF SentIs, Busy, CdInv, CdTyped, OpNames
<1> QED
  BY <1>1, <1>3, <1>4 DEF Busy

\* A command of an edit adds its statement to those staged.
LEMMA StagedWorks ==
  ASSUME OneLock, CdInv, CdWhole, NEW c \in Clients, Works(c), setting' = setting
  PROVE  CdStaged'
<1>1. /\ Busy(c) /\ UNCHANGED <<op, goal, budget>>
      /\ \/ GoesOn(c) /\ Exec(c)
         \/ StartsOver(c)
         \/ \E v \in Verdicts \ {"none"} : CallEnds(c, v)
  BY Worked DEF CdInv
<1>2. \A d \in Clients \ {c} : pc'[d] # "run"
  BY AloneAfter
<1>3. SUFFICES ASSUME pc'[c] = "run", op'[c] = "edit"
               PROVE  Staged(c, at'[c] - 1) \subseteq dev'.cand /\ (at'[c] > 1 => dev'.dirty)
  BY <1>2 DEF CdStaged
<1>4. CASE GoesOn(c) /\ Exec(c)
  <2>1. PICK o : Gets(c, o)
    BY <1>4, Seen DEF CdInv
  <2>2. /\ at[c] \in Nat \ {0} /\ at'[c] = at[c] + 1 /\ pc[c] = "run" /\ op[c] = "edit"
        /\ at[c] + 1 <= Len(Program(c))
    BY <1>1, <1>3, <1>4, NextPlace
  <2>3. SentIs(c) /\ Len(Batch[c]) \in Nat
    BY <1>1, Sends DEF CdInv
  <2>4. at[c] \in 1..Len(Batch[c]) /\ Sent(c) = Stage(Batch[c][at[c]])
    BY <2>2, <2>3 DEF SentIs
  <2>5. Answered(c, Stage(Batch[c][at[c]]), o) /\ dev' = o.dev
    BY <2>1, <2>4 DEF Gets, DeviceDoes
  <2>6. o.reply # "rejected"
    <3>1. CASE GoesOn(c) /\ ~Stops(c, o.reply)
      BY <2>2, <3>1 DEF Stops
    <3>2. CASE \E v \in Verdicts \ {"none"} : CallEnds(c, v)
      BY <1>4, <2>2, <3>2 DEF CallEnds, CdInv, CdTyped
    <3> QED
      BY <2>1, <3>1, <3>2 DEF Gets
  <2>7. dev'.cand = dev.cand \cup {Batch[c][at[c]]} /\ dev'.dirty
    BY <2>5, <2>6, OnStage DEF CdInv
  <2>8. Staged(c, at[c] - 1) \subseteq dev.cand
    BY <2>2 DEF CdWhole, CdStaged
  <2>9. Staged(c, at[c]) = Staged(c, at[c] - 1) \cup {Batch[c][at[c]]} /\ at'[c] - 1 = at[c]
    BY <2>2, <2>4, Batches
  <2> QED
    BY <2>7, <2>8, <2>9
<1>5. CASE StartsOver(c)
  <2>1. at'[c] = 1 /\ 1 - 1 = 0
    BY <1>5 DEF StartsOver, CdInv, CdTyped
  <2> QED
    BY <2>1, Batches
<1>6. CASE \E v \in Verdicts \ {"none"} : CallEnds(c, v)
  BY <1>3, <1>6 DEF CallEnds, CdInv, CdTyped
<1> QED
  BY <1>1, <1>4, <1>5, <1>6

\* What runs stays in a candidate that is in sync.
LEMMA BaseWorks ==
  ASSUME CdInv, CdWhole, NEW c \in Clients, Works(c), setting' = setting
  PROVE  CdBase'
<1>1. /\ Busy(c) /\ DeviceDoes(c, dev')
  BY Worked DEF CdInv
<1>2. SUFFICES ASSUME Faults # {}, Tidy, dev'.sync
               PROVE  Running' \subseteq dev'.cand
  BY StillTidy DEF CdBase, Faults
<1>3. CASE dev' = dev
  BY <1>2, <1>3 DEF CdWhole, CdBase, Running
<1>4. CASE \E o : Answered(c, Sent(c), o) /\ o.dev = dev'
  <2>1. PICK o : Answered(c, Sent(c), o) /\ o.dev = dev'
    BY <1>4
  <2>2. op[c] \in {"edit", "check", "compare"}
    BY <1>1, <1>2, CleanTools DEF CdInv, CdSteps, Busy
  <2>3. CASE dev'.hist # dev.hist
    BY <1>1, <2>1, <2>3, CommitRuns DEF Running, CdInv
  <2>4. CASE dev'.hist = dev.hist
    <3>1. SentIs(c) /\ Len(Batch[c]) \in Nat /\ at[c] \in Nat \ {0}
      BY <1>1, Sends DEF CdInv, CdTyped
    <3>2. \/ \E st : Sent(c) = Stage(st)
          \/ Sent(c) = Cmd("discard") \/ Sent(c) = Cmd("check") \/ Sent(c) = Cmd("commit")
      <4>1. CASE pc[c] = "cleanup"
        BY <3>1, <4>1 DEF SentIs
      <4>2. CASE pc[c] = "run" /\ op[c] = "edit"
        BY <3>1, <4>2 DEF SentIs
      <4>3. CASE pc[c] = "run" /\ op[c] = "check"
        BY <3>1, <4>3 DEF SentIs
      <4>4. CASE pc[c] = "run" /\ op[c] = "compare"
        BY <3>1, <4>4 DEF SentIs
      <4> QED
        BY <1>1, <2>2, <4>1, <4>2, <4>3, <4>4 DEF Busy
    <3>3. Running' = Running
      BY <2>4 DEF Running
    <3>4. CASE \E st : Sent(c) = Stage(st)
      <4>1. PICK st : Sent(c) = Stage(st)
        BY <3>4
      <4>2. Answered(c, Stage(st), o)
        BY <2>1, <4>1
      <4>3. dev' = dev \/ (dev'.cand = dev.cand \cup {st} /\ dev'.sync = dev.sync)
        BY <2>1, <4>2, OnStage DEF CdInv
      <4> QED
        BY <1>2, <3>3, <4>3 DEF CdWhole, CdBase
    <3>5. CASE Sent(c) = Cmd("discard")
      <4>1. Answered(c, Cmd("discard"), o)
        BY <2>1, <3>5
      <4> QED
        BY <2>1, <3>3, <4>1, OnDiscard DEF CdInv
    <3>6. CASE Sent(c) = Cmd("check")
      <4>1. Answered(c, Cmd("check"), o)
        BY <2>1, <3>6
      <4>2. dev' = dev
        BY <2>1, <4>1, OnCheck
      <4> QED
        BY <1>3, <4>2
    <3>7. CASE Sent(c) = Cmd("commit")
      <4>1. Answered(c, Cmd("commit"), o)
        BY <2>1, <3>7
      <4>2. dev' = dev \/ (dev'.hist[1] = [conf |-> dev.cand, by |-> c] /\ dev'.cand = dev.cand)
        BY <2>1, <4>1, OnCommit DEF CdInv
      <4> QED
        BY <1>3, <4>2 DEF Running
    <3> QED
      BY <3>2, <3>4, <3>5, <3>6, <3>7
  <2> QED
    BY <2>3, <2>4
<1> QED
  BY <1>1, <1>3, <1>4 DEF DeviceDoes

\* Where every reply arrives, or nothing fails at all, each command is seen.
LEMMA AllSeen ==
  ASSUME Answering \/ Faults = {}, NEW c \in Clients, Works(c)
  PROVE  Exec(c)
BY DEF Answering, Faults, Works, Timeout, Break, Refused

\* Nobody else changes the history while a call is at work.
LEMMA GoalWorks ==
  ASSUME OneLock, CdInv, CdWhole, NEW c \in Clients, Works(c), setting' = setting
  PROVE  CdGoal'
<1>1. \A d \in Clients \ {c} : pc'[d] # "run"
  BY AloneAfter
<1>2. SUFFICES ASSUME Faults = {}, pc'[c] = "run"
               PROVE  goal'[c] = Promise!Result(dev'.hist, c, op'[c])
  BY <1>1 DEF CdGoal, Faults
<1>3. Exec(c) /\ Busy(c) /\ UNCHANGED <<op, goal, budget>>
  BY <1>2, AllSeen, Worked DEF CdInv
<1>4. PICK o : Gets(c, o)
  BY <1>3, Seen DEF CdInv
<1>5. GoesOn(c)
  <2>1. ASSUME \E v \in Verdicts \ {"none"} : CallEnds(c, v)
        PROVE  FALSE
    BY <1>2, <2>1 DEF CallEnds, CdInv, CdTyped
  <2> QED
    BY <1>4, <2>1 DEF Gets
<1>6. at[c] # Len(Program(c)) /\ pc[c] = "run"
  BY <1>3, <1>5, NextPlace
<1>7. Answered(c, Sent(c), o) /\ dev' = o.dev
  BY <1>4 DEF Gets, DeviceDoes
<1>8. dev'.hist = dev.hist
  BY <1>3, <1>6, <1>7, CommitIsLast DEF CdInv
<1> QED
  BY <1>2, <1>3, <1>6, <1>8 DEF CdWhole, CdGoal

\* A call that goes on leaves the candidate as its next command expects it.
LEMMA MidwayGoesOn ==
  ASSUME Tidy, CdInv, CdWhole, Answering, NEW c \in Clients, Busy(c), GoesOn(c),
         UNCHANGED <<op, setting>>, NEW o, Answered(c, Sent(c), o), dev' = o.dev, ~Stops(c, o.reply)
  PROVE  CdMidway(c)'
<1> DEFINE k == at[c]
           n == Len(Batch[c])
<1>1. /\ k \in Nat \ {0} /\ at'[c] = k + 1 /\ pc[c] = "run" /\ op'[c] = op[c]
      /\ k + 1 <= Len(Program(c))
  BY NextPlace
<1>2. SentIs(c) /\ n \in Nat
  BY Sends DEF CdInv
<1>3. CdMidway(c) /\ Faults' = Faults /\ op[c] \in OpNames /\ op[c] \in Ops[c]
  BY <1>1 DEF CdWhole, CdHeld, CdInv, CdTyped, CdSteps, Faults
<1>4. dev'.hist = dev.hist /\ Running' = Running
  <2>1. k # Len(Program(c))
    BY <1>1
  <2> QED
    BY <2>1, CommitIsLast DEF Running, CdInv
<1>5. /\ at'[c] # 1 /\ at'[c] > 1 /\ at'[c] - 1 = k /\ at'[c] - 2 = k - 1
  BY <1>1
<1>6. op[c] \in {"lofd", "rollback", "restore"} => Faults = {}
  BY <1>3, CleanTools DEF CdInv
<1>7. op[c] \in {"edit", "check", "compare", "lofd", "rollback", "restore"}
  BY <1>3 DEF OpNames
<1> HIDE DEF k, n
<1>8. CASE op[c] = "edit"
  <2>1. k \in 1..n /\ Sent(c) = Stage(Batch[c][k])
    BY <1>1, <1>2, <1>8 DEF SentIs, k, n
  <2>2. Answered(c, Stage(Batch[c][k]), o) /\ o.reply # "rejected"
    BY <1>1, <1>8, <2>1 DEF Stops
  <2>3. dev'.cand = dev.cand \cup {Batch[c][k]} /\ dev'.sync = dev.sync
    BY <2>2, OnStage DEF CdInv
  <2>4. Staged(c, k) = Staged(c, k - 1) \cup {Batch[c][k]}
    BY <2>1, Batches DEF n
  <2>5. (dev.sync => dev.cand = Running \cup Staged(c, k - 1)) /\ (Faults = {} => dev.sync)
    BY <1>3, <1>8 DEF CdMidway, k
  <2> QED
    BY <1>1, <1>3, <1>4, <1>5, <1>8, <2>3, <2>4, <2>5 DEF CdMidway
<1>9. CASE op[c] \in {"check", "compare"}
  <2>1. Faults = {} => dev.sync
    BY <1>3 DEF CdMidway
  <2>2. (\E st : Sent(c) = Stage(st)) \/ Sent(c) = Cmd("check")
    BY <1>1, <1>2, <1>9 DEF SentIs, k, n
  <2>3. CASE \E st : Sent(c) = Stage(st)
    <3>1. PICK st : Sent(c) = Stage(st)
      BY <2>3
    <3>2. Answered(c, Stage(st), o)
      BY <3>1
    <3>3. dev'.sync = dev.sync
      BY <3>2, OnStage DEF CdInv
    <3> QED
      BY <1>1, <1>3, <1>5, <1>9, <2>1, <3>3 DEF CdMidway
  <2>4. CASE Sent(c) = Cmd("check")
    <3>1. Answered(c, Cmd("check"), o)
      BY <2>4
    <3>2. dev' = dev
      BY <3>1, OnCheck
    <3> QED
      BY <1>1, <1>3, <1>5, <1>9, <2>1, <3>2 DEF CdMidway
  <2> QED
    BY <2>2, <2>3, <2>4
<1>10. CASE op[c] = "lofd"
  <2>a. k \in 1..2 /\ Len(Program(c)) = 2 /\ (k = 1 => Sent(c) = Load({}))
    BY <1>1, <1>2, <1>10 DEF SentIs, k
  <2>1. k = 1 /\ Sent(c) = Load({})
    BY <1>1, <2>a
  <2>2. Answered(c, Load({}), o)
    BY <2>1
  <2>3. dev'.cand = {} /\ dev'.sync = dev.sync
    BY <1>6, <1>10, <2>2, OnLoad DEF CdInv
  <2>4. dev.sync
    BY <1>3, <1>6, <1>10 DEF CdMidway
  <2> QED
    BY <1>1, <1>3, <1>5, <1>10, <2>3, <2>4 DEF CdMidway
<1>11. CASE op[c] = "rollback"
  <2>a. k \in 1..2 /\ Len(Program(c)) = 2 /\ (k = 1 => Sent(c) = Cmd("revert"))
    BY <1>1, <1>2, <1>11 DEF SentIs, k
  <2>1. k = 1 /\ Sent(c) = Cmd("revert")
    BY <1>1, <2>a
  <2>2. Answered(c, Cmd("revert"), o)
    BY <2>1
  <2>3. dev.cand = Running /\ dev.sync
    BY <1>3, <2>1 DEF CdMidway, Ready, k
  <2>4. \/ dev'.cand = dev.hist[RollbackId + 1].conf /\ RollbackId < Len(dev.hist) /\ dev'.sync
        \/ dev'.cand = dev.hist[1].conf /\ ~(RollbackId < Len(dev.hist)) /\ dev'.sync
    BY <2>2, <2>3, OnRevert DEF Running, CdInv
  <2>5. Promise!Result(dev'.hist, c, "rollback")
          = IF RollbackId < Len(dev.hist) THEN dev.hist[RollbackId + 1].conf ELSE dev.hist[1].conf
    BY <1>4 DEF Promise!Result
  <2>6. dev'.cand = Promise!Result(dev'.hist, c, "rollback") /\ dev'.sync
    BY <2>4, <2>5
  <2> QED
    BY <1>1, <1>3, <1>5, <1>11, <2>6 DEF CdMidway
<1>12. CASE op[c] = "restore"
  <2>1. dev.sync
    BY <1>3, <1>6, <1>12 DEF CdMidway
  <2>2. CASE k = 1
    <3>1. Sent(c) = Load(Golden)
      BY <1>2, <1>1, <1>12, <2>2 DEF SentIs, k
    <3>2. Answered(c, Load(Golden), o)
      BY <3>1
    <3>3. dev'.cand = Golden /\ dev'.sync = dev.sync
      BY <1>6, <1>12, <3>2, OnLoad DEF CdInv
    <3>4. Staged(c, k - 1) = {}
      BY <2>2, Batches
    <3> QED
      BY <1>1, <1>3, <1>5, <1>12, <2>1, <3>3, <3>4 DEF CdMidway
  <2>3. CASE k # 1
    <3>1. k \in 2..(n + 1) /\ Sent(c) = Stage(Batch[c][k - 1]) /\ k > 1
      BY <1>1, <1>2, <1>12, <2>3 DEF SentIs, k, n
    <3>2. Answered(c, Stage(Batch[c][k - 1]), o)
      BY <3>1
    <3>3. dev'.cand = dev.cand \cup {Batch[c][k - 1]} /\ dev'.sync = dev.sync
      BY <1>6, <1>12, <3>2, OnStage DEF CdInv
    <3>4. dev.cand = Golden \cup Staged(c, k - 2)
      BY <1>3, <1>12, <3>1 DEF CdMidway, k
    <3>5. k - 1 \in 1..n /\ (k - 1) - 1 = k - 2
      BY <1>1, <1>2, <3>1
    <3>6. Staged(c, k - 1) = Staged(c, k - 2) \cup {Batch[c][k - 1]}
      BY <3>5, Batches DEF n
    <3> QED
      BY <1>1, <1>3, <1>5, <1>12, <2>1, <3>3, <3>4, <3>6 DEF CdMidway
  <2> QED
    BY <2>2, <2>3
<1> QED
  BY <1>7, <1>8, <1>9, <1>10, <1>11, <1>12

\* A call that returns leaves the candidate to the next.
LEMMA ReadyAgain ==
  ASSUME Tidy, CdInv, CdWhole, Answering, NEW c \in Clients, Busy(c),
         UNCHANGED setting, NEW o, Answered(c, Sent(c), o), dev' = o.dev,
         Stops(c, o.reply) \/ at[c] = Len(Program(c)),
         NEW f, NEW v, ~(pc[c] = "run" /\ CleansUp(c, v)), pc[c] = "run" => v = Judge(c, o.reply, f)
  PROVE  Ready'
<1>1. SentIs(c) /\ Len(Batch[c]) \in Nat /\ at[c] \in Nat \ {0} /\ Sent(c) \in CmdsOf(c)
  BY Sends DEF CdInv, CdTyped
<1>2. op[c] \in {"edit", "check", "compare", "lofd", "rollback", "restore"} /\ op[c] \in Ops[c]
      /\ pc[c] \in {"run", "cleanup"}
  BY DEF CdInv, CdTyped, CdSteps, OpNames, Busy
<1>3. op[c] \in {"lofd", "rollback", "restore"} => Faults = {}
  BY <1>2, CleanTools DEF CdInv
<1>4. ASSUME Sent(c) = Cmd("discard")
      PROVE  Ready'
  <2>1. Answered(c, Cmd("discard"), o)
    BY <1>4
  <2>2. dev'.cand = Running /\ ~dev'.dirty /\ dev'.sync /\ dev'.hist = dev.hist
    BY <2>1, OnDiscard DEF CdInv
  <2> QED
    BY <2>2 DEF Ready, Running
<1>5. ASSUME o.reply = "committed"
      PROVE  Ready'
  <2>1. Sent(c) = Cmd("commit")
    BY <1>1, <1>5 DEF CmdsOf, Answered, Stage, Load, Cmd, Reply
  <2>2. Answered(c, Cmd("commit"), o)
    BY <2>1
  <2>3. /\ dev'.cand = dev.cand /\ ~dev'.dirty /\ dev'.sync
        /\ dev'.hist[1] = [conf |-> dev.cand, by |-> c]
    BY <1>5, <2>2, OnCommit DEF CdInv
  <2> QED
    BY <2>3 DEF Ready, Running
<1>6. CASE pc[c] = "cleanup"
  BY <1>1, <1>4, <1>6 DEF SentIs
<1>7. CASE pc[c] = "run" /\ op[c] = "edit"
  <2>1. v \in {"ok", "lost"}
    BY <1>7 DEF CleansUp
  <2>2. o.reply \in {"done", "rejected", "conflict", "no_change", "committed", "invalid"}
    BY <1>1, AnsweredDevice DEF CdInv
  <2>3. o.reply = "committed"
    BY <1>7, <2>1, <2>2 DEF Judge, EditVerdict, ApplyVerdict
  <2> QED
    BY <1>5, <2>3
<1>8. CASE pc[c] = "run" /\ op[c] \in {"check", "compare"}
  <2>1. at[c] = Len(Program(c))
    BY <1>8 DEF Stops
  <2>2. Sent(c) = Cmd("discard")
    BY <1>1, <1>8, <2>1 DEF SentIs
  <2> QED
    BY <1>4, <2>2
<1>9. CASE pc[c] = "run" /\ op[c] \in {"lofd", "rollback", "restore"}
  <2>1. at[c] = Len(Program(c))
    BY <1>9 DEF Stops
  <2>2. Sent(c) = Cmd("commit")
    BY <1>1, <1>9, <2>1 DEF SentIs
  <2>3. dev.sync /\ Faults = {}
    BY <1>3, <1>9 DEF CdWhole, CdHeld, CdMidway
  <2>4. Answered(c, Cmd("commit"), o)
    BY <2>2
  <2>5. (dev.cand = Running /\ dev' = dev) \/ o.reply = "committed"
    BY <2>3, <2>4, OnCommit DEF CdInv
  <2> QED
    BY <1>5, <2>3, <2>5 DEF Ready, Running, Faults
<1> QED
  BY <1>2, <1>6, <1>7, <1>8, <1>9

\* A command keeps the candidate what the next one expects.
LEMMA HeldWorks ==
  ASSUME OneLock, CdInv, CdWhole, NEW c \in Clients, Works(c), setting' = setting
  PROVE  CdHeld'
<1>1. SUFFICES ASSUME Answering, Tidy
               PROVE  /\ (\A d \in Clients : ~Busy(d))' => Ready'
                      /\ pc'[c] = "run" => CdMidway(c)'
  <2>1. \A d \in Clients \ {c} : pc'[d] # "run"
    BY AloneAfter
  <2>2. Answering' = Answering /\ Tidy' = Tidy
    BY StillTidy DEF Answering
  <2> QED
    BY <1>1, <2>1, <2>2 DEF CdHeld
<1>2. Exec(c) /\ Busy(c) /\ UNCHANGED <<op, goal, budget>>
  BY <1>1, AllSeen, Worked DEF CdInv
<1>3. PICK o : Gets(c, o)
  BY <1>2, Seen DEF CdInv
<1>4. Answered(c, Sent(c), o) /\ dev' = o.dev
  BY <1>3 DEF Gets, DeviceDoes
<1>5. CASE GoesOn(c) /\ ~Stops(c, o.reply)
  <2>1. CdMidway(c)'
    BY <1>1, <1>2, <1>4, <1>5, MidwayGoesOn
  <2>2. Busy(c)'
    BY <1>2, <1>5 DEF GoesOn, Busy
  <2> QED
    BY <2>1, <2>2
<1>6. ASSUME Stops(c, o.reply) \/ at[c] = Len(Program(c)),
             NEW f \in BOOLEAN, NEW v \in Verdicts \ {"none"},
             CallEnds(c, v), pc[c] = "run" => v = Judge(c, o.reply, f)
      PROVE  pc'[c] # "run" /\ (~Busy(c)' => Ready')
  <2>1. CASE pc[c] = "run" /\ CleansUp(c, v) /\ pc' = [pc EXCEPT ![c] = "cleanup"]
    BY <2>1 DEF Busy, CdInv, CdTyped
  <2>2. CASE ~(pc[c] = "run" /\ CleansUp(c, v)) /\ pc' = [pc EXCEPT ![c] = "idle"]
    <3>1. Ready'
      BY <1>1, <1>2, <1>4, <1>6, <2>2, ReadyAgain
    <3> QED
      BY <2>2, <3>1 DEF CdInv, CdTyped
  <2> QED
    BY <1>6, <2>1, <2>2 DEF CallEnds
<1> QED
  BY <1>3, <1>5, <1>6 DEF Gets

\* An edit that is cut short has not committed.
LEMMA AbortedWorks ==
  ASSUME OneLock, CdInv, CdWhole, NEW c \in Clients, Works(c), setting' = setting
  PROVE  CdAborted'
<1>1. SUFFICES ASSUME Answering
               PROVE  /\ pc'[c] = "run" /\ op'[c] = "edit" => ~landed'[c]
                      /\ verdict'[c] = "aborted" => ~landed'[c]
  <2>1. \A d \in Clients \ {c} : pc'[d] # "run" /\ verdict'[d] = verdict[d] /\ landed'[d] = landed[d]
    BY AloneAfter
  <2>2. Answering' = Answering
    BY DEF Answering
  <2> QED
    BY <1>1, <2>1, <2>2 DEF CdAborted, CdWhole
<1>2. Exec(c) /\ Busy(c) /\ UNCHANGED <<op, goal, budget>>
  BY <1>1, AllSeen, Worked DEF CdInv
<1>3. PICK o : Gets(c, o)
  BY <1>2, Seen DEF CdInv
<1>4. /\ Answered(c, Sent(c), o) /\ dev' = o.dev
      /\ landed'[c] = (landed[c] \/ o.dev.hist # dev.hist)
  BY <1>3 DEF Gets, DeviceDoes, CdInv, CdTyped
<1>5. /\ pc[c] = "run" /\ op[c] = "edit" => ~landed[c]
      /\ verdict[c] = "aborted" => ~landed[c]
      /\ pc[c] = "run" => verdict[c] = "none"
  BY <1>1 DEF CdWhole, CdAborted, CdInv, CdSteps
<1>6. CASE GoesOn(c)
  <2>1. at[c] # Len(Program(c)) /\ pc[c] = "run" /\ verdict'[c] = verdict[c]
    BY <1>2, <1>6, NextPlace
  <2>2. o.dev.hist = dev.hist
    BY <1>2, <1>4, <2>1, CommitIsLast DEF CdInv
  <2> QED
    BY <1>2, <1>4, <1>5, <2>1, <2>2
<1>7. ASSUME NEW f \in BOOLEAN, NEW v \in Verdicts \ {"none"}, CallEnds(c, v),
             pc[c] = "cleanup" => v = verdict[c], pc[c] = "run" => v = Judge(c, o.reply, f)
      PROVE  pc'[c] # "run" /\ (verdict'[c] = "aborted" => ~landed'[c])
  <2>1. pc'[c] # "run" /\ verdict'[c] = v /\ pc[c] \in {"run", "cleanup"}
    BY <1>2, <1>7 DEF CallEnds, CdInv, CdTyped, Busy
  <2>2. CASE pc[c] = "cleanup"
    <3>1. o.dev.hist = dev.hist
      BY <1>2, <1>4, <2>2, CommitIsLast DEF CdInv
    <3> QED
      BY <1>4, <1>5, <1>7, <2>1, <2>2, <3>1
  <2>3. CASE pc[c] = "run" /\ v = "aborted"
    <3>1. op[c] \in {"edit", "check", "compare", "lofd", "rollback", "restore"}
      BY DEF CdInv, CdTyped, OpNames
    <3>2. op[c] = "edit" /\ o.reply # "committed"
      <4>1. ApplyVerdict(o.reply) # "aborted" /\ DryVerdict(f) # "aborted"
            /\ RestoreVerdict(o.reply, f) # "aborted"
        BY DEF ApplyVerdict, DryVerdict, RestoreVerdict
      <4>2. Judge(c, o.reply, f) = "aborted"
        BY <1>7, <2>3
      <4>3. o.reply \notin {"timeout", "lost"}
        BY <4>2 DEF Judge
      <4>4. op[c] = "edit"
        <5>1. CASE op[c] \in {"check", "compare"}
          BY <4>1, <4>2, <4>3, <5>1 DEF Judge
        <5>2. CASE op[c] = "restore"
          BY <4>1, <4>2, <4>3, <5>2 DEF Judge
        <5>3. CASE op[c] \in {"lofd", "rollback"}
          BY <4>1, <4>2, <4>3, <5>3 DEF Judge
        <5> QED
          BY <3>1, <5>1, <5>2, <5>3
      <4>5. EditVerdict(o.reply) = "aborted"
        BY <4>2, <4>3, <4>4 DEF Judge
      <4> QED
        BY <4>1, <4>4, <4>5 DEF EditVerdict
    <3>3. o.dev.hist = dev.hist
      BY <1>2, <1>4, <3>2, CommitIsLast DEF CdInv
    <3> QED
      BY <1>4, <1>5, <2>1, <2>3, <3>2, <3>3
  <2> QED
    BY <2>1, <2>2, <2>3
<1> QED
  BY <1>3, <1>6, <1>7 DEF Gets

\* Every step keeps the second invariant.
LEMMA WholeNext ==
  ASSUME OneLock, CdInv, CdWhole, [Next]_vars
  PROVE  CdWhole'
<1>1. CASE \E c \in Clients : (\E o \in Ops[c] : Start(c, o)) /\ UNCHANGED setting
  BY <1>1, WholeStart
<1>2. CASE \E c \in Clients : Acquire(c) /\ UNCHANGED setting
  BY <1>2, WholeAcquire
<1>3. CASE \E c \in Clients : Works(c) /\ UNCHANGED setting
  <2>1. PICK c \in Clients : Works(c) /\ UNCHANGED setting
    BY <1>3
  <2>2. CdStaged' /\ CdGoal'
    BY <2>1, StagedWorks, GoalWorks
  <2>3. CdBase'
    BY <2>1, BaseWorks
  <2>4. CdHeld' /\ CdAborted'
    BY <2>1, HeldWorks, AbortedWorks
  <2> QED
    BY <2>2, <2>3, <2>4 DEF CdWhole
<1>4. CASE \E conf \in SUBSET Promise!Statements : OutsideCommit(conf) /\ UNCHANGED setting
  BY <1>4, WholeOutside
<1>5. CASE UNCHANGED vars
  BY <1>5 DEF CdWhole, CdStaged, CdBase, CdGoal, CdHeld, CdMidway, CdAborted, Ready, Running, Faults,
              Answering, Tidy, Ops, Busy, vars
<1> QED
  BY <1>1, <1>2, <1>3, <1>4, <1>5 DEF Next, Step, Works

\* Under one lock the second invariant holds throughout.
THEOREM CdWholeInvariance ==
  ASSUME OneLock
  PROVE  Spec => [](CdInv /\ CdWhole)
<1>1. Init => CdInv /\ CdWhole
  BY CdInit, WholeInit
<1>2. CdInv /\ CdWhole /\ [Next]_vars => (CdInv /\ CdWhole)'
  BY CdNext, WholeNext
<1> QED
  BY <1>1, <1>2, PTL DEF Spec

\* Between calls the shared candidate holds what runs and nothing else, and
\* a batch answered as aborted has not run (edit.py:462, edit_helpers.py:224).
THEOREM CandidateIsClean ==
  ASSUME OneLock, CleanersOnly
  PROVE  Spec => []CandidateHolds
<1>1. CdInv /\ CdWhole => CandidateHolds
  <2> SUFFICES ASSUME CdInv, CdWhole, Answering
               PROVE  /\ (\A l \in Locks : lock[l] = Nobody) => dev.cand = Running
                      /\ AbortedUntouched
    BY DEF CandidateHolds, CleanWhenFree, AbortedWhereAnswered
  <2>1. (\A l \in Locks : lock[l] = Nobody) => \A c \in Clients : ~Busy(c)
    BY Given DEF CdInv, CdLocks
  <2>2. (\A c \in Clients : ~Busy(c)) => dev.cand = Running
    BY AllTidy DEF CdInv, CdWhole, CdHeld, Ready
  <2> QED
    BY <2>1, <2>2 DEF CdWhole, CdAborted, AbortedUntouched
<1> QED
  BY <1>1, CdWholeInvariance, PTL
-----------------------------------------------------------------------------
(* What comes to run.                                                      *)

\* Whoever changes the history: an outsider, or a call with its commit.
LEMMA WhoCommits ==
  ASSUME CdInv, [Next]_vars, dev'.hist # dev.hist
  PROVE  \/ \E conf \in SUBSET Promise!Statements : OutsideCommit(conf) /\ setting' = setting
         \/ \E c \in Clients :
              /\ Works(c) /\ Busy(c) /\ setting' = setting
              /\ \E o : Answered(c, Sent(c), o) /\ o.dev = dev' /\ o.dev.hist # dev.hist
<1>1. CASE \E c \in Clients : Works(c) /\ UNCHANGED setting
  <2>1. PICK c \in Clients : Works(c) /\ UNCHANGED setting
    BY <1>1
  <2>2. Busy(c) /\ DeviceDoes(c, dev')
    BY <2>1, Worked DEF CdInv
  <2>3. PICK o : Answered(c, Sent(c), o) /\ o.dev = dev'
    BY <2>2 DEF DeviceDoes
  <2> QED
    BY <2>1, <2>2, <2>3
<1>2. CASE \E conf \in SUBSET Promise!Statements : OutsideCommit(conf) /\ UNCHANGED setting
  BY <1>2
<1>3. CASE dev' = dev
  BY <1>3
<1>4. ASSUME NEW c \in Clients, Acquire(c) \/ \E o \in Ops[c] : Start(c, o)
      PROVE  dev' = dev
  BY <1>4 DEF Acquire, Start
<1> QED
  BY <1>1, <1>2, <1>3, <1>4 DEF Next, Step, Works, vars

\* Where every reply arrives, a call's commit is its whole effect.
LEMMA CommitIsWhole ==
  ASSUME CdInv, CdWhole, Answering, Tidy, NEW c \in Clients, Busy(c),
         NEW o, Answered(c, Sent(c), o), o.dev.hist # dev.hist
  PROVE  dev.cand = Promise!Result(dev.hist, c, op[c])
<1>1. /\ pc[c] = "run" /\ op[c] \in {"edit", "lofd", "rollback", "restore"} /\ dev.sync
      /\ dev.cand # Running
      /\ op[c] = "edit" => at[c] = Len(Batch[c]) + 1
      /\ op[c] = "restore" => at[c] = Len(Batch[c]) + 2
      /\ op[c] \in {"lofd", "rollback"} => at[c] = 2
  BY CommitIsLast DEF CdInv
<1>2. CdMidway(c) /\ Len(Batch[c]) \in Nat
  BY <1>1, Given DEF CdWhole, CdHeld
<1>3. Staged(c, Len(Batch[c])) = Promise!Range(Batch[c])
  BY Batches, SameRange
<1>4. CASE op[c] = "edit"
  <2>1. at[c] - 1 = Len(Batch[c])
    BY <1>1, <1>2, <1>4
  <2>2. dev.cand = Running \cup Promise!Range(Batch[c])
    BY <1>1, <1>2, <1>3, <1>4, <2>1 DEF CdMidway
  <2> QED
    BY <1>4, <2>2 DEF Promise!Result, Running
<1>5. CASE op[c] = "lofd"
  <2>1. dev.cand = {}
    BY <1>1, <1>2, <1>5 DEF CdMidway
  <2> QED
    BY <1>5, <2>1 DEF Promise!Result
<1>6. CASE op[c] = "rollback"
  BY <1>1, <1>2, <1>6 DEF CdMidway
<1>7. CASE op[c] = "restore"
  <2>1. at[c] - 2 = Len(Batch[c]) /\ at[c] > 1
    BY <1>1, <1>2, <1>7
  <2>2. dev.cand = Golden \cup Promise!Range(Batch[c])
    BY <1>2, <1>3, <1>7, <2>1 DEF CdMidway
  <2> QED
    BY <1>7, <2>2 DEF Promise!Result
<1> QED
  BY <1>1, <1>4, <1>5, <1>6, <1>7

\* The tools implement ConfigPromise: where every reply arrives, each commit
\* is the whole effect of one call, or comes from outside.
THEOREM WholeCommits ==
  ASSUME OneLock, CleanersOnly
  PROVE  Spec => CommitsAreWhole
<1>1. Init => Claim!Init
  BY DEF Init, Claim!Init, Claimed, Promise!InitHist, Claim!InitHist
<1>2. CdInv /\ CdWhole /\ [Next]_vars => [Claim!Next]_Claimed
  <2> SUFFICES ASSUME CdInv, CdWhole, [Next]_vars, Claimed' # Claimed
               PROVE  Claim!Next
    OBVIOUS
  <2>1. setting' = setting
    BY DEF Next, vars
  <2>2. Answering /\ Answering' = Answering /\ dev'.hist # dev.hist
    BY <2>1 DEF Claimed, Answering, Faults, Promise!InitHist
  <2>3. Claimed = dev.hist /\ Claimed' = dev'.hist
    BY <2>2 DEF Claimed
  <2>4. CASE \E conf \in SUBSET Promise!Statements : OutsideCommit(conf)
    <3>1. PICK conf \in SUBSET Promise!Statements : OutsideCommit(conf)
      BY <2>4
    <3>2. dev'.hist = Promise!Push(dev.hist, conf, Outsider)
      BY <3>1, Outside DEF CdInv
    <3>3. Claimed' = Claim!Push(Claimed, conf, Outsider)
      BY <2>3, <3>2 DEF Promise!Push, Claim!Push
    <3>4. conf \in SUBSET Claim!Statements
      BY <3>1 DEF Promise!Statements, Claim!Statements, Promise!Range, Claim!Range
    <3> QED
      BY <3>3, <3>4 DEF Claim!Next, Claim!Elsewhere
  <2>5. ASSUME NEW c \in Clients, Works(c), Busy(c),
               NEW o, Answered(c, Sent(c), o), o.dev = dev', o.dev.hist # dev.hist
        PROVE  Claim!Next
    <3>1. dev'.hist = Promise!Push(dev.hist, dev.cand, c)
      BY <2>5, CommitRuns DEF CdInv
    <3>2. dev.cand = Promise!Result(dev.hist, c, op[c])
      BY <2>2, <2>5, CommitIsWhole, AllTidy DEF CdInv
    <3>3. op[c] \in {"edit", "lofd", "rollback", "restore"} /\ op[c] \in Ops[c]
      BY <2>5, CommitIsLast DEF CdInv, CdSteps, Busy
    <3>4. op[c] \in MayCall[c] \ {"check", "compare"}
      BY <3>3 DEF MayCall, Ops, CdInv, CdTyped
    <3>5. Claimed' = Claim!Push(Claimed, Claim!Result(Claimed, c, op[c]), c)
      BY <2>3, <3>1, <3>2 DEF Promise!Push, Claim!Push, Promise!Result, Claim!Result,
                              Promise!Range, Claim!Range
    <3>6. Claim!Apply(c)
      BY <3>4, <3>5 DEF Claim!Apply
    <3> QED
      BY <3>6 DEF Claim!Next
  <2> QED
    BY <2>2, <2>4, <2>5, WhoCommits
<1> QED
  BY <1>1, <1>2, CdWholeInvariance, PTL DEF Spec, CommitsAreWhole, Claim!Spec

\* An edit's commit holds its whole batch, and all that ran.
LEMMA EditCommits ==
  ASSUME CdInv, CdWhole, NEW c \in Clients, Busy(c),
         NEW o, Answered(c, Sent(c), o), o.dev.hist # dev.hist, op[c] = "edit"
  PROVE  Range(Batch[c]) \subseteq dev.cand /\ (Tidy => Running \subseteq dev.cand)
<1>1. pc[c] = "run" /\ dev.sync /\ at[c] = Len(Batch[c]) + 1 /\ Len(Batch[c]) \in Nat
  BY CommitIsLast, Given DEF CdInv
<1>2. at[c] - 1 = Len(Batch[c])
  BY <1>1
<1>3. Staged(c, Len(Batch[c])) \subseteq dev.cand
  BY <1>1, <1>2 DEF CdWhole, CdStaged
<1>4. Staged(c, Len(Batch[c])) = Range(Batch[c])
  BY Batches
<1>5. CASE Faults # {}
  BY <1>1, <1>3, <1>4, <1>5 DEF CdWhole, CdBase
<1>6. CASE Faults = {}
  <2>1. Answering /\ Tidy
    BY <1>6 DEF Answering, Tidy, Faults
  <2>2. CdMidway(c)
    BY <1>1, <2>1 DEF CdWhole, CdHeld
  <2> QED
    BY <1>1, <1>2, <1>3, <1>4, <2>2 DEF CdMidway
<1> QED
  BY <1>5, <1>6

\* An edit undoes nobody's commit: a stale candidate is never committed
\* (the rebase prompt is answered with abort, edit.py:201).
THEOREM EditsKeepRunning ==
  ASSUME OneLock, CleanersOnly
  PROVE  Spec => EditKeepsRunning
<1> DEFINE Keeps == \A c \in Clients : dev'.hist # dev.hist /\ dev'.hist[1].by = c /\ op[c] = "edit"
                                         => Running \subseteq Running'
<1>1. CdInv /\ CdWhole /\ [Next]_vars => Keeps
  <2> SUFFICES ASSUME CdInv, CdWhole, [Next]_vars, NEW c \in Clients,
                      dev'.hist # dev.hist, dev'.hist[1].by = c, op[c] = "edit"
               PROVE  Running \subseteq Running'
    OBVIOUS
  <2>1. CASE \E conf \in SUBSET Promise!Statements : OutsideCommit(conf)
    <3>1. PICK conf \in SUBSET Promise!Statements : OutsideCommit(conf)
      BY <2>1
    <3>2. dev'.hist[1] = [conf |-> conf, by |-> Outsider]
      BY <3>1, Outside DEF CdInv
    <3>3. c = Outsider
      BY <3>2
    <3> QED
      BY <3>3, Given
  <2>2. ASSUME NEW d \in Clients, Works(d), Busy(d),
               NEW o, Answered(d, Sent(d), o), o.dev = dev', o.dev.hist # dev.hist
        PROVE  Running \subseteq Running'
    <3>1. dev'.hist[1].conf = dev.cand /\ dev'.hist[1].by = d
      BY <2>2, CommitRuns DEF CdInv
    <3>2. d = c
      BY <3>1
    <3>3. Running \subseteq dev.cand
      BY <2>2, <3>2, EditCommits, AllTidy DEF CdInv
    <3> QED
      BY <3>1, <3>3 DEF Running
  <2> QED
    BY <2>1, <2>2, WhoCommits
<1>2. CdInv /\ CdWhole /\ [Next]_vars => [Keeps]_vars
  BY <1>1
<1> QED
  BY <1>2, CdWholeInvariance, PTL DEF Spec, EditKeepsRunning

\* Where nothing fails, a call that answers ok has done what it set out to do.
LEMMA OkIsWhole ==
  ASSUME CdInv, CdWhole, Faults = {}, NEW c \in Clients, Busy(c), pc[c] = "run",
         NEW o, Answered(c, Sent(c), o), dev' = o.dev, UNCHANGED goal,
         Stops(c, o.reply) \/ at[c] = Len(Program(c)), NEW f, Judge(c, o.reply, f) = "ok"
  PROVE  Running' = goal[c]
<1>1. Answering /\ Tidy
  BY DEF Answering, Tidy, Faults
<1>2. goal[c] = Promise!Result(dev.hist, c, op[c])
  BY DEF CdWhole, CdGoal
<1>3. CASE o.dev.hist # dev.hist
  <2>1. dev.cand = Promise!Result(dev.hist, c, op[c])
    BY <1>1, <1>3, CommitIsWhole
  <2>2. Running' = dev.cand
    BY <1>3, CommitRuns DEF Running, CdInv
  <2> QED
    BY <1>2, <2>1, <2>2
<1>4. CASE o.dev.hist = dev.hist
  <2>1. Running' = Running
    BY <1>4 DEF Running
  <2>2. op[c] \in {"edit", "check", "compare", "lofd", "rollback", "restore"}
    BY DEF CdInv, CdTyped, OpNames
  <2>3. o.reply # "committed"
    <3>1. SUFFICES ASSUME o.reply = "committed"
                   PROVE  FALSE
      OBVIOUS
    <3>2. Sent(c) \in CmdsOf(c)
      BY Sends DEF CdInv
    <3>3. Sent(c) = Cmd("commit")
      BY <3>1, <3>2 DEF CmdsOf, Answered, Stage, Load, Cmd, Reply
    <3>4. Answered(c, Cmd("commit"), o)
      BY <3>3
    <3>5. dev.cand # Running /\ o.dev.hist[1] = [conf |-> dev.cand, by |-> c]
      BY <3>1, <3>4, OnCommit DEF CdInv
    <3> QED
      BY <1>4, <3>5 DEF Running
  <2>4. op[c] \in {"check", "compare"}
    <3>1. ApplyVerdict(o.reply) # "ok"
      BY <2>3 DEF ApplyVerdict
    <3>2. EditVerdict(o.reply) # "ok" /\ RestoreVerdict(o.reply, f) # "ok"
      BY <3>1 DEF EditVerdict, RestoreVerdict
    <3>3. CASE op[c] = "edit"
      BY <3>2, <3>3 DEF Judge
    <3>4. CASE op[c] = "restore"
      BY <3>2, <3>4 DEF Judge
    <3>5. CASE op[c] \in {"lofd", "rollback"}
      BY <3>1, <3>5 DEF Judge
    <3> QED
      BY <2>2, <3>3, <3>4, <3>5
  <2>5. Promise!Result(dev.hist, c, op[c]) = dev.hist[1].conf
    <3>1. op[c] = "check" \/ op[c] = "compare"
      BY <2>4
    <3>2. CASE op[c] = "check"
      BY <3>2 DEF Promise!Result
    <3>3. CASE op[c] = "compare"
      BY <3>3 DEF Promise!Result
    <3> QED
      BY <3>1, <3>2, <3>3
  <2> QED
    BY <1>2, <2>1, <2>5 DEF Running
<1> QED
  BY <1>3, <1>4

\* An edit that answers ok has committed.
LEMMA OkEdit ==
  ASSUME CdInv, CdWhole, NEW c \in Clients, Busy(c), pc[c] = "run", op[c] = "edit",
         NEW o, Answered(c, Sent(c), o), dev' = o.dev, NEW f, Judge(c, o.reply, f) = "ok"
  PROVE  Range(Batch[c]) \subseteq Running'
<1>1. o.reply = "committed"
  BY DEF Judge, EditVerdict, ApplyVerdict
<1>2. Sent(c) \in CmdsOf(c)
  BY Sends DEF CdInv
<1>3. Sent(c) = Cmd("commit")
  BY <1>1, <1>2 DEF CmdsOf, Answered, Stage, Load, Cmd, Reply
<1>4. Answered(c, Cmd("commit"), o)
  BY <1>3
<1>5. dev.cand # Running /\ o.dev.hist[1] = [conf |-> dev.cand, by |-> c]
  BY <1>1, <1>4, OnCommit DEF CdInv
<1>6. o.dev.hist # dev.hist
  BY <1>5 DEF Running
<1>7. Range(Batch[c]) \subseteq dev.cand
  BY <1>6, EditCommits
<1> QED
  BY <1>5, <1>7 DEF Running

\* A call that returns ok was answered so by its last command.
LEMMA OkWasSeen ==
  ASSUME OneLock, CdInv, NEW c \in Clients, Returns(c), verdict'[c] = "ok", [Next]_vars
  PROVE  /\ Exec(c) /\ Busy(c) /\ pc[c] = "run" /\ UNCHANGED <<op, goal, budget>>
         /\ \E o, f : /\ Answered(c, Sent(c), o) /\ dev' = o.dev
                      /\ Stops(c, o.reply) \/ at[c] = Len(Program(c))
                      /\ Judge(c, o.reply, f) = "ok"
<1>1. pc[c] \in {"run", "cleanup"} /\ pc'[c] = "idle"
  BY DEF Returns
<1>2. \E d \in Clients : Works(d)
  <2>1. ASSUME NEW d \in Clients, Acquire(d) \/ \E o \in Ops[d] : Start(d, o)
        PROVE  FALSE
    BY <1>1, <2>1 DEF Acquire, Start, CdInv, CdTyped
  <2>2. ~(\E conf \in SUBSET Promise!Statements : OutsideCommit(conf)) /\ ~(UNCHANGED vars)
    BY <1>1 DEF OutsideCommit, vars
  <2> QED
    BY <2>1, <2>2 DEF Next, Step, Works
<1>3. Works(c)
  BY <1>1, <1>2, AloneAfter
<1>4. /\ Busy(c) /\ UNCHANGED <<op, goal, budget>>
      /\ \/ GoesOn(c) \/ StartsOver(c)
         \/ \E v \in Verdicts \ {"none"} : CallEnds(c, v) /\ (pc[c] = "cleanup" => v = verdict[c])
  BY <1>3, Worked DEF CdInv
<1>5. PICK v \in Verdicts \ {"none"} : CallEnds(c, v) /\ (pc[c] = "cleanup" => v = verdict[c])
  BY <1>1, <1>4 DEF GoesOn, StartsOver
<1>6. v = "ok"
  BY <1>5 DEF CallEnds, CdInv, CdTyped
<1>7. pc[c] = "run"
  BY <1>1, <1>5, <1>6 DEF CdInv, CdSteps
<1>8. Exec(c)
  <2>1. ASSUME NEW end \in {"timeout", "lost"}, NEW f \in BOOLEAN, End(c, end, f)
        PROVE  FALSE
    <3>1. end \in Ends
      BY DEF Ends
    <3>2. PICK w \in Verdicts \ {"none"} : CallEnds(c, w) /\ w = Judge(c, end, f)
      BY <1>4, <1>7, <2>1, <3>1, Ending DEF CdInv
    <3>3. w = end
      BY <3>2 DEF Judge
    <3>4. verdict'[c] = w
      BY <3>2 DEF CallEnds, CdInv, CdTyped
    <3> QED
      BY <3>3, <3>4
  <2>2. ~Timeout(c)
    BY <2>1 DEF Timeout, CdInv, CdTyped
  <2>3. ~Refused(c)
    BY <2>1 DEF Refused
  <2>4. ~Break(c)
    BY <1>1, <2>1 DEF Break
  <2> QED
    BY <1>3, <2>2, <2>3, <2>4 DEF Works
<1>9. PICK o : Gets(c, o)
  BY <1>8, Seen DEF CdInv
<1>10. ~GoesOn(c)
  BY <1>1 DEF GoesOn
<1>11. PICK f \in BOOLEAN, w \in Verdicts \ {"none"} :
         CallEnds(c, w) /\ (pc[c] = "run" => w = Judge(c, o.reply, f))
  BY <1>9, <1>10 DEF Gets
<1>12. Judge(c, o.reply, f) = "ok"
  BY <1>7, <1>11 DEF CallEnds, CdInv, CdTyped
<1> QED
  BY <1>4, <1>7, <1>8, <1>9, <1>10, <1>12 DEF Gets, DeviceDoes

\* An ok is true: what was asked for runs, and of an edit the whole batch,
\* whatever timed out, broke or was refused before.
THEOREM OkDelivered ==
  ASSUME OneLock
  PROVE  Spec => CliOkDelivers
<1> DEFINE Delivers == \A c \in Clients : Returns(c) /\ verdict'[c] = "ok" =>
                         /\ Faults = {} => Running' = goal[c]
                         /\ op[c] = "edit" => Range(Batch[c]) \subseteq Running'
<1>1. CdInv /\ CdWhole /\ [Next]_vars => Delivers
  <2> SUFFICES ASSUME CdInv, CdWhole, [Next]_vars, NEW c \in Clients,
                      Returns(c), verdict'[c] = "ok"
               PROVE  /\ Faults = {} => Running' = goal[c]
                      /\ op[c] = "edit" => Range(Batch[c]) \subseteq Running'
    OBVIOUS
  <2>1. Exec(c) /\ Busy(c) /\ pc[c] = "run" /\ UNCHANGED <<op, goal, budget>>
    BY OkWasSeen
  <2>2. PICK o, f : /\ Answered(c, Sent(c), o) /\ dev' = o.dev
                    /\ Stops(c, o.reply) \/ at[c] = Len(Program(c))
                    /\ Judge(c, o.reply, f) = "ok"
    BY OkWasSeen
  <2>3. Faults = {} => Running' = goal[c]
    BY <2>1, <2>2, OkIsWhole
  <2>4. op[c] = "edit" => Range(Batch[c]) \subseteq Running'
    BY <2>1, <2>2, OkEdit
  <2> QED
    BY <2>3, <2>4
<1>2. CdInv /\ CdWhole /\ [Next]_vars => [Delivers]_vars
  BY <1>1
<1> QED
  BY <1>2, CdWholeInvariance, PTL DEF Spec, CliOkDelivers

-----------------------------------------------------------------------------
(* NetconfCandidate.  The inductive invariant (NcInv) says, for each call,  *)
(* what it has still to send and how that completes its goal (Covered,      *)
(* NcReplaced), what ran when it began (Based), and of the shared candidate *)
(* that every statement ran before or has a caller who answers for it       *)
(* (Owned).                                                                 *)

\* The tools that edit, and those that commit.
NcEdits == {"edit", "apply", "stage"}
NcCommits == {"edit", "apply", "rollback", "restore merge", "restore replace"}

NcRpcs ==
  [do : {"commit", "rollback", "discard-changes", "get-config"}]
  \cup [do : {"edit-config"}, stmts : SUBSET NcStatements]
  \cup [do : {"replace"}, section : ToSet(SectionOrder), stmts : SUBSET NcStatements]
NcCalls ==
  [pc : {"idle", "connect", "open", "cleanup"}, tool : NcTools, rpcs : Seq(NcRpcs),
   verdict : NcVerdicts, goal : SUBSET NcStatements, base : SUBSET NcStatements,
   told : BOOLEAN, unswept : BOOLEAN, left : Nat]
NcStores == [cand : SUBSET NcStatements, seen : SUBSET NcStatements, hist : Seq(SUBSET NcStatements)]

NcShape ==
  /\ ncSetting \in NcSettings /\ store \in NcStores
  /\ Len(store.hist) \in {1, 2} /\ \A i \in 1 .. Len(store.hist) : store.hist[i] \subseteq store.seen
  /\ tarball \in SUBSET NcStatements /\ tarball # {}
  /\ call \in [NcCallers -> NcCalls]
  /\ mixed \in [NcCallers -> SUBSET {"commit", "edit", "load"}]

\* An RPC that a call k may still have to make.
Fits(k, r) ==
  /\ r.do = "replace" => k.tool = "restore replace" /\ r.stmts = InSection(k.goal, r.section)
  /\ r.do = "edit-config" => k.tool \in NcEdits \cup {"restore merge"}
  /\ r.do \in {"rollback", "discard-changes"} => k.goal = {}
  /\ r.do = "commit" => k.tool \in NcCommits
  /\ k.tool = "edit" => r.do \in {"edit-config", "commit"}

\* A call that is to commit does so at the end, and only then.
Planned(k) ==
  /\ \A i \in 1 .. Len(k.rpcs) : Fits(k, k.rpcs[i]) /\ (k.rpcs[i].do = "commit" => i = Len(k.rpcs))
  /\ k.pc \in {"connect", "open"} =>
       k.rpcs # <<>> /\ (k.tool \in NcCommits => k.rpcs[Len(k.rpcs)].do = "commit")
  /\ k.pc = "cleanup" => k.tool = "edit" /\ k.verdict \in {"edit_error", "commit_error"}

\* What a call means to bring about is in the candidate or still to be sent,
\* unless another session has emptied or reloaded the candidate.
Covered(k, cand, mx) ==
  k.pc \in {"connect", "open"} /\ "load" \notin mx =>
    \A x \in k.goal : x \in cand \/ \E i \in 1 .. Len(k.rpcs) :
      k.rpcs[i].do \in {"edit-config", "replace"} /\ x \in k.rpcs[i].stmts

\* So is every section that a restore replaces, when nobody else was at it.
NcReplaced(k, cand, mx) ==
  k.pc \in {"connect", "open"} /\ k.tool = "restore replace" /\ mx = {} =>
    \A s \in ToSet(SectionsOf(k.goal)) : InSection(cand, s) = InSection(k.goal, s)
      \/ \E i \in 1 .. Len(k.rpcs) : k.rpcs[i].do = "replace" /\ k.rpcs[i].section = s

\* What ran when the session was opened runs still.
Based(k, hist, mx) ==
  k.pc \in {"open", "cleanup"} /\ "commit" \notin mx => hist[1] = k.base

\* A call sends nothing but its payload and what was backed up.
Known(c, k, seen) ==
  \A i \in 1 .. Len(k.rpcs) : k.rpcs[i].do \in {"edit-config", "replace"} =>
    k.rpcs[i].stmts \subseteq seen \cup Archive \cup (IF k.tool \in NcEdits THEN ToSet(Payloads[c]) ELSE {})

NcStaging(k) == k.told \/ k.unswept \/ (k.pc \in {"open", "cleanup"} /\ k.tool \in NcEdits)

\* Every statement of the candidate ran before, or somebody answers for it.
Owned(cand, seen, calls) ==
  \A x \in cand : x \in seen \cup Archive
    \/ \E c \in NcCallers : x \in ToSet(Payloads[c]) /\ NcStaging(calls[c])

CallOK(c, k, st, mx) ==
  Planned(k) /\ Known(c, k, st.seen) /\ Covered(k, st.cand, mx) /\ NcReplaced(k, st.cand, mx) /\ Based(k, st.hist, mx)

NcInv ==
  /\ NcShape
  /\ tarball \subseteq store.seen \cup Archive
  /\ Owned(store.cand, store.seen, call)
  /\ \A c \in NcCallers : CallOK(c, call[c], store, mixed[c])

\* What the proofs need of the constants.
LEMMA NcGiven ==
  /\ \A s \in NcSettings : /\ s.tools \in [NcCallers -> SUBSET NcTools]
                           /\ s.calls \in [NcCallers -> Nat]
  /\ \A c \in NcCallers : /\ Payloads[c] \in Seq(NcStatements) /\ Len(Payloads[c]) \in Nat \ {0}
                          /\ DOMAIN Payloads[c] = 1 .. Len(Payloads[c])
                          /\ ToSet(Payloads[c]) = {Payloads[c][i] : i \in 1 .. Len(Payloads[c])}
                          /\ ToSet(Payloads[c]) \subseteq NcStatements
  /\ SectionOrder \in Seq(ToSet(SectionOrder)) /\ SectionOf \in [NcStatements -> ToSet(SectionOrder)]
  /\ Archive \subseteq NcStatements /\ Archive # {} /\ Factory \subseteq NcStatements
<1>1. \A c \in NcCallers : Payloads[c] \in Seq(ToSet(Payloads[c])) /\ Payloads[c] # <<>>
  BY NcAssumption
<1>2. \A c \in NcCallers : ToSet(Payloads[c]) \subseteq NcStatements
  BY DEF NcStatements
<1>3. ASSUME NEW c \in NcCallers
      PROVE  /\ Payloads[c] \in Seq(NcStatements) /\ Len(Payloads[c]) \in Nat \ {0}
             /\ DOMAIN Payloads[c] = 1 .. Len(Payloads[c])
             /\ ToSet(Payloads[c]) = {Payloads[c][i] : i \in 1 .. Len(Payloads[c])}
  <2> DEFINE q == Payloads[c]
  <2> HIDE DEF q
  <2>1. q \in Seq(ToSet(q)) /\ q # <<>> /\ ToSet(q) \subseteq NcStatements
    BY <1>1, <1>2 DEF q
  <2>2. Len(q) \in Nat /\ DOMAIN q = 1 .. Len(q) /\ Len(q) # 0
    BY <2>1, EmptySeq
  <2>3. q \in Seq(NcStatements)
    BY <2>1
  <2> QED BY <2>1, <2>2, <2>3 DEF q, ToSet
<1>4. \A s \in NcSettings : s.tools \in [NcCallers -> SUBSET NcTools] /\ s.calls \in [NcCallers -> Nat]
  BY NcAssumption DEF NcSettingsOK
<1>5. Archive \subseteq NcStatements /\ Factory \subseteq NcStatements
  BY DEF NcStatements
<1>6. SectionOrder \in Seq(ToSet(SectionOrder)) /\ SectionOf \in [NcStatements -> ToSet(SectionOrder)] /\ Archive # {}
  BY NcAssumption
<1> QED BY <1>2, <1>3, <1>4, <1>5, <1>6

\* The sections of a configuration, each in its place of the order.
LEMMA Sections ==
  ASSUME NEW conf \in SUBSET NcStatements
  PROVE  /\ SectionsOf(conf) \in Seq(ToSet(SectionOrder))
         /\ \A x \in conf : \E i \in 1 .. Len(SectionsOf(conf)) : SectionsOf(conf)[i] = SectionOf[x]
<1> DEFINE H == Held(conf)
           below(k) == {j \in H : j < k}
           rank == [k \in H |-> Cardinality(below(k)) + 1]
           n == Cardinality(H)
<1>1. DOMAIN SectionOrder = 1 .. Len(SectionOrder) /\ Len(SectionOrder) \in Nat
  BY NcGiven
<1>2. IsFiniteSet(H) /\ H \subseteq Nat /\ n \in Nat
  <2>1. IsFiniteSet(1 .. Len(SectionOrder))
    BY <1>1, FS_Interval
  <2>2. H \in SUBSET (1 .. Len(SectionOrder))
    BY <1>1 DEF Held
  <2> QED BY <1>1, <2>1, <2>2, FS_Subset, FS_CardinalityType
<1>3. \A k \in H : below(k) \in SUBSET H /\ IsFiniteSet(below(k)) /\ Cardinality(below(k)) \in Nat
  BY <1>2, FS_Subset, FS_CardinalityType
<1>4. ASSUME NEW k \in H
      PROVE  Cardinality(below(k)) < n
  <2>1. below(k) # H
    BY <1>2
  <2> QED BY <1>2, <1>3, <2>1, FS_Subset
<1>5. ASSUME NEW k \in H, NEW m \in H, k < m
      PROVE  Cardinality(below(k)) < Cardinality(below(m))
  <2>1. below(k) \in SUBSET below(m) /\ k \in below(m) /\ k \notin below(k)
    BY <1>2, <1>5
  <2> HIDE DEF below
  <2> QED BY <1>3, <2>1, FS_Subset
<1>6. rank \in Injection(H, 1 .. n)
  <2>1. \A k \in H : Cardinality(below(k)) + 1 \in 1 .. n
    <3> HIDE DEF below, H
    <3> QED BY <1>2, <1>3, <1>4
  <2>2. \A k, m \in H : Cardinality(below(k)) + 1 = Cardinality(below(m)) + 1 => k = m
    <3> HIDE DEF below, H
    <3> QED BY <1>2, <1>3, <1>5
  <2> QED BY <2>1, <2>2 DEF Injection, IsInjective
<1>7. rank \in Surjection(H, 1 .. n)
  <2>1. IsFiniteSet(1 .. n) /\ Cardinality(1 .. n) = n
    BY <1>2, FS_Interval
  <2> QED BY <1>6, <2>1, FS_Injection
<1>8. \A i \in 1 .. n : \E k \in H : rank[k] = i
  BY <1>7 DEF Surjection
<1>9. ASSUME NEW i \in 1 .. n, NEW k \in H, rank[k] = i
      PROVE  (CHOOSE m \in H : Cardinality(below(m)) + 1 = i) = k
  <2>1. \A m \in H : Cardinality(below(m)) + 1 = i => m = k
    BY <1>6, <1>9 DEF Injection, IsInjective
  <2> QED BY <1>9, <2>1
<1>10. SectionsOf(conf) = [i \in 1 .. n |-> SectionOrder[CHOOSE m \in H : Cardinality(below(m)) + 1 = i]]
  BY DEF SectionsOf
<1>11. \A i \in 1 .. n : SectionsOf(conf)[i] \in ToSet(SectionOrder)
  <2> SUFFICES ASSUME NEW i \in 1 .. n
               PROVE  SectionsOf(conf)[i] \in ToSet(SectionOrder)
    OBVIOUS
  <2>1. PICK k \in H : rank[k] = i
    BY <1>8
  <2>2. SectionsOf(conf)[i] = SectionOrder[k]
    BY <1>9, <1>10, <2>1
  <2> QED BY <2>2 DEF Held, ToSet
<1>12. SectionsOf(conf) \in Seq(ToSet(SectionOrder)) /\ Len(SectionsOf(conf)) = n
  <2>1. SectionsOf(conf) \in [1 .. n -> ToSet(SectionOrder)]
    BY <1>10, <1>11
  <2> QED BY <1>2, <2>1
<1>13. ASSUME NEW x \in conf
       PROVE  \E i \in 1 .. n : SectionsOf(conf)[i] = SectionOf[x]
  <2>1. SectionOf[x] \in ToSet(SectionOrder)
    BY NcGiven
  <2>2. PICK k \in DOMAIN SectionOrder : SectionOrder[k] = SectionOf[x]
    BY <2>1 DEF ToSet
  <2>3. k \in H
    BY <2>2 DEF Held, InSection
  <2>4. rank[k] \in 1 .. n
    BY <1>6, <2>3 DEF Injection
  <2>5. SectionsOf(conf)[rank[k]] = SectionOrder[k]
    BY <1>9, <1>10, <2>3, <2>4
  <2> QED BY <2>2, <2>4, <2>5
<1> QED BY <1>12, <1>13

\* The RPCs of a call send all that it is to bring about.
SendsAll(k) ==
  /\ \A x \in k.goal : \E i \in 1 .. Len(k.rpcs) :
       k.rpcs[i].do \in {"edit-config", "replace"} /\ x \in k.rpcs[i].stmts
  /\ k.tool = "restore replace" => \A s \in ToSet(SectionsOf(k.goal)) : \E i \in 1 .. Len(k.rpcs) :
       k.rpcs[i].do = "replace" /\ k.rpcs[i].section = s

\* A call that has been planned and has sent nothing.
Drawn(c, k, seen) ==
  k.rpcs \in Seq(NcRpcs) /\ k.goal \in SUBSET NcStatements /\ Planned(k) /\ Known(c, k, seen) /\ SendsAll(k)

\* The RPCs before the commit, one by one.
SentBefore(c, k, seen, r) ==
  /\ Fits(k, r) /\ r.do # "commit"
  /\ r.do \in {"edit-config", "replace"} =>
       r.stmts \subseteq seen \cup Archive \cup (IF k.tool \in NcEdits THEN ToSet(Payloads[c]) ELSE {})

\* One element at the end of a sequence.
LEMMA OneMore ==
  ASSUME NEW S, NEW p \in Seq(S), NEW e \in S, NEW q, q = p \o <<e>>
  PROVE  /\ q \in Seq(S) /\ Len(q) = Len(p) + 1 /\ Len(p) \in Nat /\ q # <<>>
         /\ \A i \in 1 .. Len(p) : q[i] = p[i] /\ i \in 1 .. Len(q)
         /\ q[Len(q)] = e
         /\ \A i \in 1 .. Len(q) : i \in 1 .. Len(p) \/ i = Len(q)
OBVIOUS

\* A sequence of RPCs and a commit make a plan.
LEMMA EndsInCommit ==
  ASSUME NEW c \in NcCallers, NEW k, NEW seen, NEW p \in Seq(NcRpcs),
         k.pc = "connect", k.tool \in NcCommits, k.goal \in SUBSET NcStatements,
         k.rpcs = p \o <<Rpc("commit")>>,
         \A i \in 1 .. Len(p) : SentBefore(c, k, seen, p[i]),
         \A x \in k.goal : \E i \in 1 .. Len(p) :
           p[i].do \in {"edit-config", "replace"} /\ x \in p[i].stmts,
         k.tool = "restore replace" => \A s \in ToSet(SectionsOf(k.goal)) : \E i \in 1 .. Len(p) :
           p[i].do = "replace" /\ p[i].section = s
  PROVE  Drawn(c, k, seen)
<1> DEFINE last == Rpc("commit")
<1>1. last \in NcRpcs /\ last.do = "commit"
  BY DEF Rpc, NcRpcs
<1>2. /\ k.rpcs \in Seq(NcRpcs) /\ k.rpcs # <<>>
      /\ \A i \in 1 .. Len(p) : k.rpcs[i] = p[i] /\ i \in 1 .. Len(k.rpcs)
      /\ k.rpcs[Len(k.rpcs)] = last
      /\ \A i \in 1 .. Len(k.rpcs) : i \in 1 .. Len(p) \/ i = Len(k.rpcs)
  <2> HIDE DEF last
  <2>1. k.rpcs = p \o <<last>>
    BY DEF last
  <2>2. last \in NcRpcs
    BY <1>1
  <2> DEFINE q == k.rpcs
  <2>3. q = p \o <<last>>
    BY <2>1
  <2> HIDE DEF q
  <2>4. /\ q \in Seq(NcRpcs) /\ q # <<>>
        /\ \A i \in 1 .. Len(p) : q[i] = p[i] /\ i \in 1 .. Len(q)
        /\ q[Len(q)] = last
        /\ \A i \in 1 .. Len(q) : i \in 1 .. Len(p) \/ i = Len(q)
    BY ONLY <2>2, <2>3, OneMore, p \in Seq(NcRpcs)
  <2> QED BY <2>4 DEF q
<1>4. Planned(k)
  <2>1. Fits(k, last)
    BY <1>1 DEF Fits, NcCommits
  <2>2. ASSUME NEW i \in 1 .. Len(k.rpcs)
        PROVE  Fits(k, k.rpcs[i]) /\ (k.rpcs[i].do = "commit" => i = Len(k.rpcs))
    <3>1. CASE i \in 1 .. Len(p)
      <4>1. SentBefore(c, k, seen, p[i]) /\ k.rpcs[i] = p[i]
        BY <1>2, <3>1
      <4> QED
        BY <4>1 DEF SentBefore
    <3>2. CASE i = Len(k.rpcs)
      BY <1>2, <2>1, <3>2
    <3> QED
      BY <1>2, <3>1, <3>2
  <2>3. k.rpcs # <<>> /\ k.rpcs[Len(k.rpcs)].do = "commit"
    BY <1>1, <1>2
  <2> QED BY <2>2, <2>3 DEF Planned
<1>5. Known(c, k, seen)
  BY <1>1, <1>2 DEF Known, SentBefore
<1>6. SendsAll(k)
  <2>1. ASSUME NEW x \in k.goal
        PROVE  \E i \in 1 .. Len(k.rpcs) : k.rpcs[i].do \in {"edit-config", "replace"} /\ x \in k.rpcs[i].stmts
    BY <1>2
  <2>2. ASSUME k.tool = "restore replace", NEW s \in ToSet(SectionsOf(k.goal))
        PROVE  \E i \in 1 .. Len(k.rpcs) : k.rpcs[i].do = "replace" /\ k.rpcs[i].section = s
    <3>1. PICK i \in 1 .. Len(p) : p[i].do = "replace" /\ p[i].section = s
      BY <2>2
    <3> QED BY <1>2, <3>1
  <2> QED BY <2>1, <2>2 DEF SendsAll
<1> QED BY <1>2, <1>4, <1>5, <1>6 DEF Drawn

\* A single RPC that sends nothing makes a plan.
LEMMA OneRpc ==
  ASSUME NEW c \in NcCallers, NEW k, NEW seen, NEW do \in {"rollback", "discard-changes", "get-config"},
         k.pc = "connect", k.tool \in NcTools \ NcCommits, k.goal = {}, k.rpcs = <<Rpc(do)>>,
         Fits(k, Rpc(do))
  PROVE  Drawn(c, k, seen)
<1>1. Rpc(do) \in NcRpcs /\ Rpc(do).do = do
  BY DEF Rpc, NcRpcs
<1>2. k.rpcs \in Seq(NcRpcs) /\ k.rpcs # <<>> /\ Len(k.rpcs) = 1 /\ k.rpcs[1] = Rpc(do)
  BY <1>1
<1>3. Planned(k)
  BY <1>1, <1>2 DEF Planned
<1>4. Known(c, k, seen)
  BY <1>1, <1>2 DEF Known
<1>5. SendsAll(k)
  BY DEF SendsAll, NcCommits
<1> QED BY <1>2, <1>3, <1>4, <1>5 DEF Drawn

\* The edits of a caller's payloads.
LEMMA PayloadEdits ==
  ASSUME NEW c \in NcCallers
  PROVE  LET p == [i \in DOMAIN Payloads[c] |-> EditConfig({Payloads[c][i]})] IN
         /\ p \in Seq(NcRpcs) /\ Len(p) = Len(Payloads[c])
         /\ \A i \in 1 .. Len(p) : /\ p[i].do = "edit-config" /\ p[i].stmts = {Payloads[c][i]}
                                   /\ p[i].stmts \subseteq ToSet(Payloads[c])
         /\ \A x \in ToSet(Payloads[c]) : \E i \in 1 .. Len(p) : x \in p[i].stmts
<1> DEFINE n == Len(Payloads[c])
           e(i) == EditConfig({Payloads[c][i]})
           p == [i \in 1 .. n |-> e(i)]
<1>1. DOMAIN Payloads[c] = 1 .. n /\ n \in Nat /\ ToSet(Payloads[c]) = {Payloads[c][i] : i \in 1 .. n}
  BY NcGiven
<1>2. ASSUME NEW i \in 1 .. n
      PROVE  e(i) \in NcRpcs /\ e(i).do = "edit-config" /\ e(i).stmts = {Payloads[c][i]}
  <2>1. Payloads[c][i] \in NcStatements
    BY <1>1, NcGiven
  <2> QED BY <2>1 DEF EditConfig, NcRpcs
<1>3. p \in Seq(NcRpcs) /\ Len(p) = n
  <2> HIDE DEF e
  <2> QED BY <1>1, <1>2
<1>4. \A i \in 1 .. n : p[i].do = "edit-config" /\ p[i].stmts = {Payloads[c][i]}
  BY <1>2
<1>5. \A i \in 1 .. n : p[i].stmts \subseteq ToSet(Payloads[c])
  <2> HIDE DEF p, e
  <2> QED BY <1>1, <1>4
<1>6. \A x \in ToSet(Payloads[c]) : \E i \in 1 .. n : x \in p[i].stmts
  BY <1>1, <1>4
<1> HIDE DEF p
<1>7. [i \in DOMAIN Payloads[c] |-> EditConfig({Payloads[c][i]})] = p
  BY <1>1 DEF p
<1> QED BY <1>3, <1>4, <1>5, <1>6, <1>7

\* RPCs p send a configuration section by section.
SendsSections(conf, mode, p) ==
  /\ p \in Seq(NcRpcs)
  /\ \A i \in 1 .. Len(p) :
       /\ p[i].do = IF mode = "replace" THEN "replace" ELSE "edit-config"
       /\ mode = "replace" => p[i].stmts = InSection(conf, p[i].section)
       /\ p[i].stmts \subseteq conf
  /\ \A x \in conf : \E i \in 1 .. Len(p) : x \in p[i].stmts
  /\ mode = "replace" =>
       \A s \in ToSet(SectionsOf(conf)) : \E i \in 1 .. Len(p) : p[i].section = s

\* The edits of a restore, section by section, and what they send.
LEMMA SectionEdits ==
  ASSUME NEW conf \in SUBSET NcStatements, NEW mode \in {"merge", "replace"},
         NEW p, p = SectionRpcs(conf, mode)
  PROVE  SendsSections(conf, mode, p)
<1>1. PICK q \in Seq(ToSet(SectionOrder)) :
        q = SectionsOf(conf) /\ \A x \in conf : \E i \in 1 .. Len(q) : q[i] = SectionOf[x]
  BY Sections
<1> DEFINE e(i) == IF mode = "replace" THEN ReplaceSection(q[i], InSection(conf, q[i]))
                   ELSE EditConfig(InSection(conf, q[i]))
           n == Len(q)
<1>2. n \in Nat /\ DOMAIN q = 1 .. n /\ \A i \in 1 .. n : q[i] \in ToSet(SectionOrder)
  BY <1>1
<1>3. p = [i \in 1 .. n |-> e(i)]
  BY <1>1, <1>2 DEF SectionRpcs
<1>4. ASSUME NEW i \in 1 .. n
      PROVE  /\ e(i) \in NcRpcs /\ e(i).stmts = InSection(conf, q[i])
             /\ e(i).do = IF mode = "replace" THEN "replace" ELSE "edit-config"
             /\ mode = "replace" => e(i).section = q[i]
  <2> DEFINE s == q[i]
             c == InSection(conf, s)
  <2>1. s \in ToSet(SectionOrder) /\ c \in SUBSET NcStatements
    BY <1>2 DEF InSection
  <2> HIDE DEF s, c
  <2>2. CASE mode = "replace"
    BY <2>1, <2>2 DEF ReplaceSection, NcRpcs, s, c
  <2>3. CASE mode # "replace"
    BY <2>1, <2>3 DEF EditConfig, NcRpcs, s, c
  <2> QED BY <2>2, <2>3
<1>5. p \in Seq(NcRpcs) /\ Len(p) = n /\ \A i \in 1 .. n : p[i] = e(i)
  <2> HIDE DEF e, n
  <2> QED BY <1>2, <1>3, <1>4
<1> HIDE DEF e, n
<1>6. \A i \in 1 .. n : InSection(conf, q[i]) \subseteq conf
  BY DEF InSection
<1>7. ASSUME NEW x \in conf
      PROVE  \E i \in 1 .. n : x \in p[i].stmts
  <2>1. PICK i \in 1 .. n : q[i] = SectionOf[x]
    BY <1>1 DEF n
  <2>2. x \in InSection(conf, q[i])
    BY <2>1 DEF InSection
  <2> QED BY <1>4, <1>5, <2>2
<1>8. ASSUME mode = "replace", NEW s \in ToSet(SectionsOf(conf))
      PROVE  \E i \in 1 .. n : p[i].section = s
  <2>1. PICK i \in 1 .. n : s = q[i]
    BY <1>1, <1>2 DEF ToSet
  <2> QED BY <1>4, <1>5, <1>8, <2>1
<1> QED BY <1>4, <1>5, <1>6, <1>7, <1>8 DEF SendsSections

\* The call that starts has a plan for what it is to bring about.
LEMMA Planning ==
  ASSUME NcShape, tarball \subseteq store.seen \cup Archive, NEW c \in NcCallers, NEW tool \in NcTools,
         NEW k, k.pc = "connect", k.tool = tool, k.rpcs = RpcsOf(c, tool), k.goal = GoalOf(c, tool)
  PROVE  Drawn(c, k, store.seen)
<1>1. tarball \in SUBSET NcStatements
  BY DEF NcShape
<1>2. CASE tool = "edit"
  <2> DEFINE p == <<EditConfig({Payloads[c][1]})>>
             e == EditConfig({Payloads[c][1]})
  <2>1. Payloads[c][1] \in NcStatements /\ Payloads[c][1] \in ToSet(Payloads[c])
    <3>1. 1 \in 1 .. Len(Payloads[c])
      BY NcGiven
    <3> QED BY <3>1, NcGiven
  <2>2. e \in NcRpcs /\ e.do = "edit-config" /\ e.stmts = {Payloads[c][1]}
    BY <2>1 DEF EditConfig, NcRpcs
  <2>3. k.rpcs = <<e, Rpc("commit")>> /\ k.goal = {Payloads[c][1]}
    BY <1>2 DEF RpcsOf, EditFromXml, GoalOf
  <2> HIDE DEF e
  <2>4. p \in Seq(NcRpcs) /\ Len(p) = 1 /\ p[1] = e /\ k.rpcs = p \o <<Rpc("commit")>>
    BY <2>2, <2>3 DEF e
  <2>5. SentBefore(c, k, store.seen, e)
    BY <1>2, <2>1, <2>2 DEF SentBefore, Fits, NcEdits
  <2> HIDE DEF p
  <2>6. \A i \in 1 .. Len(p) : SentBefore(c, k, store.seen, p[i])
    BY <2>4, <2>5
  <2>7. \A x \in k.goal : \E i \in 1 .. Len(p) : p[i].do \in {"edit-config", "replace"} /\ x \in p[i].stmts
    BY <2>2, <2>3, <2>4
  <2>8. k.tool \in NcCommits /\ k.goal \in SUBSET NcStatements /\ k.tool # "restore replace"
    BY <1>2, <2>1, <2>3 DEF NcCommits
  <2> QED BY <2>4, <2>6, <2>7, <2>8, EndsInCommit
<1>3. CASE tool \in {"apply", "stage"}
  <2>1. PICK p \in Seq(NcRpcs) :
          /\ p = [i \in DOMAIN Payloads[c] |-> EditConfig({Payloads[c][i]})]
          /\ Len(p) = Len(Payloads[c])
          /\ \A i \in 1 .. Len(p) : /\ p[i].do = "edit-config"
                                    /\ p[i].stmts \subseteq ToSet(Payloads[c])
          /\ \A x \in ToSet(Payloads[c]) : \E i \in 1 .. Len(p) : x \in p[i].stmts
    BY PayloadEdits
  <2>2. k.goal = ToSet(Payloads[c]) /\ k.goal \in SUBSET NcStatements
    BY <1>3, NcGiven DEF GoalOf
  <2>3. \A i \in 1 .. Len(p) : SentBefore(c, k, store.seen, p[i])
    BY <1>3, <2>1 DEF SentBefore, Fits, NcEdits
  <2>4. \A x \in k.goal : \E i \in 1 .. Len(p) : p[i].do \in {"edit-config", "replace"} /\ x \in p[i].stmts
    BY <2>1, <2>2
  <2>5. CASE tool = "apply"
    <3>1. k.rpcs = p \o <<Rpc("commit")>>
      BY <2>1, <2>5 DEF RpcsOf, ChangeOperation
    <3>2. k.tool \in NcCommits /\ k.tool # "restore replace"
      BY <2>5 DEF NcCommits
    <3> QED BY <2>2, <2>3, <2>4, <3>1, <3>2, EndsInCommit
  <2>6. CASE tool = "stage"
    <3>1. k.rpcs = p /\ p # <<>>
      <4>1. k.rpcs = p \o <<>>
        BY <2>1, <2>6 DEF RpcsOf, ChangeOperation
      <4>2. Len(p) # 0
        BY <2>1, NcGiven
      <4>3. p \o <<>> = p
        OBVIOUS
      <4> QED BY <4>1, <4>2, <4>3
    <3>2. k.tool \notin NcCommits /\ k.tool # "restore replace"
      BY <2>6 DEF NcCommits
    <3>3. Planned(k)
      BY <2>3, <3>1, <3>2 DEF Planned, SentBefore
    <3>4. Known(c, k, store.seen)
      BY <2>3, <3>1 DEF Known, SentBefore
    <3>5. SendsAll(k)
      BY <2>4, <3>1, <3>2 DEF SendsAll
    <3> QED BY <2>2, <3>1, <3>3, <3>4, <3>5 DEF Drawn
  <2> QED BY <1>3, <2>5, <2>6
<1>4. CASE tool \in {"restore merge", "restore replace"}
  <2> DEFINE mode == IF tool = "restore replace" THEN "replace" ELSE "merge"
             p == SectionRpcs(tarball, mode)
  <2>1. k.rpcs = p \o <<Rpc("commit")>> /\ k.goal = tarball
    BY <1>4 DEF RpcsOf, GoalOf, Restore
  <2>2. mode \in {"merge", "replace"} /\ (mode = "replace" <=> tool = "restore replace")
    BY <1>4
  <2> HIDE DEF mode, p
  <2>3. SendsSections(tarball, mode, p)
    BY <1>1, <2>2, SectionEdits DEF p
  <2>4. PICK r : r = p /\ SendsSections(tarball, mode, r)
    BY <2>3
  <2>5. k.tool \in NcCommits /\ k.goal \in SUBSET NcStatements
    BY <1>1, <1>4, <2>1 DEF NcCommits
  <2>6. \A i \in 1 .. Len(r) : SentBefore(c, k, store.seen, r[i])
    <3> SUFFICES ASSUME NEW i \in 1 .. Len(r)
                 PROVE  SentBefore(c, k, store.seen, r[i])
      OBVIOUS
    <3>1. r[i].stmts \subseteq store.seen \cup Archive
      BY <2>4 DEF SendsSections
    <3>2. CASE mode = "replace"
      BY <2>1, <2>2, <2>4, <3>1, <3>2 DEF SendsSections, SentBefore, Fits
    <3>3. CASE mode # "replace"
      BY <1>4, <2>1, <2>2, <2>4, <3>1, <3>3 DEF SendsSections, SentBefore, Fits
    <3> QED BY <3>2, <3>3
  <2>7. \A x \in k.goal : \E i \in 1 .. Len(r) : r[i].do \in {"edit-config", "replace"} /\ x \in r[i].stmts
    BY <2>1, <2>4 DEF SendsSections
  <2>8. k.tool = "restore replace" => \A s \in ToSet(SectionsOf(k.goal)) : \E i \in 1 .. Len(r) :
          r[i].do = "replace" /\ r[i].section = s
    BY <2>1, <2>2, <2>4 DEF SendsSections
  <2>9. k.rpcs = r \o <<Rpc("commit")>>
    BY <2>1, <2>4
  <2>10. r \in Seq(NcRpcs)
    BY <2>4 DEF SendsSections
  <2> QED BY <2>5, <2>6, <2>7, <2>8, <2>9, <2>10, EndsInCommit
<1>5. CASE tool = "rollback"
  <2> DEFINE p == <<Rpc("rollback")>>
  <2>1. Rpc("rollback") \in NcRpcs /\ Rpc("rollback").do = "rollback"
    BY DEF Rpc, NcRpcs
  <2>2. k.rpcs = p \o <<Rpc("commit")>> /\ k.goal = {}
    BY <1>5 DEF RpcsOf, Rollback, GoalOf
  <2>3. p \in Seq(NcRpcs) /\ Len(p) = 1 /\ p[1] = Rpc("rollback")
    BY <2>1
  <2>4. SentBefore(c, k, store.seen, Rpc("rollback"))
    BY <1>5, <2>1, <2>2 DEF SentBefore, Fits
  <2> HIDE DEF p
  <2>5. \A i \in 1 .. Len(p) : SentBefore(c, k, store.seen, p[i])
    BY <2>3, <2>4
  <2>6. k.tool \in NcCommits /\ k.tool # "restore replace"
    BY <1>5 DEF NcCommits
  <2> QED BY <2>2, <2>3, <2>5, <2>6, EndsInCommit
<1>6. CASE tool \in {"revert", "discard", "backup"}
  <2> DEFINE do == IF tool = "revert" THEN "rollback" ELSE IF tool = "discard" THEN "discard-changes" ELSE "get-config"
  <2>1. k.rpcs = <<Rpc(do)>> /\ k.goal = {}
    <3>1. CASE tool = "revert"
      BY <3>1 DEF RpcsOf, Rollback, GoalOf
    <3>2. CASE tool = "discard"
      BY <3>2 DEF RpcsOf, GoalOf
    <3>3. CASE tool = "backup"
      BY <3>3 DEF RpcsOf, GoalOf
    <3> QED BY <1>6, <3>1, <3>2, <3>3
  <2>2. k.tool \in NcTools \ NcCommits /\ do \in {"rollback", "discard-changes", "get-config"}
    BY <1>6 DEF NcTools, NcCommits
  <2>3. Fits(k, Rpc(do))
    BY <1>6, <2>1, <2>2 DEF Fits, Rpc
  <2> HIDE DEF do
  <2> QED BY <2>1, <2>2, <2>3, OneRpc
<1> QED BY <1>2, <1>3, <1>4, <1>5, <1>6 DEF NcTools

-----------------------------------------------------------------------------
(* The device.                                                             *)

\* What the device is once it has carried out r.
Done(r, s) ==
  /\ s \in NcStores /\ Len(s.hist) \in {1, 2} /\ \A i \in 1 .. Len(s.hist) : s.hist[i] \subseteq s.seen
  /\ store.seen \subseteq s.seen
  /\ r.do = "commit" => s.cand = store.cand /\ s.hist[1] = store.cand /\ s.seen = store.seen \cup store.cand
  /\ r.do # "commit" => s.hist = store.hist /\ s.seen = store.seen
  /\ r.do = "edit-config" => s.cand = store.cand \cup r.stmts
  /\ r.do = "replace" => s.cand = (store.cand \ InSection(store.cand, r.section)) \cup r.stmts
  /\ r.do \in {"rollback", "discard-changes"} => s.cand \subseteq store.seen
  /\ r.do = "get-config" => s = store

\* A history with a new configuration, and the last of those before.
LEMMA NewestOfTwo ==
  ASSUME NEW S, NEW q \in Seq(S), Len(q) \in {1, 2}, NEW e \in S, NEW h, h = <<e>> \o SubSeq(q, 1, 1)
  PROVE  h \in Seq(S) /\ Len(h) = 2 /\ h[1] = e /\ h[2] = q[1] /\ q[1] \in S
<1>1. q[1] \in S
  OBVIOUS
<1>2. SubSeq(q, 1, 1) \in Seq(S) /\ Len(SubSeq(q, 1, 1)) = 1 /\ SubSeq(q, 1, 1)[1] = q[1]
  <2>1. SubSeq(q, 1, 1) \in Seq(S) /\ Len(SubSeq(q, 1, 1)) = 1
    BY SubSeqProperties
  <2>2. SubSeq(q, 1, 1)[1] = q[1]
    BY SubSeqProperties
  <2> QED BY <2>1, <2>2
<1> DEFINE t == SubSeq(q, 1, 1)
<1> HIDE DEF t
<1>3. h = <<e>> \o t /\ t \in Seq(S) /\ Len(t) = 1 /\ t[1] = q[1]
  BY <1>2 DEF t
<1> QED BY <1>1, <1>3

\* An RPC is carried out.
LEMMA Carried ==
  ASSUME NcShape, NEW r \in NcRpcs
  PROVE  Done(r, Effect(r))
<1> DEFINE cand == store.cand  seen == store.seen  hist == store.hist
<1>1. /\ store = [cand |-> cand, seen |-> seen, hist |-> hist]
      /\ cand \in SUBSET NcStatements /\ seen \in SUBSET NcStatements /\ hist \in Seq(SUBSET NcStatements)
      /\ Len(hist) \in {1, 2} /\ \A i \in 1 .. Len(hist) : hist[i] \subseteq seen
  BY DEF NcShape, NcStores
<1>2. \A conf \in SUBSET NcStatements : /\ WithCand(conf) \in NcStores
                                        /\ WithCand(conf).cand = conf /\ WithCand(conf).seen = seen /\ WithCand(conf).hist = hist
  BY <1>1 DEF WithCand, NcStores
<1>3. Earlier \in SUBSET NcStatements /\ Earlier \subseteq seen /\ NcRunning \in SUBSET NcStatements /\ NcRunning \subseteq seen
  BY <1>1 DEF Earlier, NcRunning
<1>4. r.do \in {"commit", "rollback", "discard-changes", "get-config", "edit-config", "replace"}
  BY DEF NcRpcs
<1>5. r.do \in {"edit-config", "replace"} => r.stmts \in SUBSET NcStatements
  BY DEF NcRpcs
<1>6. CASE r.do = "edit-config"
  <2>1. Effect(r) = WithCand(cand \cup r.stmts)
    BY <1>6 DEF Effect
  <2> QED BY <1>1, <1>2, <1>5, <1>6, <2>1 DEF Done
<1>7. CASE r.do = "replace"
  <2>1. Effect(r) = WithCand((cand \ InSection(cand, r.section)) \cup r.stmts)
    BY <1>7 DEF Effect
  <2> QED BY <1>1, <1>2, <1>5, <1>7, <2>1 DEF Done
<1>8. CASE r.do = "rollback"
  <2>1. Effect(r) = WithCand(Earlier)
    BY <1>8 DEF Effect
  <2> QED BY <1>1, <1>2, <1>3, <1>8, <2>1 DEF Done
<1>9. CASE r.do = "discard-changes"
  <2>1. Effect(r) = WithCand(NcRunning)
    BY <1>9 DEF Effect
  <2> QED BY <1>1, <1>2, <1>3, <1>9, <2>1 DEF Done
<1>10. CASE r.do = "get-config"
  <2>1. Effect(r) = store
    BY <1>10 DEF Effect
  <2> QED BY <1>1, <1>10, <2>1 DEF Done, NcStores
<1>11. CASE r.do = "commit"
  <2> DEFINE h == <<cand>> \o SubSeq(hist, 1, 1)
  <2>1. h \in Seq(SUBSET NcStatements) /\ Len(h) = 2 /\ h[1] = cand /\ h[2] = hist[1]
    <3> HIDE DEF cand, hist
    <3>1. hist \in Seq(SUBSET NcStatements) /\ Len(hist) \in {1, 2} /\ cand \in SUBSET NcStatements
      BY <1>1
    <3> QED BY <3>1, NewestOfTwo
  <2>2. h[2] \subseteq seen
    BY <1>1, <2>1
  <2>3. Effect(r) = [cand |-> cand, seen |-> seen \cup cand, hist |-> h]
    BY <1>11 DEF Effect
  <2> HIDE DEF h
  <2>4. \A i \in 1 .. 2 : h[i] \subseteq seen \cup cand
    BY <2>1, <2>2
  <2>5. Effect(r) \in NcStores
    BY <1>1, <2>1, <2>3 DEF NcStores
  <2>6. Effect(r).cand = cand /\ Effect(r).seen = seen \cup cand /\ Effect(r).hist = h
    BY <2>3
  <2> QED BY <1>11, <2>1, <2>4, <2>5, <2>6 DEF Done
<1> QED BY <1>4, <1>6, <1>7, <1>8, <1>9, <1>10, <1>11

\* What a reply says is so.
NcAnswers(r, heard, s) ==
  /\ s = store \/ Done(r, s)
  /\ heard \in {"ok", "empty commit", "rpc-error", "lost"}
  /\ heard = "ok" => Done(r, s)
  /\ heard \in {"rpc-error", "empty commit"} => s = store
  /\ heard = "empty commit" => r.do = "commit" /\ store.cand = store.hist[1]

\* Every reply the device may give.
LEMMA Replied ==
  ASSUME NcShape, NEW r \in NcRpcs, NEW reply \in RpcReplies(r)
  PROVE  NcAnswers(r, reply.heard, reply.store)
<1>1. Done(r, Effect(r))
  BY Carried
<1>2. \/ reply = [heard |-> "empty commit", store |-> store] /\ EmptyCommit(r)
      \/ reply = [heard |-> "ok", store |-> Effect(r)]
      \/ reply = [heard |-> "rpc-error", store |-> store]
      \/ reply = [heard |-> "lost", store |-> store]
      \/ reply = [heard |-> "lost", store |-> Effect(r)]
  BY DEF RpcReplies
<1>3. CASE reply = [heard |-> "empty commit", store |-> store] /\ EmptyCommit(r)
  BY <1>3 DEF NcAnswers, EmptyCommit, NcRunning
<1>4. CASE reply = [heard |-> "ok", store |-> Effect(r)]
  BY <1>1, <1>4 DEF NcAnswers
<1>5. CASE reply = [heard |-> "rpc-error", store |-> store]
  BY <1>5 DEF NcAnswers
<1>6. CASE reply = [heard |-> "lost", store |-> store]
  BY <1>6 DEF NcAnswers
<1>7. CASE reply = [heard |-> "lost", store |-> Effect(r)]
  BY <1>1, <1>7 DEF NcAnswers
<1> QED BY <1>2, <1>3, <1>4, <1>5, <1>6, <1>7

-----------------------------------------------------------------------------
(* What an RPC of one caller leaves of the others.                         *)

\* The calls of the others are as good as they were.
LEMMA OthersKeep ==
  ASSUME NcShape, NEW c \in NcCallers, NEW d \in NcCallers, d # c, NEW r \in NcRpcs,
         CallOK(d, call[d], store, mixed[d]),
         store' = store \/ Done(r, store'), Notice(c, r), call'[d] = call[d]
  PROVE  CallOK(d, call'[d], store', mixed'[d])
<1> DEFINE k == call[d]
<1>1. /\ k.pc # "idle" /\ store' # store =>
           mixed'[d] = mixed[d] \cup {IF r.do = "commit" THEN "commit" ELSE IF r.do = "edit-config" THEN "edit" ELSE "load"}
      /\ mixed[d] \subseteq mixed'[d]
  BY DEF Notice
<1>2. CASE store' = store
  <2>1. CASE mixed'[d] = mixed[d]
    BY <1>2, <2>1
  <2>2. CASE mixed'[d] # mixed[d]
    BY <1>2, <2>2 DEF Notice
  <2> QED BY <2>1, <2>2
<1>3. CASE store' # store /\ Done(r, store')
  <2>1. Planned(k) /\ Known(d, k, store.seen) /\ Covered(k, store.cand, mixed[d])
        /\ Based(k, store.hist, mixed[d])
    BY DEF CallOK
  <2>2. Known(d, k, store'.seen)
    <3>1. store.seen \subseteq store'.seen
      BY <1>3 DEF Done
    <3> QED BY <2>1, <3>1 DEF Known
  <2>3. Covered(k, store'.cand, mixed'[d])
    <3> SUFFICES ASSUME k.pc \in {"connect", "open"}, "load" \notin mixed'[d]
                 PROVE  Covered(k, store'.cand, mixed'[d])
      BY DEF Covered
    <3>1. r.do \in {"commit", "edit-config"} /\ "load" \notin mixed[d]
      BY <1>1, <1>3
    <3>2. store.cand \subseteq store'.cand
      BY <1>3, <3>1 DEF Done
    <3> QED BY <2>1, <3>1, <3>2 DEF Covered
  <2>4. NcReplaced(k, store'.cand, mixed'[d])
    BY <1>1, <1>3 DEF NcReplaced
  <2>5. Based(k, store'.hist, mixed'[d])
    <3> SUFFICES ASSUME k.pc \in {"open", "cleanup"}, "commit" \notin mixed'[d]
                 PROVE  Based(k, store'.hist, mixed'[d])
      BY DEF Based
    <3>1. r.do # "commit" /\ "commit" \notin mixed[d]
      BY <1>1, <1>3
    <3>2. store'.hist = store.hist
      BY <1>3, <3>1 DEF Done
    <3> QED BY <2>1, <3>1, <3>2 DEF Based
  <2> QED BY <2>1, <2>2, <2>3, <2>4, <2>5 DEF CallOK
<1> QED BY <1>2, <1>3

-----------------------------------------------------------------------------
(* The steps of a call.                                                    *)

\* A call returns: it has no more to send and knows what it knows.
Returned(c, k, v, u) ==
  k = [call[c] EXCEPT !.pc = "idle", !.rpcs = <<>>, !.verdict = v, !.goal = {}, !.base = {},
                      !.told = Told(c, v), !.unswept = u]

\* A call that is over is one that a caller can be at.
LEMMA OverIsACall ==
  ASSUME NcShape, NEW c \in NcCallers, NEW v \in NcVerdicts, NEW u \in BOOLEAN,
         NEW k, Returned(c, k, v, u)
  PROVE  k \in NcCalls
<1>1. call[c] \in NcCalls
  BY DEF NcShape
<1>2. Told(c, v) \in BOOLEAN
  BY <1>1 DEF Told, NcCalls
<1>3. PICK t, l, b : t = call[c].tool /\ l = call[c].left /\ b = Told(c, v)
  OBVIOUS
<1>4. k = [pc |-> "idle", tool |-> t, rpcs |-> <<>>, verdict |-> v, goal |-> {}, base |-> {},
           told |-> b, unswept |-> u, left |-> l]
  BY <1>1, <1>3 DEF Returned, NcCalls
<1>5. t \in NcTools /\ l \in Nat /\ b \in BOOLEAN
  BY <1>1, <1>2, <1>3 DEF NcCalls
<1>6. <<>> \in Seq(NcRpcs) /\ {} \in SUBSET NcStatements
  OBVIOUS
<1> QED BY ONLY <1>4, <1>5, <1>6, v \in NcVerdicts, u \in BOOLEAN DEF NcCalls

\* A call that is over is well.
LEMMA OverIsWell ==
  ASSUME NcShape, NEW c \in NcCallers, NEW v \in NcVerdicts, NEW u \in BOOLEAN,
         NEW k, Returned(c, k, v, u), NEW st, NEW mx
  PROVE  /\ k \in NcCalls /\ k.pc = "idle" /\ k.verdict = v /\ k.told = Told(c, v)
         /\ k.unswept = u /\ k.tool = call[c].tool /\ CallOK(c, k, st, mx)
<1>1. call[c] \in NcCalls
  BY DEF NcShape
<1>2. Told(c, v) \in BOOLEAN
  BY <1>1 DEF Told, NcCalls
<1>3. /\ k.pc = "idle" /\ k.rpcs = <<>> /\ k.verdict = v /\ k.goal = {} /\ k.base = {} /\ k.told = Told(c, v)
      /\ k.unswept = u /\ k.tool = call[c].tool /\ k.left = call[c].left
  BY <1>1 DEF Returned, NcCalls
<1>4. k \in NcCalls
  BY OverIsACall
<1>5. Len(k.rpcs) = 0
  BY <1>3
<1> QED BY <1>3, <1>4, <1>5 DEF CallOK, Planned, Known, Covered, NcReplaced, Based

\* What a caller knows after its call.
LEMMA Knows ==
  ASSUME NcShape, NEW c \in NcCallers
  PROVE  /\ call[c].unswept \in BOOLEAN /\ Told(c, "error") = TRUE
         /\ Told(c, "ok") = (call[c].told \/ call[c].tool \in {"stage", "revert"})
BY DEF Told, NcShape, NcCalls

\* At first nobody calls, and the candidate holds what runs.
LEMMA NcInitInv ==
  ASSUME NcInit
  PROVE  NcInv
<1>1. NcShape
  <2>1. store = [cand |-> Factory, hist |-> <<Factory>>, seen |-> Factory]
    BY DEF NcInit
  <2>2. store \in NcStores /\ Len(store.hist) = 1 /\ store.hist[1] = Factory /\ store.seen = Factory
    BY <2>1, NcGiven DEF NcStores
  <2>3. call \in [NcCallers -> NcCalls]
    <3>1. \A c \in NcCallers : ncSetting.calls[c] \in Nat
      BY NcGiven DEF NcInit
    <3>2. <<>> \in Seq(NcRpcs) /\ {} \in SUBSET NcStatements /\ "backup" \in NcTools /\ "none" \in NcVerdicts
      BY DEF NcTools, NcVerdicts
    <3>3. ASSUME NEW n \in Nat
          PROVE  [pc |-> "idle", tool |-> "backup", rpcs |-> <<>>, verdict |-> "none", goal |-> {}, base |-> {},
                  told |-> FALSE, unswept |-> FALSE, left |-> n] \in NcCalls
      BY <3>2 DEF NcCalls
    <3> QED BY <3>1, <3>3 DEF NcInit
  <2>4. tarball \in SUBSET NcStatements /\ tarball # {} /\ mixed \in [NcCallers -> SUBSET {"commit", "edit", "load"}]
        /\ ncSetting \in NcSettings
    BY NcGiven DEF NcInit
  <2>5. \A i \in 1 .. Len(store.hist) : store.hist[i] \subseteq store.seen
    BY <2>2
  <2> QED BY <2>2, <2>3, <2>4, <2>5 DEF NcShape
<1>2. tarball \subseteq store.seen \cup Archive /\ Owned(store.cand, store.seen, call)
  BY DEF NcInit, Owned
<1>3. ASSUME NEW c \in NcCallers
      PROVE  CallOK(c, call[c], store, mixed[c])
  <2>1. call[c].pc = "idle" /\ call[c].rpcs = <<>>
    BY DEF NcInit
  <2>2. Len(call[c].rpcs) = 0
    BY <2>1
  <2> QED BY <2>1, <2>2 DEF CallOK, Planned, Known, Covered, NcReplaced, Based
<1> QED BY <1>1, <1>2, <1>3 DEF NcInv

\* Where one caller moves and the device stands still.
LEMMA AloneKeeps ==
  ASSUME NcInv, NEW c \in NcCallers, NEW k \in NcCalls, call' = [call EXCEPT ![c] = k],
         mixed' \in [NcCallers -> SUBSET {"commit", "edit", "load"}],
         \A d \in NcCallers \ {c} : mixed'[d] = mixed[d],
         UNCHANGED <<ncSetting, store, tarball>>,
         CallOK(c, k, store, mixed'[c]), NcStaging(call[c]) => NcStaging(k)
  PROVE  NcInv'
<1>1. call \in [NcCallers -> NcCalls]
  BY DEF NcInv, NcShape
<1>2. call' \in [NcCallers -> NcCalls] /\ call'[c] = k /\ \A d \in NcCallers \ {c} : call'[d] = call[d]
  BY <1>1
<1>3. NcShape'
  BY <1>2 DEF NcInv, NcShape
<1>4. (tarball \subseteq store.seen \cup Archive)'
  BY DEF NcInv
<1>5. Owned(store'.cand, store'.seen, call')
  <2>1. \A d \in NcCallers : NcStaging(call[d]) => NcStaging(call'[d])
    BY <1>2
  <2> QED BY <2>1 DEF NcInv, Owned
<1>6. \A d \in NcCallers : CallOK(d, call'[d], store', mixed'[d])
  BY <1>2 DEF NcInv
<1> QED BY <1>3, <1>4, <1>5, <1>6 DEF NcInv

\* A call is started.
LEMMA NcStartInv ==
  ASSUME NcInv, NEW c \in NcCallers, NEW tool \in NcTools, NcStart(c, tool)
  PROVE  NcInv'
<1> DEFINE k == [call[c] EXCEPT !.pc = "connect", !.tool = tool, !.rpcs = RpcsOf(c, tool),
                   !.verdict = "none", !.goal = GoalOf(c, tool), !.left = @ - 1]
<1>1. call \in [NcCallers -> NcCalls] /\ mixed \in [NcCallers -> SUBSET {"commit", "edit", "load"}] /\ NcShape
      /\ tarball \subseteq store.seen \cup Archive
  BY DEF NcInv, NcShape
<1>2. call[c] \in NcCalls /\ call[c].left > 0 /\ call[c].pc = "idle"
  BY <1>1 DEF NcStart
<1>3. k.pc = "connect" /\ k.tool = tool /\ k.rpcs = RpcsOf(c, tool) /\ k.goal = GoalOf(c, tool)
      /\ k.told = call[c].told /\ k.unswept = call[c].unswept
  BY <1>2 DEF NcCalls
<1>4. Drawn(c, k, store.seen)
  <2> HIDE DEF k
  <2> QED BY <1>1, <1>3, Planning
<1>5. k \in NcCalls
  <2>1. RpcsOf(c, tool) \in Seq(NcRpcs) /\ GoalOf(c, tool) \in SUBSET NcStatements
    BY <1>3, <1>4 DEF Drawn
  <2> DEFINE q == RpcsOf(c, tool)  g == GoalOf(c, tool)
  <2> HIDE DEF q, g
  <2>2. q \in Seq(NcRpcs) /\ g \in SUBSET NcStatements
    BY <2>1 DEF q, g
  <2>3. [call[c] EXCEPT !.pc = "connect", !.tool = tool, !.rpcs = q,
                   !.verdict = "none", !.goal = g, !.left = @ - 1] \in NcCalls
    <3>1. PICK n : n = call[c].left
      OBVIOUS
    <3>2. n - 1 \in Nat /\ "none" \in NcVerdicts
      <4>1. n \in Nat /\ n > 0
        BY <1>2, <3>1 DEF NcCalls
      <4> QED BY <4>1 DEF NcVerdicts
    <3>3. [call[c] EXCEPT !.pc = "connect", !.tool = tool, !.rpcs = q,
                   !.verdict = "none", !.goal = g, !.left = n - 1] \in NcCalls
      BY <1>2, <2>2, <3>2 DEF NcCalls
    <3> QED BY <3>1, <3>3
  <2> QED BY <2>3 DEF q, g
<1>6. call' = [call EXCEPT ![c] = k] /\ mixed' = [mixed EXCEPT ![c] = {}] /\ UNCHANGED <<ncSetting, store, tarball>>
  <2>1. call' = [call EXCEPT ![c] = k]
    BY <1>2 DEF NcStart
  <2>2. mixed' = [mixed EXCEPT ![c] = {}] /\ UNCHANGED <<ncSetting, store, tarball>>
    BY DEF NcStart
  <2> QED BY <2>1, <2>2
<1> HIDE DEF k
<1>7. mixed' \in [NcCallers -> SUBSET {"commit", "edit", "load"}] /\ mixed'[c] = {}
      /\ \A d \in NcCallers \ {c} : mixed'[d] = mixed[d]
  BY <1>1, <1>6
<1>8. CallOK(c, k, store, mixed'[c])
  <2>1. Covered(k, store.cand, mixed'[c])
    BY <1>4 DEF Drawn, SendsAll, Covered
  <2>2. NcReplaced(k, store.cand, mixed'[c])
    BY <1>4 DEF Drawn, SendsAll, NcReplaced
  <2>3. Based(k, store.hist, mixed'[c])
    BY <1>3 DEF Based
  <2> QED BY <1>4, <2>1, <2>2, <2>3 DEF CallOK, Drawn
<1>9. NcStaging(call[c]) => NcStaging(k)
  BY <1>2, <1>3 DEF NcStaging
<1> QED BY <1>5, <1>6, <1>7, <1>8, <1>9, AloneKeeps

\* The session opens, or does not.
LEMMA NcConnectInv ==
  ASSUME NcInv, NEW c \in NcCallers, NcConnect(c)
  PROVE  NcInv'
<1>1. call \in [NcCallers -> NcCalls] /\ mixed \in [NcCallers -> SUBSET {"commit", "edit", "load"}] /\ NcShape
      /\ CallOK(c, call[c], store, mixed[c])
  BY DEF NcInv, NcShape
<1>2. call[c] \in NcCalls /\ call[c].pc = "connect"
  BY <1>1 DEF NcConnect
<1>3. UNCHANGED <<ncSetting, store, tarball, mixed>>
  BY DEF NcConnect
<1>4. CASE call' = [call EXCEPT ![c].pc = "open", ![c].base = NcRunning]
  <2> DEFINE k == [call[c] EXCEPT !.pc = "open", !.base = NcRunning]
  <2>1. call' = [call EXCEPT ![c] = k]
    BY <1>1, <1>2, <1>4 DEF NcCalls
  <2>2. NcRunning \in SUBSET NcStatements /\ NcRunning = store.hist[1]
    BY <1>1 DEF NcRunning, NcShape, NcStores
  <2>3. k \in NcCalls /\ k.pc = "open" /\ k.base = store.hist[1] /\ k.rpcs = call[c].rpcs /\ k.goal = call[c].goal
        /\ k.tool = call[c].tool /\ k.told = call[c].told /\ k.unswept = call[c].unswept
    BY <1>2, <2>2 DEF NcCalls
  <2> HIDE DEF k
  <2>4. CallOK(c, k, store, mixed[c])
    <3>1. Planned(k)
      BY <1>1, <1>2, <2>3 DEF CallOK, Planned, Fits
    <3>2. Known(c, k, store.seen)
      BY <1>1, <2>3 DEF CallOK, Known
    <3>3. Covered(k, store.cand, mixed[c])
      BY <1>1, <1>2, <2>3 DEF CallOK, Covered
    <3>4. NcReplaced(k, store.cand, mixed[c])
      <4>1. NcReplaced(call[c], store.cand, mixed[c])
        BY <1>1 DEF CallOK
      <4>2. k.tool = call[c].tool /\ k.goal = call[c].goal /\ k.rpcs = call[c].rpcs
        BY <2>3
      <4>3. call[c].pc \in {"connect", "open"}
        BY <1>2
      <4>4. ASSUME k.tool = "restore replace", mixed[c] = {}, NEW s \in ToSet(SectionsOf(k.goal))
            PROVE  InSection(store.cand, s) = InSection(k.goal, s)
                   \/ \E i \in 1 .. Len(k.rpcs) : k.rpcs[i].do = "replace" /\ k.rpcs[i].section = s
        <5>1. s \in ToSet(SectionsOf(call[c].goal)) /\ call[c].tool = "restore replace"
          BY <4>2, <4>4
        <5>2. InSection(store.cand, s) = InSection(call[c].goal, s)
              \/ \E i \in 1 .. Len(call[c].rpcs) : call[c].rpcs[i].do = "replace" /\ call[c].rpcs[i].section = s
          BY <4>1, <4>3, <4>4, <5>1 DEF NcReplaced
        <5> QED BY <4>2, <5>2
      <4> QED BY <4>4 DEF NcReplaced
    <3> QED BY <2>3, <3>1, <3>2, <3>3, <3>4 DEF CallOK, Based
  <2>5. NcStaging(call[c]) => NcStaging(k)
    BY <1>2, <2>3 DEF NcStaging
  <2> QED BY <1>1, <1>3, <2>1, <2>3, <2>4, <2>5, AloneKeeps
<1>5. CASE NcReturn(c, "error")
  <2> DEFINE k == [call[c] EXCEPT !.pc = "idle", !.rpcs = <<>>, !.verdict = "error", !.goal = {}, !.base = {},
                                  !.told = Told(c, "error"), !.unswept = call[c].unswept]
  <2>1. call' = [call EXCEPT ![c] = k]
    BY <1>5 DEF NcReturn, NcReturnAs
  <2>2. Returned(c, k, "error", call[c].unswept)
    BY DEF Returned
  <2> HIDE DEF k
  <2>a. "error" \in NcVerdicts /\ Told(c, "error") = TRUE /\ call[c].unswept \in BOOLEAN
    BY <1>1, Knows DEF NcVerdicts
  <2>b. k \in NcCalls /\ k.told = Told(c, "error") /\ CallOK(c, k, store, mixed[c])
    BY <1>1, <2>2, <2>a, OverIsWell
  <2>3. k \in NcCalls /\ k.told = TRUE /\ CallOK(c, k, store, mixed[c])
    BY <2>a, <2>b
  <2>4. NcStaging(k)
    BY <2>3 DEF NcStaging
  <2> QED BY <1>1, <1>3, <2>1, <2>3, <2>4, AloneKeeps
<1> QED BY <1>4, <1>5 DEF NcConnect

\* Where one caller moves by an RPC r.
LEMMA MovesKeep ==
  ASSUME NcInv, NEW c \in NcCallers, NEW k \in NcCalls, call' = [call EXCEPT ![c] = k],
         NEW r \in NcRpcs, store' = store \/ Done(r, store'), Notice(c, r), ncSetting' = ncSetting,
         tarball' \in SUBSET NcStatements, tarball' # {}, tarball' \subseteq store'.seen \cup Archive,
         CallOK(c, k, store', mixed[c]),
         \/ store'.cand \subseteq store'.seen
         \/ /\ NcStaging(call[c]) => NcStaging(k)
            /\ r.do \in {"edit-config", "replace"} =>
                 r.stmts \subseteq store.seen \cup Archive \cup (IF NcStaging(k) THEN ToSet(Payloads[c]) ELSE {})
  PROVE  NcInv'
<1>1. call \in [NcCallers -> NcCalls] /\ mixed \in [NcCallers -> SUBSET {"commit", "edit", "load"}] /\ NcShape
  BY DEF NcInv, NcShape
<1>2. call' \in [NcCallers -> NcCalls] /\ call'[c] = k /\ \A d \in NcCallers \ {c} : call'[d] = call[d]
  BY <1>1
<1>3. mixed' \in [NcCallers -> SUBSET {"commit", "edit", "load"}] /\ mixed'[c] = mixed[c]
  BY <1>1 DEF Notice
<1>4. /\ store' \in NcStores /\ Len(store'.hist) \in {1, 2}
      /\ \A i \in 1 .. Len(store'.hist) : store'.hist[i] \subseteq store'.seen
      /\ store.seen \subseteq store'.seen
  <2>1. CASE store' = store
    BY <1>1, <2>1 DEF NcShape
  <2>2. CASE Done(r, store')
    BY <2>2 DEF Done
  <2> QED BY <2>1, <2>2
<1>5. NcShape'
  BY <1>1, <1>2, <1>3, <1>4 DEF NcShape
<1>6. \A d \in NcCallers : CallOK(d, call'[d], store', mixed'[d])
  <2>1. CallOK(c, call'[c], store', mixed'[c])
    BY <1>2, <1>3
  <2>2. ASSUME NEW d \in NcCallers, d # c
        PROVE  CallOK(d, call'[d], store', mixed'[d])
    <3>1. CallOK(d, call[d], store, mixed[d]) /\ call'[d] = call[d]
      BY <1>2, <2>2 DEF NcInv
    <3> QED BY <1>1, <2>2, <3>1, OthersKeep
  <2> QED BY <2>1, <2>2
<1>7. Owned(store'.cand, store'.seen, call')
  <2>1. CASE store'.cand \subseteq store'.seen
    BY <2>1 DEF Owned
  <2>2. CASE /\ NcStaging(call[c]) => NcStaging(k)
             /\ r.do \in {"edit-config", "replace"} =>
                  r.stmts \subseteq store.seen \cup Archive \cup (IF NcStaging(k) THEN ToSet(Payloads[c]) ELSE {})
    <3>1. \A d \in NcCallers : NcStaging(call[d]) => NcStaging(call'[d])
      BY <1>2, <2>2
    <3>2. Owned(store.cand, store'.seen, call')
      BY <1>4, <3>1 DEF NcInv, Owned
    <3>3. r.do \in {"commit", "rollback", "discard-changes", "get-config", "edit-config", "replace"}
      BY DEF NcRpcs
    <3>4. store'.cand = store.cand \/ store'.cand \subseteq store.seen
          \/ (r.do \in {"edit-config", "replace"} /\ store'.cand \subseteq store.cand \cup r.stmts)
      <4>1. CASE store' = store
        BY <4>1
      <4>2. CASE Done(r, store')
        BY <3>3, <4>2 DEF Done
      <4> QED BY <4>1, <4>2
    <3>5. CASE store'.cand = store.cand
      BY <3>2, <3>5
    <3>6. CASE store'.cand \subseteq store.seen
      BY <1>4, <3>6 DEF Owned
    <3>7. CASE r.do \in {"edit-config", "replace"} /\ store'.cand \subseteq store.cand \cup r.stmts
      <4> SUFFICES ASSUME NEW x \in store'.cand, x \notin store'.seen \cup Archive
                   PROVE  \E d \in NcCallers : x \in ToSet(Payloads[d]) /\ NcStaging(call'[d])
        BY DEF Owned
      <4>1. CASE x \in store.cand
        BY <3>2, <4>1 DEF Owned
      <4>2. CASE x \in r.stmts
        <5>1. NcStaging(k) /\ x \in ToSet(Payloads[c])
          BY <1>4, <2>2, <3>7, <4>2
        <5> QED BY <1>2, <5>1
      <4> QED BY <3>7, <4>1, <4>2
    <3> QED BY <3>4, <3>5, <3>6, <3>7
  <2> QED BY <2>1, <2>2
<1> QED BY <1>5, <1>6, <1>7 DEF NcInv

\* The ways a call goes on from an RPC, by what is heard.
Cleans(c, k, heard) ==
  /\ k.pc = "cleanup" /\ k.verdict \in {"edit_error", "commit_error"}
  /\ k.rpcs = call[c].rpcs /\ k.goal = call[c].goal /\ k.base = call[c].base
  /\ k.tool = call[c].tool /\ k.told = call[c].told /\ k.unswept = call[c].unswept
  /\ call[c].tool = "edit" /\ heard \in {"rpc-error", "empty commit"}
NcGoesOn(c, k, heard) ==
  /\ k.pc = "open" /\ k.rpcs = Tail(call[c].rpcs) /\ k.rpcs # <<>> /\ k.goal = call[c].goal
  /\ k.base = call[c].base /\ k.tool = call[c].tool /\ k.told = call[c].told /\ k.unswept = call[c].unswept
  /\ heard \in {"ok", "empty commit"}
EndsWell(c, k, heard) ==
  Returned(c, k, "ok", call[c].unswept) /\ Tail(call[c].rpcs) = <<>> /\ heard \in {"ok", "empty commit"}

\* A step of NcCall: the reply, and where the call is then.
Takes(c, heard, k) ==
  /\ k \in NcCalls /\ call' = [call EXCEPT ![c] = k]
  /\ NcAnswers(Head(call[c].rpcs), heard, store') /\ Notice(c, Head(call[c].rpcs))
  /\ ncSetting' = ncSetting
  /\ tarball' = tarball \/ (tarball' = NcRunning /\ NcRunning # {})
  /\ Cleans(c, k, heard) \/ Returned(c, k, "error", call[c].unswept) \/ NcGoesOn(c, k, heard) \/ EndsWell(c, k, heard)

\* The first RPC of a call that is open, and the others.
LEMMA FirstRpc ==
  ASSUME NEW q \in Seq(NcRpcs), q # <<>>
  PROVE  /\ Head(q) \in NcRpcs /\ Head(q) = q[1] /\ 1 \in 1 .. Len(q) /\ Len(q) \in Nat
         /\ Tail(q) \in Seq(NcRpcs) /\ Len(Tail(q)) = Len(q) - 1
         /\ \A i \in 1 .. Len(Tail(q)) : Tail(q)[i] = q[i + 1] /\ i + 1 \in 1 .. Len(q)
         /\ Tail(q) = <<>> => Len(q) = 1
<1>1. Len(q) \in Nat /\ Len(q) # 0
  OBVIOUS
<1>2. Head(q) \in NcRpcs /\ Head(q) = q[1] /\ 1 \in 1 .. Len(q)
  BY <1>1
<1>3. PICK t : t = Tail(q)
  OBVIOUS
<1>4. t \in Seq(NcRpcs) /\ Len(t) = Len(q) - 1 /\ \A i \in 1 .. Len(t) : t[i] = q[i + 1]
  BY <1>1, <1>3, HeadTailProperties
<1>5. \A i \in 1 .. Len(t) : i + 1 \in 1 .. Len(q)
  BY <1>1, <1>4
<1>6. t = <<>> => Len(q) = 1
  BY <1>1, <1>4
<1> QED BY <1>1, <1>2, <1>3, <1>4, <1>5, <1>6

\* Whatever is heard of its next RPC, an open call moves in one of four ways.
LEMMA CallMoves ==
  ASSUME NcShape, NEW c \in NcCallers, NcCall(c), call[c].rpcs # <<>>
  PROVE  \E heard, k : Takes(c, heard, k)
<1> DEFINE q == call[c].rpcs
<1>1. call \in [NcCallers -> NcCalls] /\ call[c] \in NcCalls /\ q \in Seq(NcRpcs) /\ call[c].pc = "open"
  BY DEF NcShape, NcCalls, NcCall
<1>2. PICK r : r = Head(q)
  OBVIOUS
<1>3. PICK rest : rest = Tail(q)
  OBVIOUS
<1>4. r \in NcRpcs /\ rest \in Seq(NcRpcs)
  BY <1>1, <1>2, <1>3, FirstRpc
<1>5. PICK reply \in RpcReplies(r) :
       /\ store' = reply.store
       /\ Notice(c, r)
       /\ CASE Discards(c, reply.heard) ->
                 call' = [call EXCEPT ![c].pc = "cleanup", ![c].verdict = RefusedAs(r)]
            [] ~Discards(c, reply.heard) /\ ~Succeeded(c, reply.heard) -> NcReturn(c, "error")
            [] Succeeded(c, reply.heard) /\ rest # <<>> ->
                 call' = [call EXCEPT ![c].rpcs = rest]
            [] OTHER -> NcReturn(c, IF r.do = "get-config" /\ Pull = {} THEN "error" ELSE "ok")
       /\ tarball' = IF r.do = "get-config" /\ reply.heard = "ok" /\ Pull # {}
                     THEN Pull ELSE tarball
  BY <1>2, <1>3 DEF NcCall
<1>6. PICK heard : heard = reply.heard
  OBVIOUS
<1>7. NcAnswers(Head(q), heard, store') /\ Notice(c, Head(q)) /\ ncSetting' = ncSetting
  BY <1>2, <1>4, <1>5, <1>6, Replied DEF NcCall
<1>8. tarball' = tarball \/ (tarball' = NcRunning /\ NcRunning # {})
  BY <1>5 DEF Pull
<1>9. ASSUME NEW k, k \in NcCalls, call' = [call EXCEPT ![c] = k],
             Cleans(c, k, heard) \/ Returned(c, k, "error", call[c].unswept) \/ NcGoesOn(c, k, heard) \/ EndsWell(c, k, heard)
      PROVE  \E h, j : Takes(c, h, j)
  <2>1. Takes(c, heard, k)
    BY <1>7, <1>8, <1>9 DEF Takes
  <2> QED BY <2>1
<1>10. ASSUME NEW v \in {"ok", "error"}, NcReturn(c, v), v = "ok" => rest = <<>> /\ heard \in {"ok", "empty commit"}
       PROVE  \E h, j : Takes(c, h, j)
  <2> DEFINE k == [call[c] EXCEPT !.pc = "idle", !.rpcs = <<>>, !.verdict = v, !.goal = {}, !.base = {},
                                  !.told = Told(c, v), !.unswept = call[c].unswept]
  <2>1. call' = [call EXCEPT ![c] = k] /\ Returned(c, k, v, call[c].unswept)
    BY <1>10 DEF NcReturn, NcReturnAs, Returned
  <2> HIDE DEF k
  <2>2. k \in NcCalls
    <3>1. v \in NcVerdicts /\ call[c].unswept \in BOOLEAN
      BY <1>10, Knows DEF NcVerdicts
    <3> QED BY <2>1, <3>1, OverIsACall
  <2>3. Returned(c, k, "error", call[c].unswept) \/ EndsWell(c, k, heard)
    BY <1>3, <1>10, <2>1 DEF EndsWell
  <2> QED BY <1>9, <2>1, <2>2, <2>3
<1>11. CASE Discards(c, heard)
  <2>1. PICK v : v = RefusedAs(r)
    OBVIOUS
  <2>2. call' = [call EXCEPT ![c].pc = "cleanup", ![c].verdict = v]
    <3>1. Discards(c, reply.heard) /\ ~Succeeded(c, reply.heard)
      BY <1>6, <1>11 DEF Discards, Succeeded
    <3> QED BY <1>5, <2>1, <3>1
  <2>3. v \in {"commit_error", "edit_error"}
    BY <2>1 DEF RefusedAs
  <2> DEFINE k == [call[c] EXCEPT !.pc = "cleanup", !.verdict = v]
  <2>4. call' = [call EXCEPT ![c] = k]
    BY <1>1, <2>2 DEF NcCalls
  <2>5. k \in NcCalls
    BY <1>1, <2>3 DEF NcCalls, NcVerdicts
  <2>6. Cleans(c, k, heard)
    BY <1>1, <1>11, <2>3 DEF NcCalls, Cleans, Discards
  <2> HIDE DEF k
  <2> QED BY <1>9, <2>4, <2>5, <2>6
<1>12. CASE ~Discards(c, heard) /\ ~Succeeded(c, heard)
  <2>1. NcReturn(c, "error")
    BY <1>5, <1>6, <1>12
  <2> QED BY <1>10, <2>1
<1>13. Succeeded(c, heard) => heard \in {"ok", "empty commit"}
  BY DEF Succeeded, TryCommit
<1>14. CASE ~Discards(c, heard) /\ Succeeded(c, heard) /\ rest # <<>>
  <2> DEFINE k == [call[c] EXCEPT !.rpcs = rest]
  <2>1. call' = [call EXCEPT ![c].rpcs = rest]
    BY <1>5, <1>6, <1>14
  <2>2. call' = [call EXCEPT ![c] = k] /\ k \in NcCalls
    BY <1>1, <1>4, <2>1 DEF NcCalls
  <2>3. NcGoesOn(c, k, heard)
    BY <1>1, <1>3, <1>13, <1>14 DEF NcCalls, NcGoesOn
  <2> HIDE DEF k
  <2> QED BY <1>9, <2>2, <2>3
<1>15. CASE ~Discards(c, heard) /\ Succeeded(c, heard) /\ rest = <<>>
  <2>1. NcReturn(c, "error") \/ NcReturn(c, "ok")
    BY <1>5, <1>6, <1>15
  <2> QED BY <1>10, <1>13, <1>15, <2>1
<1> QED BY <1>11, <1>12, <1>14, <1>15

\* A call that goes on is well.
LEMMA GoesOnWell ==
  ASSUME NcInv, NEW c \in NcCallers, NEW k, NEW heard, NEW q \in Seq(NcRpcs), q = call[c].rpcs, q # <<>>,
         call[c].pc = "open", NcGoesOn(c, k, heard), NcAnswers(Head(q), heard, store')
  PROVE  CallOK(c, k, store', mixed[c]) /\ Done(Head(q), store') /\ Head(q).do # "commit"
<1> DEFINE r == Head(q)  rest == Tail(q)  old == call[c]
<1>1. /\ r \in NcRpcs /\ r = q[1] /\ Len(q) \in Nat /\ 1 \in 1 .. Len(q) /\ Len(rest) = Len(q) - 1
      /\ \A i \in 1 .. Len(rest) : rest[i] = q[i + 1] /\ i + 1 \in 1 .. Len(q)
  BY FirstRpc
<1>2. /\ k.pc = "open" /\ k.rpcs = rest /\ rest # <<>> /\ k.goal = old.goal /\ k.base = old.base /\ k.tool = old.tool
      /\ heard \in {"ok", "empty commit"}
  BY DEF NcGoesOn
<1>3. CallOK(c, old, store, mixed[c])
  BY DEF NcInv
<1> HIDE DEF r, rest, old
<1>q. q = old.rpcs /\ old.pc = "open"
  BY DEF old
<1>4. Len(q) > 1
  <2>1. rest \in Seq(NcRpcs)
    BY FirstRpc DEF rest
  <2>2. Len(rest) # 0
    BY <1>2, <2>1, EmptySeq
  <2>3. PICK n, m : n = Len(q) /\ m = Len(rest)
    OBVIOUS
  <2>4. n \in Nat /\ m = n - 1 /\ m # 0 /\ 1 \in 1 .. n
    BY <1>1, <2>2, <2>3
  <2>5. n > 1
    BY <2>4
  <2> QED BY <2>3, <2>5
<1>5. \A i \in 1 .. Len(q) : Fits(old, q[i]) /\ (q[i].do = "commit" => i = Len(q))
  BY <1>3, <1>q DEF CallOK, Planned
<1>6. r.do # "commit"
  BY <1>1, <1>4, <1>5
<1>7. Done(r, store')
  BY <1>2, <1>6 DEF NcAnswers, r
<1>8. Planned(k)
  <2>1. \A r1 \in NcRpcs : Fits(old, r1) => Fits(k, r1)
    BY <1>2 DEF Fits
  <2>2. \A i \in 1 .. Len(q) : q[i] \in NcRpcs
    OBVIOUS
  <2>3. \A i \in 1 .. Len(rest) : Fits(k, rest[i]) /\ (rest[i].do = "commit" => i = Len(rest))
    BY <1>1, <1>5, <2>1, <2>2
  <2>4. k.tool \in NcCommits => rest[Len(rest)].do = "commit"
    <3>1. old.tool \in NcCommits => q[Len(q)].do = "commit"
      BY <1>3, <1>q DEF CallOK, Planned
    <3>2. rest[Len(rest)] = q[Len(q)]
      BY <1>1, <1>4
    <3> QED BY <1>2, <3>1, <3>2
  <2> QED BY <1>2, <2>3, <2>4 DEF Planned
<1>9. Known(c, k, store'.seen)
  <2>1. Known(c, old, store.seen) /\ store.seen \subseteq store'.seen
    BY <1>3, <1>7 DEF CallOK, Done
  <2> QED BY <1>1, <1>2, <1>q, <2>1 DEF Known
<1>10. Fits(old, r)
  BY <1>1, <1>5
<1>11. r.do \in {"rollback", "discard-changes", "get-config", "edit-config", "replace"}
  BY <1>1, <1>6 DEF NcRpcs
<1>12. Covered(k, store'.cand, mixed[c])
  <2> SUFFICES ASSUME "load" \notin mixed[c], NEW x \in old.goal, x \notin store'.cand
               PROVE  \E i \in 1 .. Len(rest) : rest[i].do \in {"edit-config", "replace"} /\ x \in rest[i].stmts
    BY <1>2 DEF Covered
  <2>1. x \in store.cand \/ \E i \in 1 .. Len(q) : q[i].do \in {"edit-config", "replace"} /\ x \in q[i].stmts
    BY <1>3, <1>q DEF CallOK, Covered
  <2>2. r.do \notin {"rollback", "discard-changes"}
    BY <1>10 DEF Fits
  <2>3. r.do = "replace" => r.stmts = InSection(old.goal, r.section)
    BY <1>10 DEF Fits
  <2>4. x \notin store.cand
    <3>1. CASE r.do = "get-config"
      BY <1>7, <3>1 DEF Done
    <3>2. CASE r.do = "edit-config"
      BY <1>7, <3>2 DEF Done
    <3>3. CASE r.do = "replace"
      BY <1>7, <2>3, <3>3 DEF Done, InSection
    <3> QED BY <1>11, <2>2, <3>1, <3>2, <3>3
  <2>5. PICK i \in 1 .. Len(q) : q[i].do \in {"edit-config", "replace"} /\ x \in q[i].stmts
    BY <2>1, <2>4
  <2>6. i # 1
    BY <1>1, <1>7, <2>5 DEF Done
  <2>7. i - 1 \in 1 .. Len(rest) /\ rest[i - 1] = q[i]
    BY <1>1, <2>6
  <2> QED BY <2>5, <2>7
<1>13. NcReplaced(k, store'.cand, mixed[c])
  <2> SUFFICES ASSUME k.tool = "restore replace", mixed[c] = {}, NEW s \in ToSet(SectionsOf(k.goal)),
                      InSection(store'.cand, s) # InSection(k.goal, s)
               PROVE  \E i \in 1 .. Len(k.rpcs) : k.rpcs[i].do = "replace" /\ k.rpcs[i].section = s
    BY DEF NcReplaced
  <2>0. s \in ToSet(SectionsOf(old.goal)) /\ InSection(store'.cand, s) # InSection(old.goal, s)
        /\ old.tool = "restore replace" /\ old.pc \in {"connect", "open"}
    BY <1>2, <1>q
  <2>1. InSection(store.cand, s) = InSection(old.goal, s)
        \/ \E i \in 1 .. Len(q) : q[i].do = "replace" /\ q[i].section = s
    <3>1. NcReplaced(old, store.cand, mixed[c])
      BY <1>3 DEF CallOK
    <3>2. InSection(store.cand, s) = InSection(old.goal, s)
          \/ \E i \in 1 .. Len(old.rpcs) : old.rpcs[i].do = "replace" /\ old.rpcs[i].section = s
      BY <2>0, <3>1 DEF NcReplaced
    <3> QED BY <1>q, <3>2
  <2>2. r.do \notin {"edit-config"}
    BY <1>2, <1>10 DEF Fits, NcEdits
  <2>3. r.do = "replace" => r.stmts = InSection(old.goal, r.section)
    BY <1>10 DEF Fits
  <2>4. r.do \in {"rollback", "discard-changes"} => old.goal = {}
    BY <1>10 DEF Fits
  <2>5. old.goal # {}
    <3>1. CASE old.goal = {}
      <4>1. Held({}) = {}
        BY DEF Held, InSection
      <4>2. DOMAIN SectionsOf({}) = {}
        <5>1. Cardinality(Held({})) = 0
          BY <4>1, FS_EmptySet
        <5>2. DOMAIN SectionsOf({}) = 1 .. Cardinality(Held({}))
          BY DEF SectionsOf
        <5> QED BY ONLY <5>1, <5>2
      <4>3. DOMAIN SectionsOf(old.goal) = {}
        BY <3>1, <4>2
      <4> QED BY <2>0, <4>3 DEF ToSet
    <3> QED BY <3>1
  <2>6. r.do = "replace" \/ store'.cand = store.cand
    BY <1>7, <1>11, <2>2, <2>4, <2>5 DEF Done
  <2>7. r.do = "replace" => InSection(store'.cand, r.section) = InSection(old.goal, r.section)
    <3> SUFFICES ASSUME r.do = "replace"
                 PROVE  InSection(store'.cand, r.section) = InSection(old.goal, r.section)
      OBVIOUS
    <3>1. store'.cand = (store.cand \ InSection(store.cand, r.section)) \cup InSection(old.goal, r.section)
      BY <1>7, <2>3 DEF Done
    <3> QED BY <3>1 DEF InSection
  <2>8. r.do = "replace" /\ r.section # s => InSection(store'.cand, s) = InSection(store.cand, s)
    <3> SUFFICES ASSUME r.do = "replace", r.section # s
                 PROVE  InSection(store'.cand, s) = InSection(store.cand, s)
      OBVIOUS
    <3>1. store'.cand = (store.cand \ InSection(store.cand, r.section)) \cup InSection(old.goal, r.section)
      BY <1>7, <2>3 DEF Done
    <3> QED BY <3>1 DEF InSection
  <2>9. InSection(store.cand, s) # InSection(old.goal, s) /\ ~(r.do = "replace" /\ r.section = s)
    BY <2>0, <2>6, <2>7, <2>8
  <2>10. PICK i \in 1 .. Len(q) : q[i].do = "replace" /\ q[i].section = s
    BY <2>1, <2>9
  <2>11. i # 1
    BY <1>1, <2>9, <2>10
  <2>12. PICK j : j = i - 1
    OBVIOUS
  <2>13. j \in 1 .. Len(rest) /\ i = j + 1
    <3>1. PICK n, m : n = Len(q) /\ m = Len(rest)
      OBVIOUS
    <3>2. n \in Nat /\ m = n - 1 /\ i \in 1 .. n /\ i # 1
      BY <1>1, <2>11, <3>1
    <3>3. j \in 1 .. m /\ i = j + 1
      BY ONLY <2>12, <3>2
    <3> QED BY <3>1, <3>3
  <2>14. rest[j] = q[i]
    BY <1>1, <2>13
  <2> QED BY <1>2, <2>10, <2>13, <2>14
<1>14. Based(k, store'.hist, mixed[c])
  <2>1. store'.hist = store.hist
    BY <1>6, <1>7 DEF Done
  <2> QED BY <1>2, <1>3, <1>q, <2>1 DEF CallOK, Based
<1> QED BY <1>6, <1>7, <1>8, <1>9, <1>12, <1>13, <1>14 DEF CallOK, r

\* What an open call may send is known.
LEMMA SendsKnown ==
  ASSUME NcInv, NEW c \in NcCallers, call[c].pc = "open"
  PROVE  LET q == call[c].rpcs  r == Head(q) IN
         /\ call[c] \in NcCalls /\ q \in Seq(NcRpcs) /\ q # <<>> /\ r \in NcRpcs /\ Fits(call[c], r)
         /\ r.do \in {"edit-config", "replace"} =>
              r.stmts \subseteq store.seen \cup Archive
                \cup (IF call[c].tool \in NcEdits THEN ToSet(Payloads[c]) ELSE {})
         /\ Tail(q) = <<>> /\ call[c].tool \in NcCommits => r.do = "commit"
<1>1. call[c] \in NcCalls /\ CallOK(c, call[c], store, mixed[c])
  BY DEF NcInv, NcShape
<1>2. PICK q : q = call[c].rpcs
  OBVIOUS
<1>3. q \in Seq(NcRpcs) /\ q # <<>>
  BY <1>1, <1>2 DEF NcCalls, CallOK, Planned
<1>4. Head(q) \in NcRpcs /\ Head(q) = q[1] /\ 1 \in 1 .. Len(q) /\ (Tail(q) = <<>> => Len(q) = 1)
  BY <1>3, FirstRpc
<1>5. Fits(call[c], q[1]) /\ (call[c].tool \in NcCommits => q[Len(q)].do = "commit")
  BY <1>1, <1>2, <1>4 DEF CallOK, Planned
<1>6. q[1].do \in {"edit-config", "replace"} =>
              q[1].stmts \subseteq store.seen \cup Archive
                \cup (IF call[c].tool \in NcEdits THEN ToSet(Payloads[c]) ELSE {})
  BY <1>1, <1>2, <1>4 DEF CallOK, Known
<1> QED BY <1>1, <1>2, <1>3, <1>4, <1>5, <1>6

\* The next RPC of a call.
LEMMA NcCallInv ==
  ASSUME NcInv, NEW c \in NcCallers, NcCall(c)
  PROVE  NcInv'
<1>1. NcShape /\ call[c].pc = "open"
  BY DEF NcInv, NcCall
<1>2. PICK q, r : q = call[c].rpcs /\ r = Head(q)
  OBVIOUS
<1>3. /\ call[c] \in NcCalls /\ q \in Seq(NcRpcs) /\ q # <<>> /\ r \in NcRpcs /\ Fits(call[c], r)
      /\ r.do \in {"edit-config", "replace"} =>
           r.stmts \subseteq store.seen \cup Archive
             \cup (IF call[c].tool \in NcEdits THEN ToSet(Payloads[c]) ELSE {})
      /\ Tail(q) = <<>> /\ call[c].tool \in NcCommits => r.do = "commit"
  BY <1>1, <1>2, SendsKnown
<1>4. PICK heard, k : Takes(c, heard, k)
  BY <1>1, <1>2, <1>3, CallMoves
<1>5. /\ k \in NcCalls /\ call' = [call EXCEPT ![c] = k] /\ NcAnswers(r, heard, store') /\ Notice(c, r)
      /\ ncSetting' = ncSetting /\ (store' = store \/ Done(r, store'))
  BY <1>2, <1>4 DEF Takes, NcAnswers
<1>6. tarball' \in SUBSET NcStatements /\ tarball' # {} /\ tarball' \subseteq store'.seen \cup Archive
  <2>1. store.seen \subseteq store'.seen
    BY <1>5 DEF Done
  <2>2. tarball \in SUBSET NcStatements /\ tarball # {} /\ tarball \subseteq store.seen \cup Archive
    BY DEF NcInv, NcShape
  <2>3. NcRunning \in SUBSET NcStatements /\ NcRunning \subseteq store.seen
    BY <1>1 DEF NcRunning, NcShape, NcStores
  <2> QED BY <1>4, <2>1, <2>2, <2>3 DEF Takes
<1>7. CallOK(c, call[c], store, mixed[c])
  BY DEF NcInv
<1>8. CASE Cleans(c, k, heard)
  <2>1. store' = store
    BY <1>5, <1>8 DEF NcAnswers, Cleans
  <2>2. CallOK(c, k, store', mixed[c])
    <3>1. Planned(k)
      BY <1>7, <1>8 DEF CallOK, Planned, Fits, Cleans
    <3>2. Known(c, k, store.seen)
      BY <1>7, <1>8 DEF CallOK, Known, Cleans
    <3>3. Covered(k, store.cand, mixed[c]) /\ NcReplaced(k, store.cand, mixed[c])
      BY <1>8 DEF Covered, NcReplaced, Cleans
    <3>4. Based(k, store.hist, mixed[c])
      BY <1>1, <1>7, <1>8 DEF CallOK, Based, Cleans
    <3> QED BY <2>1, <3>1, <3>2, <3>3, <3>4 DEF CallOK
  <2>3. NcStaging(k) = (call[c].told \/ call[c].unswept \/ call[c].tool \in NcEdits) /\ (NcStaging(call[c]) => NcStaging(k))
    BY <1>1, <1>8 DEF NcStaging, Cleans
  <2>4. r.do \in {"edit-config", "replace"} =>
          r.stmts \subseteq store.seen \cup Archive \cup (IF NcStaging(k) THEN ToSet(Payloads[c]) ELSE {})
    BY <1>3, <2>3
  <2> QED BY <1>3, <1>5, <1>6, <2>2, <2>3, <2>4, MovesKeep
<1>9. CASE Returned(c, k, "error", call[c].unswept)
  <2>0. PICK st, mx : st = store' /\ mx = mixed[c]
    OBVIOUS
  <2>a. "error" \in NcVerdicts /\ Told(c, "error") = TRUE /\ call[c].unswept \in BOOLEAN
    BY <1>1, Knows DEF NcVerdicts
  <2>b. k.told = Told(c, "error") /\ CallOK(c, k, st, mx)
    BY <1>1, <1>9, <2>a, OverIsWell
  <2>1. k.told = TRUE /\ CallOK(c, k, store', mixed[c])
    BY <2>0, <2>a, <2>b
  <2>2. NcStaging(k)
    BY <2>1 DEF NcStaging
  <2>3. r.do \in {"edit-config", "replace"} =>
          r.stmts \subseteq store.seen \cup Archive \cup (IF NcStaging(k) THEN ToSet(Payloads[c]) ELSE {})
    BY <1>3, <2>2
  <2> QED BY <1>3, <1>5, <1>6, <2>1, <2>2, <2>3, MovesKeep
<1>10. CASE NcGoesOn(c, k, heard)
  <2>1. CallOK(c, k, store', mixed[c])
    BY <1>1, <1>2, <1>3, <1>5, <1>10, GoesOnWell
  <2>2. NcStaging(k) = (call[c].told \/ call[c].unswept \/ call[c].tool \in NcEdits) /\ (NcStaging(call[c]) => NcStaging(k))
    BY <1>1, <1>10 DEF NcStaging, NcGoesOn
  <2>3. r.do \in {"edit-config", "replace"} =>
          r.stmts \subseteq store.seen \cup Archive \cup (IF NcStaging(k) THEN ToSet(Payloads[c]) ELSE {})
    BY <1>3, <2>2
  <2> QED BY <1>3, <1>5, <1>6, <2>1, <2>2, <2>3, MovesKeep
<1>11. CASE EndsWell(c, k, heard)
  <2>1. /\ k.told = (call[c].told \/ call[c].tool \in {"stage", "revert"}) /\ k.unswept = call[c].unswept
        /\ CallOK(c, k, store', mixed[c]) /\ k.pc = "idle"
    <3>1. PICK st, mx : st = store' /\ mx = mixed[c]
      OBVIOUS
    <3>2. "ok" \in NcVerdicts /\ call[c].unswept \in BOOLEAN /\ Told(c, "ok") = (call[c].told \/ call[c].tool \in {"stage", "revert"})
      BY <1>1, Knows DEF NcVerdicts
    <3>3. Returned(c, k, "ok", call[c].unswept)
      BY <1>11 DEF EndsWell
    <3>4. k.told = Told(c, "ok") /\ k.unswept = call[c].unswept /\ CallOK(c, k, st, mx) /\ k.pc = "idle"
      BY <1>1, <3>2, <3>3, OverIsWell
    <3> QED BY <3>1, <3>2, <3>4
  <2>2. Tail(q) = <<>> /\ heard \in {"ok", "empty commit"}
    BY <1>2, <1>11 DEF EndsWell
  <2>3. CASE call[c].tool \in NcCommits
    <3>1. r.do = "commit"
      BY <1>3, <2>2, <2>3
    <3>2. store'.cand \subseteq store'.seen
      <4>1. CASE heard = "ok"
        BY <1>5, <3>1, <4>1 DEF NcAnswers, Done
      <4>2. CASE heard = "empty commit"
        <5>1. store' = store /\ store.cand = store.hist[1]
          BY <1>5, <4>2 DEF NcAnswers
        <5>2. store.hist[1] \subseteq store.seen
          BY <1>1 DEF NcShape
        <5> QED BY ONLY <5>1, <5>2
      <4> QED BY <2>2, <4>1, <4>2
    <3> QED BY <1>3, <1>5, <1>6, <2>1, <3>2, MovesKeep
  <2>4. CASE call[c].tool \notin NcCommits
    <3>1. NcStaging(call[c]) => NcStaging(k)
      BY <2>1, <2>4 DEF NcStaging, NcEdits, NcCommits
    <3>2. call[c].tool \in NcEdits => NcStaging(k)
      BY <2>1, <2>4 DEF NcStaging, NcEdits, NcCommits
    <3>3. r.do \in {"edit-config", "replace"} =>
            r.stmts \subseteq store.seen \cup Archive \cup (IF NcStaging(k) THEN ToSet(Payloads[c]) ELSE {})
      BY <1>3, <3>2
    <3> QED BY <1>3, <1>5, <1>6, <2>1, <3>1, <3>3, MovesKeep
  <2> QED BY <2>3, <2>4
<1> QED BY <1>4, <1>8, <1>9, <1>10, <1>11 DEF Takes

\* The clean-up of a refused edit: how it may end.
LEMMA DiscardMoves ==
  ASSUME NcInv, NEW c \in NcCallers, NcDiscard(c)
  PROVE  \E heard, v, k :
           /\ v \in NcVerdicts \ {"ok"} /\ k \in NcCalls /\ call' = [call EXCEPT ![c] = k]
           /\ Returned(c, k, v, heard # "ok")
           /\ NcAnswers(Rpc("discard-changes"), heard, store') /\ Notice(c, Rpc("discard-changes"))
           /\ UNCHANGED <<ncSetting, tarball>>
<1> DEFINE r == Rpc("discard-changes")
<1>1. r \in NcRpcs /\ NcShape
  BY DEF Rpc, NcRpcs, NcInv
<1>2. PICK reply \in RpcReplies(r) :
       store' = reply.store /\ NcReturnAs(c, call[c].verdict, reply.heard # "ok")
  BY DEF NcDiscard
<1>3. PICK heard, v : heard = reply.heard /\ v = call[c].verdict
  OBVIOUS
<1>4. v \in NcVerdicts \ {"ok"}
  BY <1>3 DEF NcInv, CallOK, Planned, NcDiscard, NcVerdicts
<1>5. NcAnswers(r, heard, store')
  BY <1>1, <1>2, <1>3, Replied
<1> DEFINE k == [call[c] EXCEPT !.pc = "idle", !.rpcs = <<>>, !.verdict = v, !.goal = {}, !.base = {},
                                !.told = Told(c, v), !.unswept = (heard # "ok")]
<1>6. call' = [call EXCEPT ![c] = k]
  BY <1>2, <1>3 DEF NcReturnAs
<1>7. Returned(c, k, v, heard # "ok")
  BY DEF Returned
<1> HIDE DEF k, r
<1>8. k \in NcCalls
  BY <1>1, <1>4, <1>7, OverIsWell
<1>9. Notice(c, r) /\ UNCHANGED <<ncSetting, tarball>>
  BY DEF NcDiscard, r
<1> QED BY <1>4, <1>5, <1>6, <1>7, <1>8, <1>9 DEF r

\* The clean-up keeps the invariant: it only empties the candidate.
LEMMA NcDiscardInv ==
  ASSUME NcInv, NEW c \in NcCallers, NcDiscard(c)
  PROVE  NcInv'
<1>1. PICK heard, v, k :
           /\ v \in NcVerdicts \ {"ok"} /\ k \in NcCalls /\ call' = [call EXCEPT ![c] = k]
           /\ Returned(c, k, v, heard # "ok")
           /\ NcAnswers(Rpc("discard-changes"), heard, store') /\ Notice(c, Rpc("discard-changes"))
           /\ UNCHANGED <<ncSetting, tarball>>
  BY DiscardMoves
<1>2. PICK r : r = Rpc("discard-changes")
  OBVIOUS
<1>3. r \in NcRpcs /\ r.do = "discard-changes" /\ NcShape
  BY <1>2 DEF Rpc, NcRpcs, NcInv
<1>4. PICK st, mx : st = store' /\ mx = mixed[c]
  OBVIOUS
<1>5. k.unswept = (heard # "ok") /\ CallOK(c, k, st, mx)
  <2>1. PICK u : u = (heard # "ok")
    OBVIOUS
  <2>2. u \in BOOLEAN /\ Returned(c, k, v, u)
    BY <1>1, <2>1
  <2>3. k.unswept = u /\ CallOK(c, k, st, mx)
    BY <1>1, <1>3, <2>2, OverIsWell
  <2> QED BY <2>1, <2>3
<1>6. store' = store \/ Done(r, store')
  BY <1>1, <1>2 DEF NcAnswers
<1>7. store.seen \subseteq store'.seen
  BY <1>6 DEF Done
<1>8. tarball' \in SUBSET NcStatements /\ tarball' # {} /\ tarball' \subseteq store'.seen \cup Archive
  BY <1>1, <1>7 DEF NcInv, NcShape
<1>9. store'.cand \subseteq store'.seen \/ NcStaging(k)
  <2>1. CASE heard = "ok"
    <3>1. Done(r, store')
      BY <1>1, <1>2, <2>1 DEF NcAnswers
    <3> QED BY <1>3, <3>1 DEF Done
  <2>2. CASE heard # "ok"
    BY <1>5, <2>2 DEF NcStaging
  <2> QED BY <1>1, <2>1, <2>2
<1> QED BY <1>1, <1>2, <1>3, <1>4, <1>5, <1>6, <1>8, <1>9, MovesKeep

\* Every step.
LEMMA NcNextInv ==
  ASSUME NcInv, [NcNext]_ncVars
  PROVE  NcInv'
<1>1. CASE UNCHANGED ncVars
  <2>1. ncSetting' = ncSetting /\ store' = store /\ tarball' = tarball /\ call' = call /\ mixed' = mixed
    BY <1>1 DEF ncVars
  <2>2. NcShape'
    BY <2>1 DEF NcInv, NcShape
  <2>3. (tarball \subseteq store.seen \cup Archive)'
    BY <2>1 DEF NcInv
  <2>4. Owned(store.cand, store.seen, call)'
    BY <2>1 DEF NcInv
  <2>5. \A c \in NcCallers : CallOK(c, call'[c], store', mixed'[c])
    BY <2>1 DEF NcInv
  <2> QED BY <2>2, <2>3, <2>4, <2>5 DEF NcInv
<1>2. ASSUME NEW c \in NcCallers, NcProgress(c)
      PROVE  NcInv'
  BY <1>2, NcConnectInv, NcCallInv, NcDiscardInv DEF NcProgress
<1>3. ASSUME NEW c \in NcCallers, NEW t \in ncSetting.tools[c], NcStart(c, t)
      PROVE  NcInv'
  <2>1. t \in NcTools
    BY NcGiven DEF NcInv, NcShape
  <2> QED BY <1>3, <2>1, NcStartInv
<1> QED BY <1>1, <1>2, <1>3 DEF NcNext

\* NETCONF calls are never anything but well: what a call means to bring about
\* is in the candidate or still to be sent, unless another session reloaded
\* the candidate, and every statement of the candidate ran before or has a
\* caller who answers for it (nc/core/change_ops.py, nc/tools/backup.py).
THEOREM NcInvariance == NcInit /\ [][NcNext]_ncVars => []NcInv
<1>1. NcInit => NcInv
  BY NcInitInv
<1>2. NcInv /\ [NcNext]_ncVars => NcInv'
  BY NcNextInv
<1> QED BY <1>1, <1>2, PTL

\* The variables of the NETCONF tools keep their types.
THEOREM NcTypeCorrect == NcInit /\ [][NcNext]_ncVars => []NcTypeOK
<1>1. NcInv => NcTypeOK
  <2> SUFFICES ASSUME NcInv
               PROVE  NcTypeOK
    OBVIOUS
  <2>1. store \in NcStores /\ Len(store.hist) \in {1, 2}
        /\ (\A i \in 1 .. Len(store.hist) : store.hist[i] \subseteq store.seen)
        /\ tarball \in SUBSET NcStatements /\ tarball # {}
    BY DEF NcInv, NcShape
  <2>2. store.cand \subseteq NcStatements /\ store.seen \subseteq NcStatements /\ store.hist \in Seq(SUBSET NcStatements)
    BY <2>1 DEF NcStores
  <2>3. \A conf \in ToSet(store.hist) : conf \subseteq store.seen
    BY <2>1, <2>2 DEF ToSet
  <2>4. ASSUME NEW c \in NcCallers
        PROVE  /\ call[c].pc \in {"idle", "connect", "open", "cleanup"}
               /\ call[c].tool \in NcTools /\ call[c].verdict \in NcVerdicts
               /\ (call[c].pc = "open") => call[c].rpcs # <<>>
               /\ mixed[c] \subseteq {"commit", "edit", "load"}
    <3>1. call[c] \in NcCalls /\ mixed[c] \in SUBSET {"commit", "edit", "load"} /\ Planned(call[c])
      BY DEF NcInv, NcShape, CallOK
    <3> QED BY <3>1 DEF NcCalls, Planned
  <2> QED BY <2>1, <2>2, <2>3, <2>4 DEF NcTypeOK
<1> QED BY <1>1, NcInvariance, PTL

-----------------------------------------------------------------------------
(* What comes to run, and what an answer says.                             *)

\* A step is one caller's.
LEMMA OneActs ==
  ASSUME NcInv, [NcNext]_ncVars, ~UNCHANGED ncVars
  PROVE  \E c \in NcCallers :
           /\ NcProgress(c) \/ \E t \in NcTools : NcStart(c, t)
           /\ \A d \in NcCallers \ {c} : call'[d] = call[d]
<1>1. PICK c \in NcCallers : NcProgress(c) \/ \E t \in ncSetting.tools[c] : NcStart(c, t)
  BY DEF NcNext
<1>2. call \in [NcCallers -> NcCalls] /\ NcShape
  BY DEF NcInv, NcShape
<1>3. ASSUME NEW t \in ncSetting.tools[c], NcStart(c, t)
      PROVE  t \in NcTools /\ \A d \in NcCallers \ {c} : call'[d] = call[d]
  <2>1. t \in NcTools
    BY NcGiven DEF NcInv, NcShape
  <2> QED BY <1>2, <1>3, <2>1 DEF NcStart
<1>4. ASSUME NcConnect(c)
      PROVE  \A d \in NcCallers \ {c} : call'[d] = call[d]
  BY <1>2, <1>4 DEF NcConnect, NcReturn, NcReturnAs
<1>5. ASSUME NcCall(c)
      PROVE  \A d \in NcCallers \ {c} : call'[d] = call[d]
  <2>1. call[c].rpcs # <<>>
    BY <1>5, SendsKnown DEF NcCall
  <2>2. PICK heard, k : Takes(c, heard, k)
    BY <1>2, <1>5, <2>1, CallMoves
  <2> QED BY <1>2, <2>2 DEF Takes
<1>6. ASSUME NcDiscard(c)
      PROVE  \A d \in NcCallers \ {c} : call'[d] = call[d]
  <2>1. PICK k : call' = [call EXCEPT ![c] = k]
    BY <1>6, DiscardMoves
  <2> QED BY <1>2, <2>1
<1> QED BY <1>1, <1>3, <1>4, <1>5, <1>6 DEF NcProgress

\* A call that returns another verdict than error does so after an RPC.
LEMMA NcReturning ==
  ASSUME NcInv, [NcNext]_ncVars, NEW c \in NcCallers, NcReturns(c), call'[c].verdict # "error"
  PROVE  NcCall(c) \/ NcDiscard(c)
<1>1. call[c].pc # "idle" /\ call'[c].pc = "idle" /\ call[c] \in NcCalls /\ call \in [NcCallers -> NcCalls]
  BY DEF NcReturns, NcInv, NcShape
<1>2. PICK d \in NcCallers : /\ NcProgress(d) \/ \E t \in NcTools : NcStart(d, t)
                             /\ \A e \in NcCallers \ {d} : call'[e] = call[e]
  BY <1>1, OneActs DEF ncVars
<1>3. d = c
  BY <1>1, <1>2
<1>4. ASSUME NEW t, NcStart(c, t)
      PROVE  FALSE
  BY <1>1, <1>4 DEF NcStart
<1>5. ASSUME NcConnect(c)
      PROVE  FALSE
  <2>1. CASE call' = [call EXCEPT ![c].pc = "open", ![c].base = NcRunning]
    BY <1>1, <2>1 DEF NcCalls
  <2>2. CASE NcReturn(c, "error")
    BY <1>1, <2>2 DEF NcReturn, NcReturnAs, NcCalls
  <2> QED BY <1>5, <2>1, <2>2 DEF NcConnect
<1> QED BY <1>2, <1>3, <1>4, <1>5 DEF NcProgress

\* What is answered as refused has not changed what runs.
LEMMA RefusedRunsNot ==
  ASSUME NcInv, [NcNext]_ncVars, NEW c \in NcCallers, NcReturns(c),
         call'[c].verdict \in {"edit_error", "commit_error"}, "commit" \notin mixed[c]
  PROVE  store'.hist[1] = call[c].base
<1>1. NcShape /\ call \in [NcCallers -> NcCalls] /\ CallOK(c, call[c], store, mixed[c])
  BY DEF NcInv, NcShape
<1>2. CASE NcDiscard(c)
  <2>1. PICK heard : NcAnswers(Rpc("discard-changes"), heard, store')
    BY <1>2, DiscardMoves
  <2>2. store'.hist = store.hist
    BY <2>1 DEF NcAnswers, Done, Rpc
  <2> QED BY <1>1, <1>2, <2>2 DEF CallOK, Based, NcDiscard
<1>3. CASE NcCall(c)
  <2>1. call[c].rpcs # <<>>
    BY <1>3, SendsKnown DEF NcCall
  <2>2. PICK heard, k : Takes(c, heard, k)
    BY <1>1, <1>3, <2>1, CallMoves
  <2>3. call'[c] = k
    BY <1>1, <2>2 DEF Takes
  <2>4. k.pc = "idle" /\ k.verdict \notin {"ok", "error"}
    BY <2>3 DEF NcReturns
  <2>5. Returned(c, k, "error", call[c].unswept) \/ Returned(c, k, "ok", call[c].unswept)
    BY <2>2, <2>4 DEF Takes, Cleans, NcGoesOn, EndsWell
  <2>6. k.verdict \in {"ok", "error"}
    <3>1. \A v, u : Returned(c, k, v, u) => k.verdict = v
      BY <1>1 DEF Returned, NcCalls
    <3> QED
      BY <2>5, <3>1
  <2> QED BY <2>4, <2>6
<1> QED BY <1>2, <1>3, NcReturning

\* What runs for the first time was backed up, or somebody answers for it.
LEMMA NewIsOwned ==
  ASSUME NcInv, [NcNext]_ncVars, NEW x \in store'.seen \ store.seen
  PROVE  x \in Archive \/
           \E c \in NcCallers : Vouches(c, x) \/ (x \in ToSet(Payloads[c]) /\ call[c].unswept)
<1>1. PICK c \in NcCallers : NcProgress(c) \/ \E t \in NcTools : NcStart(c, t)
  BY OneActs DEF ncVars
<1>2. NcShape
  BY DEF NcInv
<1>3. PICK r \in NcRpcs : store' = store \/ Done(r, store')
  <2>1. CASE NcCall(c)
    <3>1. call[c].rpcs # <<>> /\ Head(call[c].rpcs) \in NcRpcs
      BY <2>1, SendsKnown DEF NcCall
    <3>2. PICK heard, k : Takes(c, heard, k)
      BY <1>2, <2>1, <3>1, CallMoves
    <3>3. PICK r : r = Head(call[c].rpcs)
      OBVIOUS
    <3> QED BY <3>1, <3>2, <3>3 DEF Takes, NcAnswers
  <2>2. CASE NcDiscard(c)
    <3>1. PICK heard : NcAnswers(Rpc("discard-changes"), heard, store')
      BY <2>2, DiscardMoves
    <3>2. Rpc("discard-changes") \in NcRpcs
      BY DEF Rpc, NcRpcs
    <3> QED BY <3>1, <3>2 DEF NcAnswers
  <2>3. CASE store' = store
    BY <2>3 DEF NcRpcs
  <2>4. store' = store \/ NcCall(c) \/ NcDiscard(c)
    BY <1>1 DEF NcProgress, NcConnect, NcStart
  <2> QED BY <2>1, <2>2, <2>3, <2>4
<1>4. x \in store.cand
  BY <1>3 DEF Done
<1> QED BY <1>4 DEF NcInv, Owned, NcStaging, Vouches

\* What is reported as refused stays out of the configuration, and a commit
\* applies only statements that somebody is staging, or was told may be staged,
\* or that a failed discard-changes left behind (edit_from_xml,
\* nc/core/change_ops.py:265-309).
THEOREM RefusedIsOut == NcInit /\ [][NcNext]_ncVars => RefusedStaysOut
<1> DEFINE Out ==
      /\ \A c \in NcCallers :
          NcReturns(c) /\ call'[c].verdict \in {"edit_error", "commit_error"} /\ "commit" \notin mixed[c]
          => store'.hist[1] = call[c].base
      /\ \A x \in store'.seen \ store.seen : x \in Archive \/
          \E c \in NcCallers : Vouches(c, x) \/ (x \in ToSet(Payloads[c]) /\ call[c].unswept)
<1>1. NcInv /\ [NcNext]_ncVars => [Out]_ncVars
  BY RefusedRunsNot, NewIsOwned
<1> QED BY <1>1, NcInvariance, PTL DEF RefusedStaysOut

\* A call that ends well after its commit has its candidate running.
LEMMA CommitEnds ==
  ASSUME NcInv, [NcNext]_ncVars, NEW c \in NcCallers, NcReturns(c), call'[c].verdict = "ok",
         call[c].tool \in NcCommits
  PROVE  /\ call[c] \in NcCalls /\ call[c].pc = "open" /\ CallOK(c, call[c], store, mixed[c])
         /\ store'.hist[1] = store.cand
         /\ \A i \in 1 .. Len(call[c].rpcs) : call[c].rpcs[i].do = "commit"
<1>1. NcShape /\ call \in [NcCallers -> NcCalls] /\ call[c] \in NcCalls /\ CallOK(c, call[c], store, mixed[c])
  BY DEF NcInv, NcShape
<1>2. ~NcDiscard(c)
  <2> SUFFICES ASSUME NcDiscard(c)
               PROVE  FALSE
    OBVIOUS
  <2>1. PICK v, k, u : v # "ok" /\ call' = [call EXCEPT ![c] = k] /\ Returned(c, k, v, u)
    BY DiscardMoves
  <2>2. call'[c] = k /\ k.verdict = v
    BY <1>1, <2>1 DEF Returned, NcCalls
  <2> QED BY <2>1, <2>2
<1>3. NcCall(c)
  BY <1>2, NcReturning
<1>4. PICK q, r : q = call[c].rpcs /\ r = Head(q)
  OBVIOUS
<1>5. q \in Seq(NcRpcs) /\ q # <<>> /\ r \in NcRpcs /\ (Tail(q) = <<>> => r.do = "commit")
  BY <1>3, <1>4, SendsKnown DEF NcCall
<1>6. PICK heard, k : Takes(c, heard, k)
  BY <1>1, <1>3, <1>4, <1>5, CallMoves
<1>7. k.pc = "idle" /\ k.verdict = "ok"
  <2>1. call'[c] = k
    BY <1>1, <1>6 DEF Takes
  <2> QED BY <2>1 DEF NcReturns
<1>8. ~Returned(c, k, "error", call[c].unswept)
  BY <1>1, <1>7 DEF Returned, NcCalls
<1>9. Tail(q) = <<>> /\ heard \in {"ok", "empty commit"}
  BY <1>4, <1>6, <1>7, <1>8 DEF Takes, Cleans, NcGoesOn, EndsWell
<1>10. r.do = "commit" /\ Len(q) = 1 /\ q[1] = r
  BY <1>4, <1>5, <1>9, FirstRpc
<1>11. store'.hist[1] = store.cand
  <2>1. NcAnswers(r, heard, store')
    BY <1>4, <1>6 DEF Takes
  <2>2. CASE heard = "ok"
    BY <1>10, <2>1, <2>2 DEF NcAnswers, Done
  <2>3. CASE heard = "empty commit"
    BY <2>1, <2>3 DEF NcAnswers
  <2> QED BY <1>9, <2>2, <2>3
<1> QED BY <1>1, <1>3, <1>4, <1>10, <1>11 DEF NcCall

\* A call that answers ok and was to commit has its statements running, unless
\* another session emptied or reloaded the candidate under it: a lost or
\* refused RPC never passes for a success (nc/core/change_ops.py).
THEOREM NcOkIsTrue == NcInit /\ [][NcNext]_ncVars => NcOkDelivers
<1> DEFINE Delivers == \A c \in NcCallers :
       /\ NcReturns(c) /\ call'[c].verdict = "ok" /\ "load" \notin mixed[c]
       /\ call[c].tool \notin {"stage", "revert", "backup", "discard"}
       => /\ call[c].goal \subseteq store'.hist[1]
          /\ call[c].tool = "restore replace" /\ mixed[c] = {} =>
               \A x \in ToSet(SectionsOf(call[c].goal)) :
                 InSection(store'.hist[1], x) = InSection(call[c].goal, x)
<1>1. NcInv /\ [NcNext]_ncVars => Delivers
  <2> SUFFICES ASSUME NcInv, [NcNext]_ncVars, NEW c \in NcCallers,
                      NcReturns(c), call'[c].verdict = "ok", "load" \notin mixed[c],
                      call[c].tool \notin {"stage", "revert", "backup", "discard"}
               PROVE  /\ call[c].goal \subseteq store'.hist[1]
                      /\ call[c].tool = "restore replace" /\ mixed[c] = {} =>
                           \A x \in ToSet(SectionsOf(call[c].goal)) :
                             InSection(store'.hist[1], x) = InSection(call[c].goal, x)
    OBVIOUS
  <2>1. call[c] \in NcCalls
    BY DEF NcInv, NcShape
  <2>2. call[c].tool \in NcCommits
    BY <2>1 DEF NcCalls, NcTools, NcCommits
  <2>3. /\ call[c].pc = "open" /\ CallOK(c, call[c], store, mixed[c]) /\ store'.hist[1] = store.cand
        /\ \A i \in 1 .. Len(call[c].rpcs) : call[c].rpcs[i].do = "commit"
    BY <2>2, CommitEnds
  <2>4. call[c].goal \subseteq store'.hist[1]
    BY <2>3 DEF CallOK, Covered
  <2>5. ASSUME call[c].tool = "restore replace", mixed[c] = {}, NEW x \in ToSet(SectionsOf(call[c].goal))
        PROVE  InSection(store'.hist[1], x) = InSection(call[c].goal, x)
    <3>1. NcReplaced(call[c], store.cand, mixed[c])
      BY <2>3 DEF CallOK
    <3> QED BY <2>3, <2>5, <3>1 DEF NcReplaced
  <2> QED BY <2>4, <2>5
<1>2. NcInv /\ [NcNext]_ncVars => [Delivers]_ncVars
  BY <1>1
<1> QED BY <1>2, NcInvariance, PTL DEF NcOkDelivers

-----------------------------------------------------------------------------
(* Both candidates.                                                        *)

\* What comes to run on a device is what somebody meant.
THEOREM OnlyMeantRuns ==
  ASSUME OneLock, CleanersOnly
  PROVE  CandidateTools => RunningIsMeant
BY WholeCommits, EditsKeepRunning, RefusedIsOut DEF CandidateTools, RunningIsMeant

\* An ok of either kind of tool is true.
THEOREM EveryOkDelivered ==
  ASSUME OneLock
  PROVE  CandidateTools => OkDelivers
BY OkDelivered, NcOkIsTrue DEF CandidateTools, OkDelivers

-----------------------------------------------------------------------------
(* The configuration of an IxNetwork session, for any calls, processes,     *)
(* trees and lines, whatever fails, is interrupted or killed.  The          *)
(* inductive invariant has a part for the calls (where each kind of tool    *)
(* can stand, one of a process under its lock), one for the tree and one    *)
(* for the lines.                                                          *)

IxPcs == Over \cup Locked \cup {"new", "apply", "applying", "applied", "start", "take", "vports"}

IxCall == [pc : IxPcs, bounced : BOOLEAN, verdict : Over, seen : [IxLines -> BOOLEAN],
           pattern : BOOLEAN, stale : BOOLEAN, warned : BOOLEAN, spoiled : BOOLEAN]

IxTyped ==
  /\ \A c \in IxCalls : ixOf[c].on \in BOOLEAN
  /\ ixAt \in [IxCalls -> IxCall]
  /\ tree \in [IxNodes -> {"absent", "half", "built"}] /\ fresh \subseteq Of["dg"]
  /\ mask \in [IxLines -> BOOLEAN] /\ wire \in [IxLines -> BOOLEAN] /\ listed \in BOOLEAN
  /\ engine \in [busy : BOOLEAN, mask : [IxLines -> BOOLEAN], fresh : SUBSET Of["dg"]]

\* Where a call can stand: only an edit stops a topology, for a node in it,
\* and only an edit has one to start again.
IxFits(o, a) ==
  /\ a.pc \in {"stop", "post", "patch", "rollback", "remove", "restart"} => o.node \in IxNodes
  /\ a.pc \in {"stop", "remove", "restart"} => o.op \in {"create", "delete"}
  /\ a.pc \in {"post", "patch", "rollback"} => o.op = "create"
  /\ a.pc = "restart" => a.bounced
  /\ a.bounced => /\ a.pc \in {"post", "patch", "rollback", "remove", "restart"} \cup Over
                  /\ o.node \in IxNodes /\ IxKind[o.node] # "item" /\ o.op \in {"create", "delete"}
  /\ o.op = "route" => a.pc \in {"new", "write", "push", "pushed"} \cup Over

CallsFit == \A c \in IxCalls : IxFits(ixOf[c], ixAt[c])

\* The write lock: of the calls of a process one is between Enter and the end.
OneLocked ==
  \A c, k \in IxCalls :
    ixOf[c].by = ixOf[k].by /\ ixAt[c].pc \in Locked /\ ixAt[k].pc \in Locked => c = k

\* What runs, or should, is there.
GroupsExist == meant \cup dgUp \subseteq DgsIn("session")

\* A start that nothing has overtaken, and whose own apply went well, has
\* nothing left to apply.
Behind(a) == a.stale \/ a.warned
StartsApplied == \A c \in IxCalls : ixAt[c].pc = "start" /\ ~Behind(ixAt[c]) => fresh = {}

\* What a call has read of the lines is what they are, if nothing was edited
\* since, and anyway what the last action of its own process said.
SeenOK(c) ==
  /\ ~ixAt[c].stale => ixAt[c].seen = mask
  /\ \A l \in IxLines : author[l] # NoAuthor /\ ixOf[author[l]].by = ixOf[c].by
                          => ixAt[c].seen[l] = ixOf[author[l]].on

\* The last action on a line: it has written, and what it has answered as
\* applied is on the wire and stays there with what the engine takes over.
Wrote == {"push", "pushed"} \cup Over
LineOK(l) ==
  LET a == author[l] IN
  /\ a \in IxCalls /\ ixAt[a].pc \in Wrote /\ mask[l] = ixOf[a].on
  /\ ixAt[a].pc = "ok" /\ ixOf[a].op = "route" =>
       wire[l] = mask[l] /\ (engine.busy => engine.mask[l] = mask[l])

LinesOK ==
  /\ \A l \in IxLines : author[l] # NoAuthor => LineOK(l)
  /\ \A c \in IxCalls : ixAt[c].pc = "write" => SeenOK(c)

IxInv ==
  /\ IxTyped /\ CallsFit /\ OneLocked
  /\ GroupsExist /\ StartsApplied /\ HalfBuiltIsOwned /\ RunningComesBack
  /\ LinesOK

\* How a step of one call leaves the calls.
SameButStale(a, b) ==
  /\ b.pc = a.pc /\ b.bounced = a.bounced /\ b.verdict = a.verdict /\ b.seen = a.seen
  /\ b.pattern = a.pattern /\ b.spoiled = a.spoiled /\ b.warned = a.warned /\ (a.stale => b.stale)

Others(c) == \A k \in IxCalls \ {c} : SameButStale(ixAt[k], ixAt'[k])
OthersStale(c) == \A k \in IxCalls \ {c} : ixAt'[k].stale

Moves(c) ==
  /\ UNCHANGED ixOf /\ ixAt' \in [IxCalls -> IxCall] /\ Others(c)
  /\ ixAt'[c].pc \in Locked => ixAt[c].pc \in Locked \/ LockFree(c)
  /\ IxFits(ixOf[c], ixAt'[c])

\* What a step of a call without one on the tree is to keep.
Owns(o, a) == o.op = "create" /\ (a.pc \in {"patch", "rollback"} \/ a.spoiled)
Bouncing(a) == a.bounced /\ a.pc \notin Over

KeepsTree(c) ==
  /\ UNCHANGED treeVars
  /\ Owns(ixOf[c], ixAt[c]) => Owns(ixOf[c], ixAt'[c])
  /\ Bouncing(ixAt[c]) => Bouncing(ixAt'[c])
  /\ ixAt'[c].pc = "start" /\ ~Behind(ixAt'[c]) => (ixAt[c].pc = "start" /\ ~Behind(ixAt[c])) \/ fresh = {}

\* And of one without a step on the lines.
KeepsLines(c) ==
  /\ UNCHANGED lineVars
  /\ UNCHANGED engine
  /\ ixAt'[c].pc = "write" => ixAt[c].pc = "write" /\ ixAt'[c].seen = ixAt[c].seen /\ (ixAt[c].stale => ixAt'[c].stale)
  /\ ixAt[c].pc \in Wrote => ixAt'[c].pc \in Wrote
  /\ ixAt'[c].pc = "ok" /\ ixOf[c].op = "route" => ixAt[c].pc = "ok"

\* A call goes on, and nothing else of it changes.
LEMMA GotoIs ==
  ASSUME ixAt \in [IxCalls -> IxCall], NEW c \in IxCalls, NEW to \in IxPcs, Goto(c, to)
  PROVE  /\ ixAt' \in [IxCalls -> IxCall] /\ Others(c)
         /\ ixAt'[c].pc = to /\ ixAt'[c].bounced = ixAt[c].bounced /\ ixAt'[c].verdict = ixAt[c].verdict
         /\ ixAt'[c].seen = ixAt[c].seen /\ ixAt'[c].stale = ixAt[c].stale /\ ixAt'[c].warned = ixAt[c].warned
         /\ ixAt'[c].spoiled = ixAt[c].spoiled
BY DEF Goto, IxCall, Others, SameButStale

\* A whole record of a call is put.
LEMMA AtIs ==
  ASSUME ixAt \in [IxCalls -> IxCall], NEW c \in IxCalls, NEW went \in IxCall, ixAt' = [ixAt EXCEPT ![c] = went]
  PROVE  ixAt' \in [IxCalls -> IxCall] /\ Others(c) /\ ixAt'[c] = went
BY DEF IxCall, Others, SameButStale

\* An edit: what the others know of what is applied is behind.
LEMMA EditIs ==
  ASSUME ixAt \in [IxCalls -> IxCall], NEW c \in IxCalls, NEW went \in IxCall, EditAt(c, went)
  PROVE  ixAt' \in [IxCalls -> IxCall] /\ Others(c) /\ ixAt'[c] = went /\ OthersStale(c)
<1>1. \A k \in IxCalls : [ixAt[k] EXCEPT !.stale = TRUE] \in IxCall
  BY DEF IxCall
<1>2. ixAt' \in [IxCalls -> IxCall] /\ ixAt'[c] = went
  BY <1>1 DEF EditAt
<1>3. ASSUME NEW k \in IxCalls \ {c} PROVE SameButStale(ixAt[k], ixAt'[k]) /\ ixAt'[k].stale
  BY DEF EditAt, IxCall, SameButStale
<1> QED
  BY <1>2, <1>3 DEF Others, OthersStale

\* A call that leaves, by its restart if it has stopped something.
LEMMA LeavingIs ==
  ASSUME ixAt \in [IxCalls -> IxCall], NEW c \in IxCalls, NEW told \in Over
  PROVE  /\ Leaving(c, told) \in IxCall /\ Leaving(c, told).verdict = told
         /\ Leaving(c, told).pc = (IF ixAt[c].bounced THEN "restart" ELSE told)
         /\ Leaving(c, told).bounced = ixAt[c].bounced /\ Leaving(c, told).spoiled = ixAt[c].spoiled
         /\ Leaving(c, told).seen = ixAt[c].seen
BY DEF Leaving, IxCall, IxPcs, Locked

\* One of the calls that could not clean up.
LEMMA SpoiledIs ==
  ASSUME NEW went \in IxCall
  PROVE  /\ [went EXCEPT !.spoiled = TRUE] \in IxCall /\ [went EXCEPT !.spoiled = TRUE].pc = went.pc
         /\ [went EXCEPT !.spoiled = TRUE].spoiled /\ [went EXCEPT !.spoiled = TRUE].bounced = went.bounced
         /\ [went EXCEPT !.spoiled = TRUE].seen = went.seen
BY DEF IxCall

\* A step of a call keeps the part of the calls.
LEMMA CallsKeep ==
  ASSUME IxInv, NEW c \in IxCalls, Moves(c)
  PROVE  CallsFit' /\ OneLocked' /\ (\A k \in IxCalls : ixOf'[k].on \in BOOLEAN)
<1>1. \A k \in IxCalls \ {c} : ixAt'[k].pc = ixAt[k].pc /\ ixAt'[k].bounced = ixAt[k].bounced
  BY DEF Moves, Others, SameButStale
<1>2. CallsFit'
  BY <1>1 DEF Moves, IxInv, CallsFit, IxFits
<1>3. OneLocked'
  BY <1>1 DEF Moves, IxInv, OneLocked, LockFree
<1> QED
  BY <1>2, <1>3 DEF IxInv, IxTyped, Moves

\* A step that touches no tree keeps the part of the tree.
LEMMA TreeKeeps ==
  ASSUME IxInv, NEW c \in IxCalls, Moves(c), KeepsTree(c)
  PROVE  GroupsExist' /\ StartsApplied' /\ HalfBuiltIsOwned' /\ RunningComesBack'
<1>1. \A k \in IxCalls \ {c} : SameButStale(ixAt[k], ixAt'[k])
  BY DEF Moves, Others
<1>2. \A n : DgsIn(n)' = DgsIn(n)
  BY DEF KeepsTree, treeVars, DgsIn, Present
<1>3. GroupsExist'
  BY <1>2 DEF IxInv, GroupsExist, KeepsTree, treeVars
<1>4. StartsApplied'
  BY <1>1 DEF IxInv, StartsApplied, Behind, KeepsTree, treeVars, SameButStale
<1>5. HalfBuiltIsOwned'
  BY <1>1 DEF IxInv, HalfBuiltIsOwned, KeepsTree, treeVars, SameButStale, Owns, Moves
<1>6. RunningComesBack'
  BY <1>1 DEF IxInv, RunningComesBack, KeepsTree, treeVars, SameButStale, Bouncing, Moves
<1> QED
  BY <1>3, <1>4, <1>5, <1>6

\* One that touches no line, the part of the lines.
LEMMA LinesKeep ==
  ASSUME IxInv, NEW c \in IxCalls, Moves(c), KeepsLines(c)
  PROVE  LinesOK'
<1>1. \A k \in IxCalls \ {c} : SameButStale(ixAt[k], ixAt'[k])
  BY DEF Moves, Others
<1>2. UNCHANGED <<ixOf, mask, wire, author, engine>>
  BY DEF Moves, KeepsLines, lineVars
<1>3. ASSUME NEW l \in IxLines, author[l] # NoAuthor PROVE LineOK(l)'
  <2>1. LineOK(l)
    BY <1>3 DEF IxInv, LinesOK
  <2>2. ixAt[author[l]].pc \in Wrote => ixAt'[author[l]].pc \in Wrote
    BY <1>1, <2>1 DEF LineOK, KeepsLines, SameButStale
  <2>3. ixAt'[author[l]].pc = "ok" /\ ixOf[author[l]].op = "route" => ixAt[author[l]].pc = "ok"
    BY <1>1, <2>1 DEF LineOK, KeepsLines, SameButStale
  <2> QED
    BY <1>2, <2>1, <2>2, <2>3 DEF LineOK
<1>4. ASSUME NEW k \in IxCalls, ixAt'[k].pc = "write" PROVE SeenOK(k)'
  <2>1. ixAt[k].pc = "write" /\ ixAt'[k].seen = ixAt[k].seen /\ (ixAt[k].stale => ixAt'[k].stale)
    BY <1>1, <1>4 DEF KeepsLines, SameButStale
  <2>2. SeenOK(k)
    BY <2>1 DEF IxInv, LinesOK
  <2> QED
    BY <1>2, <2>1, <2>2 DEF SeenOK
<1> QED
  BY <1>2, <1>3, <1>4 DEF LinesOK

\* A step of a call on neither.
LEMMA StandsStill ==
  ASSUME IxInv, NEW c \in IxCalls, Moves(c), KeepsTree(c), KeepsLines(c)
  PROVE  IxInv'
<1>1. IxTyped'
  BY CallsKeep DEF IxInv, IxTyped, Moves, KeepsTree, KeepsLines, treeVars, lineVars
<1> QED
  BY <1>1, CallsKeep, TreeKeeps, LinesKeep DEF IxInv

-----------------------------------------------------------------------------
(* Steps of calls that touch neither.                                      *)

\* A call goes on to what is not an end of a push.
LEMMA IxGoesOn ==
  ASSUME IxInv, NEW c \in IxCalls, NEW to, Goto(c, to), UNCHANGED <<ixOf, treeVars, engine, lineVars>>,
         ixAt[c].pc \in {"new", "take", "vports", "apply", "applying", "push", "pushed", "stop", "write"},
         to \in {"error", "ok", "warning", "vports", "apply", "applying", "take", "push", "stop", "post", "remove"},
         to \in {"stop", "post", "remove"} => ixOf[c].node \in IxNodes /\ ixOf[c].op \in {"create", "delete"},
         to = "post" => ixOf[c].op = "create",
         ixOf[c].op = "route" => to \in {"error", "warning"},
         ixAt[c].pc \in Wrote => to \in Wrote,
         to \in Locked => ixAt[c].pc \in Locked \/ LockFree(c)
  PROVE  IxInv'
<1>1. to \in IxPcs
  BY DEF IxPcs, Over, Locked
<1>2. ixAt \in [IxCalls -> IxCall] /\ IxFits(ixOf[c], ixAt[c])
  BY DEF IxInv, IxTyped, CallsFit
<1>3. /\ ixAt' \in [IxCalls -> IxCall] /\ Others(c)
      /\ ixAt'[c].pc = to /\ ixAt'[c].bounced = ixAt[c].bounced
      /\ ixAt'[c].seen = ixAt[c].seen /\ ixAt'[c].stale = ixAt[c].stale /\ ixAt'[c].spoiled = ixAt[c].spoiled
  BY <1>1, <1>2, GotoIs
<1>4. ~ixAt[c].bounced
  BY <1>2 DEF IxFits, Over, IxCall
<1>5. Moves(c)
  BY <1>3, <1>4 DEF Moves, IxFits, Over, IxCall
<1>6. KeepsTree(c)
  BY <1>3, <1>4 DEF KeepsTree, Behind, Owns, Bouncing
<1>7. KeepsLines(c)
  BY <1>3 DEF KeepsLines, Wrote, Over
<1> QED
  BY <1>5, <1>6, <1>7, StandsStill

\* Kinds of nodes are of nodes.
LEMMA NodesOf == \A kind \in Kinds : Of[kind] \subseteq IxNodes
BY DEF Of

\* The calls that have to resolve and stop first.
LEMMA BounceStep ==
  ASSUME IxInv, NEW c \in IxCalls, NEW next, Bounce(c, next),
         ixAt[c].pc = "new", LockFree(c), ixOf[c].node \in IxNodes,
         \/ ixOf[c].op = "create" /\ next = "post"
         \/ ixOf[c].op = "delete" /\ next = "remove"
  PROVE  IxInv'
<1>1. PICK to : to \in {"error", "stop", next} /\ Goto(c, to)
  BY DEF Bounce
<1>2. UNCHANGED <<ixOf, treeVars, engine, lineVars>>
  BY DEF Bounce
<1> QED
  BY <1>1, <1>2, IxGoesOn DEF Wrote, Over

\* A network group.
LEMMA CreateGroupStep ==
  ASSUME IxInv, NEW c \in IxCalls, CreateNetworkGroup(c)
  PROVE  IxInv'
<1>1. Enter(c, "create", "netgroup") /\ Bounce(c, "post")
  BY DEF CreateNetworkGroup
<1>2. ixOf[c].node \in IxNodes /\ ixAt[c].pc = "new" /\ ixOf[c].op = "create" /\ LockFree(c)
  BY <1>1, NodesOf DEF Enter, Kinds, Leaves
<1> QED
  BY <1>1, <1>2, BounceStep

\* A deletion begins.
LEMMA DeletionStep ==
  ASSUME IxInv, NEW c \in IxCalls, Deletion(c)
  PROVE  IxInv'
<1>1. ASSUME NEW kind \in Kinds, Delete(c, kind) PROVE IxInv'
  <2>1. Enter(c, "delete", kind) /\ Bounce(c, "remove")
    BY <1>1 DEF Delete
  <2>2. ixOf[c].node \in IxNodes /\ ixAt[c].pc = "new" /\ ixOf[c].op = "delete" /\ LockFree(c)
    BY <2>1, NodesOf DEF Enter
  <2> QED
    BY <2>1, <2>2, BounceStep
<1>2. CASE DeleteTrafficItem(c)
  <2>1. ixOf[c].node \in IxNodes /\ ixAt[c].pc = "new" /\ ixOf[c].op = "delete" /\ LockFree(c)
    BY <1>2, NodesOf DEF DeleteTrafficItem, Enter, Kinds
  <2>2. PICK to : to \in {"error", "remove"} /\ Goto(c, to)
    BY <1>2 DEF DeleteTrafficItem
  <2>3. UNCHANGED <<ixOf, treeVars, engine, lineVars>>
    BY <1>2 DEF DeleteTrafficItem
  <2> QED
    BY <2>1, <2>2, <2>3, IxGoesOn DEF Wrote, Over
<1>3. {"topology", "dg", "netgroup", "ethernet", "ipv4", "peer", "vrf", "bfd"} \subseteq Kinds
  BY DEF Kinds, Leaves
<1> QED
  BY <1>1, <1>2, <1>3 DEF Deletion, DeleteTopology, DeleteDeviceGroup, DeleteNetworkGroup, DeleteEthernet,
     DeleteIpv4, DeleteBgpPeer, DeleteBgpVrf, DeleteBfd

\* Ports.
LEMMA PortStep ==
  ASSUME IxInv, NEW c \in IxCalls,
         AssignPort(c) \/ TakePort(c) \/ ConnectPort(c) \/ ReleasePort(c) \/ WaitVports(c) \/ VportsWaited(c) \/ Preflight(c)
  PROVE  IxInv'
<1>1. PICK to \in {"take", "error", "vports", "ok", "warning", "apply"} : Goto(c, to)
  BY DEF AssignPort, TakePort, ConnectPort, ReleasePort, WaitVports, VportsWaited, Preflight
<1>2. UNCHANGED <<ixOf, treeVars, engine, lineVars>>
  BY DEF AssignPort, TakePort, ConnectPort, ReleasePort, WaitVports, VportsWaited, Preflight
<1>3. IxFits(ixOf[c], ixAt[c])
  BY DEF IxInv, CallsFit
<1>4. ixAt[c].pc \in {"new", "take", "vports"} /\ ixOf[c].op # "route"
  BY <1>3 DEF AssignPort, TakePort, ConnectPort, ReleasePort, WaitVports, VportsWaited, Preflight, IxFits, Over
<1> QED
  BY <1>1, <1>2, <1>4, IxGoesOn DEF Wrote, Over, Locked

\* A port comes up.
LEMMA BootStep == IxInv /\ BootPort => IxInv'
BY DEF BootPort, IxInv, IxTyped, CallsFit, OneLocked, GroupsExist, StartsApplied, Behind, HalfBuiltIsOwned, RunningComesBack,
   LinesOK, LineOK, SeenOK, treeVars, lineVars, DgsIn, Present

\* Asking for the pending changes.
LEMMA AskStep ==
  ASSUME IxInv, NEW c \in IxCalls, ApplyPending(c) \/ ApplyChanges(c)
  PROVE  IxInv'
<1>1. PICK to \in {"push", "ok"} : Goto(c, to)
  BY DEF ApplyPending, ApplyChanges
<1>2. UNCHANGED <<ixOf, treeVars, engine, lineVars>> /\ ixAt[c].pc = "new" /\ LockFree(c) /\ ixOf[c].op # "route"
  BY DEF ApplyPending, ApplyChanges
<1> QED
  BY <1>1, <1>2, IxGoesOn DEF Wrote, Over

-----------------------------------------------------------------------------
(* Applying changes, and the lines.                                        *)

\* A call of a start that is at work has stopped nothing.
LEMMA Unbounced ==
  ASSUME IxInv, NEW c \in IxCalls
  PROVE  /\ ixAt \in [IxCalls -> IxCall] /\ IxFits(ixOf[c], ixAt[c]) /\ ixAt[c] \in IxCall
         /\ ixAt[c].pc \notin {"post", "patch", "rollback", "remove", "restart"} \cup Over => ~ixAt[c].bounced
BY DEF IxInv, IxTyped, CallsFit, IxFits, IxCall

\* The apply before a start is looked at.
LEMMA ApplyFirstStep ==
  ASSUME IxInv, NEW c \in IxCalls, ApplyFirst(c)
  PROVE  IxInv'
<1>1. UNCHANGED <<ixOf, treeVars, engine, lineVars>> /\ ixAt[c].pc = "apply" /\ ixOf[c].op # "route"
  BY Unbounced DEF ApplyFirst, IxFits, Over
<1>2. CASE Goto(c, "applying")
  BY <1>1, <1>2, IxGoesOn DEF Wrote, Over, Locked
<1>3. ASSUME engine.busy \/ ~Pending, ixAt' = [ixAt EXCEPT ![c].pc = "start", ![c].stale = engine.busy] PROVE IxInv'
  <2>1. PICK went : went = [ixAt[c] EXCEPT !.pc = "start", !.stale = engine.busy]
    OBVIOUS
  <2>2. engine.busy \in BOOLEAN /\ "start" \in IxPcs
    BY DEF IxInv, IxTyped, IxPcs
  <2>3. /\ went \in IxCall /\ went.pc = "start" /\ went.bounced = ixAt[c].bounced
        /\ went.stale = engine.busy /\ went.spoiled = ixAt[c].spoiled
    BY <2>1, <2>2, Unbounced DEF IxCall
  <2>4. ixAt' \in [IxCalls -> IxCall] /\ Others(c) /\ ixAt'[c] = went
    <3>1. ixAt' = [ixAt EXCEPT ![c] = went]
      BY <1>3, <2>1
    <3> QED
      BY <2>3, <3>1, Unbounced, AtIs
  <2>5. ~ixAt[c].bounced
    BY <1>1, Unbounced DEF Over
  <2>6. Moves(c)
    BY <1>1, <2>3, <2>4, <2>5 DEF Moves, IxFits, Over, Locked
  <2>7. KeepsTree(c)
    BY <1>1, <1>3, <2>3, <2>4, <2>5 DEF KeepsTree, Behind, Owns, Bouncing, Pending
  <2>8. KeepsLines(c)
    BY <1>1, <2>3, <2>4 DEF KeepsLines, Wrote, Over
  <2> QED
    BY <2>6, <2>7, <2>8, StandsStill
<1> QED
  BY <1>2, <1>3 DEF ApplyFirst

\* It has been waited for.
LEMMA ApplyWaitedStep ==
  ASSUME IxInv, NEW c \in IxCalls, ApplyWaited(c)
  PROVE  IxInv'
<1>1. UNCHANGED <<ixOf, treeVars, engine, lineVars>> /\ ixAt[c].pc = "applied" /\ ixOf[c].op # "route"
  BY Unbounced DEF ApplyWaited, IxFits, Over
<1>2. ASSUME NEW went \in IxCall, ixAt' = [ixAt EXCEPT ![c] = went], went.pc = "start", went.bounced = ixAt[c].bounced,
             went.spoiled = ixAt[c].spoiled, ~Behind(went) => fresh = {}
      PROVE  IxInv'
  <2>1. ixAt' \in [IxCalls -> IxCall] /\ Others(c) /\ ixAt'[c] = went
    BY <1>2, Unbounced, AtIs
  <2>2. ~ixAt[c].bounced
    BY <1>1, Unbounced DEF Over
  <2>3. Moves(c)
    BY <1>1, <1>2, <2>1, <2>2 DEF Moves, IxFits, Over, Locked
  <2>4. KeepsTree(c)
    BY <1>1, <1>2, <2>1, <2>2 DEF KeepsTree, Behind, Owns, Bouncing
  <2>5. KeepsLines(c)
    BY <1>1, <1>2, <2>1 DEF KeepsLines, Wrote, Over
  <2> QED
    BY <2>3, <2>4, <2>5, StandsStill
<1>3. "start" \in IxPcs
  BY DEF IxPcs
<1>4. CASE ~engine.busy /\ ~Pending /\ Goto(c, "start")
  <2>1. PICK went : went = [ixAt[c] EXCEPT !.pc = "start"]
    OBVIOUS
  <2>2. went \in IxCall /\ went.pc = "start" /\ went.bounced = ixAt[c].bounced /\ went.spoiled = ixAt[c].spoiled
    BY <1>3, <2>1, Unbounced DEF IxCall
  <2>3. ixAt' = [ixAt EXCEPT ![c] = went]
    BY <1>4, <2>1 DEF Goto
  <2> QED
    BY <1>2, <1>4, <2>2, <2>3 DEF Pending
<1>5. CASE ixAt' = [ixAt EXCEPT ![c].pc = "start", ![c].warned = TRUE]
  <2>1. PICK went : went = [ixAt[c] EXCEPT !.pc = "start", !.warned = TRUE]
    OBVIOUS
  <2>2. went \in IxCall /\ went.pc = "start" /\ went.bounced = ixAt[c].bounced /\ went.spoiled = ixAt[c].spoiled /\ went.warned
    BY <1>3, <2>1, Unbounced DEF IxCall
  <2>3. ixAt' = [ixAt EXCEPT ![c] = went]
    BY <1>5, <2>1
  <2> QED
    BY <1>2, <2>2, <2>3 DEF Behind
<1> QED
  BY <1>4, <1>5 DEF ApplyWaited

\* What the engine is given to take over is what every last action said.
LEMMA Applied ==
  ASSUME IxInv, NEW c \in IxCalls, Moves(c), KeepsTree(c), Applying, UNCHANGED lineVars,
         ixAt'[c].pc \notin {"write", "ok"}, ixAt[c].pc \in Wrote => ixAt'[c].pc \in Wrote
  PROVE  IxInv'
<1>1. engine'.busy = TRUE /\ engine'.mask = mask /\ engine' \in [busy : BOOLEAN, mask : [IxLines -> BOOLEAN], fresh : SUBSET Of["dg"]]
  BY DEF Applying, IxInv, IxTyped
<1>2. IxTyped'
  BY <1>1, CallsKeep DEF IxInv, IxTyped, Moves, KeepsTree, treeVars, lineVars
<1>3. \A k \in IxCalls \ {c} : SameButStale(ixAt[k], ixAt'[k])
  BY DEF Moves, Others
<1>4. UNCHANGED <<ixOf, mask, wire, author>>
  BY DEF Moves, lineVars
<1>5. ASSUME NEW l \in IxLines, author[l] # NoAuthor PROVE LineOK(l)'
  <2>1. LineOK(l)
    BY <1>5 DEF IxInv, LinesOK
  <2>2. ixAt'[author[l]].pc \in Wrote /\ (ixAt'[author[l]].pc = "ok" => ixAt[author[l]].pc = "ok")
    BY <1>3, <2>1 DEF LineOK, SameButStale
  <2> QED
    BY <1>1, <1>4, <2>1, <2>2 DEF LineOK
<1>6. ASSUME NEW k \in IxCalls, ixAt'[k].pc = "write" PROVE SeenOK(k)'
  <2>1. ixAt[k].pc = "write" /\ ixAt'[k].seen = ixAt[k].seen /\ (ixAt[k].stale => ixAt'[k].stale)
    BY <1>3, <1>6 DEF SameButStale
  <2>2. SeenOK(k)
    BY <2>1 DEF IxInv, LinesOK
  <2> QED
    BY <1>4, <2>1, <2>2 DEF SeenOK
<1>7. LinesOK'
  BY <1>4, <1>5, <1>6 DEF LinesOK
<1> QED
  BY <1>2, <1>7, CallsKeep, TreeKeeps DEF IxInv

\* It is pushed.
LEMMA PushFirstStep ==
  ASSUME IxInv, NEW c \in IxCalls, PushFirst(c)
  PROVE  IxInv'
<1>1. UNCHANGED <<ixOf, treeVars, lineVars>> /\ ixAt[c].pc = "applying" /\ ixOf[c].op # "route"
  BY Unbounced DEF PushFirst, IxFits, Over
<1>2. ~ixAt[c].bounced /\ {"start", "applied"} \subseteq IxPcs
  BY <1>1, Unbounced DEF Over, IxPcs
<1>3. CASE ixAt' = [ixAt EXCEPT ![c].pc = "start", ![c].stale = TRUE, ![c].warned = TRUE] /\ UNCHANGED engine
  <2>1. PICK went : went = [ixAt[c] EXCEPT !.pc = "start", !.stale = TRUE, !.warned = TRUE]
    OBVIOUS
  <2>2. went \in IxCall /\ went.pc = "start" /\ went.bounced = ixAt[c].bounced /\ went.spoiled = ixAt[c].spoiled /\ went.stale
    BY <1>2, <2>1, Unbounced DEF IxCall
  <2>3. ixAt' \in [IxCalls -> IxCall] /\ Others(c) /\ ixAt'[c] = went
    <3>1. ixAt' = [ixAt EXCEPT ![c] = went]
      BY <1>3, <2>1
    <3> QED
      BY <2>2, <3>1, Unbounced, AtIs
  <2>4. Moves(c)
    BY <1>1, <1>2, <2>2, <2>3 DEF Moves, IxFits, Over, Locked
  <2>5. KeepsTree(c)
    BY <1>1, <1>2, <2>2, <2>3 DEF KeepsTree, Behind, Owns, Bouncing
  <2>6. KeepsLines(c)
    BY <1>1, <1>3, <2>2, <2>3 DEF KeepsLines, Wrote, Over
  <2> QED
    BY <2>4, <2>5, <2>6, StandsStill
<1>4. CASE Applying /\ ixAt' = [ixAt EXCEPT ![c].pc = "applied", ![c].stale = FALSE]
  <2>1. PICK went : went = [ixAt[c] EXCEPT !.pc = "applied", !.stale = FALSE]
    OBVIOUS
  <2>2. went \in IxCall /\ went.pc = "applied" /\ went.bounced = ixAt[c].bounced /\ went.spoiled = ixAt[c].spoiled
    BY <1>2, <2>1, Unbounced DEF IxCall
  <2>3. ixAt' \in [IxCalls -> IxCall] /\ Others(c) /\ ixAt'[c] = went
    <3>1. ixAt' = [ixAt EXCEPT ![c] = went]
      BY <1>4, <2>1
    <3> QED
      BY <2>2, <3>1, Unbounced, AtIs
  <2>4. Moves(c)
    BY <1>1, <1>2, <2>2, <2>3 DEF Moves, IxFits, Over, Locked
  <2>5. KeepsTree(c)
    BY <1>1, <1>2, <2>2, <2>3 DEF KeepsTree, Behind, Owns, Bouncing
  <2> QED
    BY <1>1, <1>4, <2>2, <2>3, <2>4, <2>5, Applied DEF Wrote, Over
<1> QED
  BY <1>3, <1>4 DEF PushFirst

\* The push of a route action, or of what others have written.
LEMMA PushLinesStep ==
  ASSUME IxInv, NEW c \in IxCalls, PushLines(c)
  PROVE  IxInv'
<1>1. UNCHANGED <<ixOf, treeVars, lineVars>> /\ ixAt[c].pc = "push" /\ ~ixAt[c].bounced
  BY Unbounced DEF PushLines, Over
<1>2. CASE Goto(c, "error") /\ UNCHANGED engine
  BY <1>1, <1>2, IxGoesOn DEF Wrote, Over, Locked
<1>3. CASE Applying /\ ixAt' = [ixAt EXCEPT ![c].pc = "pushed", ![c].stale = FALSE]
  <2>1. PICK went : went = [ixAt[c] EXCEPT !.pc = "pushed", !.stale = FALSE]
    OBVIOUS
  <2>2. "pushed" \in IxPcs
    BY DEF IxPcs, Locked
  <2>3. went \in IxCall /\ went.pc = "pushed" /\ went.bounced = ixAt[c].bounced /\ went.spoiled = ixAt[c].spoiled
    BY <2>1, <2>2, Unbounced DEF IxCall
  <2>4. ixAt' \in [IxCalls -> IxCall] /\ Others(c) /\ ixAt'[c] = went
    <3>1. ixAt' = [ixAt EXCEPT ![c] = went]
      BY <1>3, <2>1
    <3> QED
      BY <2>3, <3>1, Unbounced, AtIs
  <2>5. Moves(c)
    BY <1>1, <2>3, <2>4 DEF Moves, IxFits, Over, Locked
  <2>6. KeepsTree(c)
    BY <1>1, <2>3, <2>4 DEF KeepsTree, Behind, Owns, Bouncing
  <2> QED
    BY <1>1, <1>3, <2>3, <2>4, <2>5, <2>6, Applied DEF Wrote
<1> QED
  BY <1>2, <1>3 DEF PushLines

\* A push that has been waited for is on the wire.
LEMMA LinesPushedStep ==
  ASSUME IxInv, NEW c \in IxCalls, LinesPushed(c)
  PROVE  IxInv'
<1>1. UNCHANGED <<ixOf, treeVars, engine, lineVars>> /\ ixAt[c].pc = "pushed" /\ ~ixAt[c].bounced
  BY Unbounced DEF LinesPushed, Over
<1>2. CASE Goto(c, "warning")
  BY <1>1, <1>2, IxGoesOn DEF Wrote, Over, Locked
<1>3. CASE ~engine.busy /\ ~Pending /\ Goto(c, "ok")
  <2>1. "ok" \in IxPcs
    BY DEF IxPcs, Over
  <2>2. /\ ixAt' \in [IxCalls -> IxCall] /\ Others(c) /\ ixAt'[c].pc = "ok" /\ ixAt'[c].bounced = ixAt[c].bounced
        /\ ixAt'[c].spoiled = ixAt[c].spoiled
    BY <1>3, <2>1, Unbounced, GotoIs
  <2>3. Moves(c)
    BY <1>1, <2>2 DEF Moves, IxFits, Over, Locked
  <2>4. KeepsTree(c)
    BY <1>1, <2>2 DEF KeepsTree, Behind, Owns, Bouncing
  <2>5. IxTyped'
    BY <1>1, <2>3, CallsKeep DEF IxInv, IxTyped, Moves, treeVars, lineVars
  <2>6. \A k \in IxCalls \ {c} : SameButStale(ixAt[k], ixAt'[k])
    BY <2>3 DEF Moves, Others
  <2>7. ASSUME NEW l \in IxLines, author[l] # NoAuthor PROVE LineOK(l)'
    <3>1. LineOK(l) /\ mask = wire
      BY <1>3, <2>7 DEF IxInv, LinesOK, Pending
    <3>2. ixAt'[author[l]].pc \in Wrote
      BY <2>2, <2>6, <3>1 DEF LineOK, SameButStale, Wrote, Over
    <3> QED
      BY <1>1, <1>3, <3>1, <3>2 DEF LineOK, lineVars
  <2>8. ASSUME NEW k \in IxCalls, ixAt'[k].pc = "write" PROVE SeenOK(k)'
    <3>1. ixAt[k].pc = "write" /\ ixAt'[k].seen = ixAt[k].seen /\ (ixAt[k].stale => ixAt'[k].stale)
      BY <2>2, <2>6, <2>8 DEF SameButStale
    <3>2. SeenOK(k)
      BY <3>1 DEF IxInv, LinesOK
    <3> QED
      BY <1>1, <3>1, <3>2 DEF SeenOK, lineVars
  <2>9. LinesOK'
    BY <1>1, <2>7, <2>8 DEF LinesOK, lineVars
  <2> QED
    BY <2>3, <2>4, <2>5, <2>9, CallsKeep, TreeKeeps DEF IxInv
<1> QED
  BY <1>2, <1>3 DEF LinesPushed

\* The engine is through.
LEMMA EngineDoneStep == IxInv /\ EngineDone => IxInv'
<1> SUFFICES ASSUME IxInv, EngineDone PROVE IxInv'
  OBVIOUS
<1>1. /\ UNCHANGED <<ixOf, ixAt, tree, dgUp, meant, mask, listed, author>> /\ fresh' \subseteq fresh
      /\ engine.busy /\ wire' = engine.mask /\ engine' = [engine EXCEPT !.busy = FALSE]
  BY DEF EngineDone
<1>2. engine' \in [busy : BOOLEAN, mask : [IxLines -> BOOLEAN], fresh : SUBSET Of["dg"]] /\ ~engine'.busy
  BY <1>1 DEF IxInv, IxTyped
<1>3. IxTyped'
  BY <1>1, <1>2 DEF IxInv, IxTyped
<1>4. GroupsExist' /\ StartsApplied' /\ HalfBuiltIsOwned' /\ RunningComesBack'
  BY <1>1 DEF IxInv, GroupsExist, StartsApplied, Behind, HalfBuiltIsOwned, RunningComesBack, DgsIn, Present
<1>5. LinesOK'
  BY <1>1, <1>2 DEF IxInv, LinesOK, LineOK, SeenOK
<1>6. CallsFit' /\ OneLocked'
  BY <1>1 DEF IxInv, CallsFit, OneLocked
<1> QED
  BY <1>3, <1>4, <1>5, <1>6 DEF IxInv

\* The lines are read, as they were last said to be.
LEMMA ReadLinesStep ==
  ASSUME IxInv, NEW c \in IxCalls, ReadLines(c)
  PROVE  IxInv'
<1>1. /\ UNCHANGED <<ixOf, treeVars, engine, lineVars>> /\ ixAt[c].pc = "new" /\ ixOf[c].op \in {"route", "stage"}
      /\ LockFree(c) /\ ~ixAt[c].bounced
  BY Unbounced DEF ReadLines, Enter, Over
<1>2. CASE Goto(c, "error")
  BY <1>1, <1>2, IxGoesOn DEF Wrote, Over, Locked
<1>3. CASE ixAt' = [ixAt EXCEPT ![c].pc = "write", ![c].seen = mask, ![c].pattern = listed, ![c].stale = FALSE]
  <2>1. PICK went : went = [ixAt[c] EXCEPT !.pc = "write", !.seen = mask, !.pattern = listed, !.stale = FALSE]
    OBVIOUS
  <2>2. "write" \in IxPcs /\ mask \in [IxLines -> BOOLEAN] /\ listed \in BOOLEAN
    BY DEF IxPcs, Locked, IxInv, IxTyped
  <2>3. went \in IxCall /\ went.pc = "write" /\ went.bounced = ixAt[c].bounced /\ went.spoiled = ixAt[c].spoiled /\ went.seen = mask
    BY <2>1, <2>2, Unbounced DEF IxCall
  <2>4. ixAt' \in [IxCalls -> IxCall] /\ Others(c) /\ ixAt'[c] = went
    <3>1. ixAt' = [ixAt EXCEPT ![c] = went]
      BY <1>3, <2>1
    <3> QED
      BY <2>3, <3>1, Unbounced, AtIs
  <2>5. Moves(c)
    BY <1>1, <2>3, <2>4 DEF Moves, IxFits, Over
  <2>6. KeepsTree(c)
    BY <1>1, <2>3, <2>4 DEF KeepsTree, Behind, Owns, Bouncing
  <2>7. IxTyped'
    BY <1>1, <2>5, CallsKeep DEF IxInv, IxTyped, Moves, treeVars, lineVars
  <2>8. \A k \in IxCalls \ {c} : SameButStale(ixAt[k], ixAt'[k])
    BY <2>5 DEF Moves, Others
  <2>9. ASSUME NEW l \in IxLines, author[l] # NoAuthor PROVE LineOK(l)' /\ mask[l] = ixOf[author[l]].on
    <3>1. LineOK(l)
      BY <2>9 DEF IxInv, LinesOK
    <3>2. author[l] # c
      BY <1>1, <3>1 DEF LineOK, Wrote, Over
    <3> QED
      BY <1>1, <2>8, <3>1, <3>2 DEF LineOK, lineVars, SameButStale
  <2>10. ASSUME NEW k \in IxCalls \ {c}, ixAt'[k].pc = "write" PROVE SeenOK(k)'
    <3>1. ixAt[k].pc = "write" /\ ixAt'[k].seen = ixAt[k].seen /\ (ixAt[k].stale => ixAt'[k].stale)
      BY <2>8, <2>10 DEF SameButStale
    <3>2. SeenOK(k)
      BY <3>1 DEF IxInv, LinesOK
    <3> QED
      BY <1>1, <3>1, <3>2 DEF SeenOK, lineVars
  <2>11. SeenOK(c)'
    BY <1>1, <2>3, <2>4, <2>9 DEF SeenOK, lineVars
  <2>12. LinesOK'
    BY <1>1, <2>9, <2>10, <2>11 DEF LinesOK, lineVars
  <2> QED
    BY <2>5, <2>6, <2>7, <2>12, CallsKeep, TreeKeeps DEF IxInv
<1> QED
  BY <1>2, <1>3 DEF ReadLines

\* The lines are written: those of other calls as they said, or they are
\* theirs no longer.
LEMMA WriteLinesStep ==
  ASSUME IxInv, NEW c \in IxCalls, WriteLines(c)
  PROVE  IxInv'
<1>1. /\ UNCHANGED <<ixOf, treeVars, engine, wire>> /\ ixAt[c].pc = "write" /\ ~ixAt[c].bounced
  BY Unbounced DEF WriteLines, Over
<1>2. CASE Goto(c, "error") /\ UNCHANGED <<mask, listed, author>>
  BY <1>1, <1>2, IxGoesOn DEF Wrote, Over, Locked, lineVars
<1>3. ASSUME mask' = NewLines(c), listed' = TRUE,
             author' = [l \in IxLines |-> IF l \in ixOf[c].lines THEN c ELSE IF Foreign(c, l) THEN NoAuthor ELSE author[l]],
             EditAt(c, [ixAt[c] EXCEPT !.pc = IF ixOf[c].op = "route" THEN "push" ELSE "ok"])
      PROVE  IxInv'
  <2>1. PICK went : went = [ixAt[c] EXCEPT !.pc = IF ixOf[c].op = "route" THEN "push" ELSE "ok"]
    OBVIOUS
  <2>2. {"push", "ok"} \subseteq IxPcs
    BY DEF IxPcs, Locked, Over
  <2>3. /\ went \in IxCall /\ went.pc = (IF ixOf[c].op = "route" THEN "push" ELSE "ok")
        /\ went.bounced = ixAt[c].bounced /\ went.spoiled = ixAt[c].spoiled
    BY <2>1, <2>2, Unbounced DEF IxCall
  <2>4. ixAt' \in [IxCalls -> IxCall] /\ Others(c) /\ ixAt'[c] = went /\ OthersStale(c)
    BY <1>3, <2>1, <2>3, Unbounced, EditIs
  <2>5. Moves(c)
    BY <1>1, <2>3, <2>4 DEF Moves, IxFits, Over, Locked
  <2>6. KeepsTree(c)
    BY <1>1, <2>3, <2>4 DEF KeepsTree, Behind, Owns, Bouncing
  <2>7. mask' \in [IxLines -> BOOLEAN]
    BY <1>3, Unbounced DEF NewLines, IxInv, IxTyped, IxCall
  <2>8. IxTyped'
    BY <1>1, <1>3, <2>5, <2>7, CallsKeep DEF IxInv, IxTyped, Moves, treeVars
  <2>9. \A k \in IxCalls \ {c} : SameButStale(ixAt[k], ixAt'[k]) /\ ixAt'[k].stale
    BY <2>4 DEF Others, OthersStale
  <2>10. SeenOK(c)
    BY <1>1 DEF IxInv, LinesOK
  <2>11. ASSUME NEW l \in IxLines, l \notin ixOf[c].lines, author'[l] # NoAuthor
         PROVE  author'[l] = author[l] /\ LineOK(l) /\ mask'[l] = mask[l] /\ author[l] # c
    <3>1. author'[l] = author[l] /\ ~Foreign(c, l)
      BY <1>3, <2>11
    <3>2. LineOK(l) /\ author[l] # NoAuthor
      BY <2>11, <3>1 DEF IxInv, LinesOK
    <3>3. ixAt[c].seen[l] = mask[l]
      BY <2>10, <3>1, <3>2 DEF SeenOK, Foreign, LineOK
    <3>4. mask'[l] = mask[l]
      BY <1>3, <2>11, <3>3 DEF NewLines
    <3> QED
      BY <1>1, <3>1, <3>2, <3>4 DEF LineOK, Wrote, Over
  <2>12. ASSUME NEW l \in IxLines, author'[l] # NoAuthor PROVE LineOK(l)'
    <3>1. CASE l \in ixOf[c].lines
      <4>1. author'[l] = c /\ mask'[l] = ixOf[c].on
        BY <1>3, <3>1 DEF NewLines
      <4>2. ixAt'[c].pc \in Wrote /\ (ixOf[c].op = "route" => ixAt'[c].pc # "ok")
        BY <2>3, <2>4 DEF Wrote, Over
      <4> QED
        BY <1>1, <4>1, <4>2 DEF LineOK
    <3>2. CASE l \notin ixOf[c].lines
      <4>1. author'[l] = author[l] /\ LineOK(l) /\ mask'[l] = mask[l] /\ author[l] # c
        BY <2>11, <2>12, <3>2
      <4> QED
        BY <1>1, <2>9, <4>1 DEF LineOK, SameButStale
    <3> QED
      BY <3>1, <3>2
  <2>13. ASSUME NEW k \in IxCalls, ixAt'[k].pc = "write" PROVE SeenOK(k)'
    <3>1. k # c
      BY <2>3, <2>4, <2>13
    <3>2. ixAt[k].pc = "write" /\ ixAt'[k].seen = ixAt[k].seen /\ ixAt'[k].stale
      BY <2>9, <2>13, <3>1 DEF SameButStale
    <3>3. SeenOK(k) /\ ixOf[k].by # ixOf[c].by
      BY <1>1, <3>1, <3>2 DEF IxInv, LinesOK, OneLocked, Locked
    <3>4. ASSUME NEW l \in IxLines, author'[l] # NoAuthor, ixOf[author'[l]].by = ixOf[k].by
          PROVE  ixAt'[k].seen[l] = ixOf[author'[l]].on
      <4>1. l \notin ixOf[c].lines
        BY <1>3, <3>3, <3>4
      <4>2. author'[l] = author[l]
        BY <2>11, <3>4, <4>1
      <4> QED
        BY <3>2, <3>3, <3>4, <4>2 DEF SeenOK
    <3> QED
      BY <1>1, <3>2, <3>4 DEF SeenOK
  <2>14. LinesOK'
    BY <2>12, <2>13 DEF LinesOK
  <2> QED
    BY <2>5, <2>6, <2>8, <2>14, CallsKeep, TreeKeeps DEF IxInv
<1> QED
  BY <1>2, <1>3 DEF WriteLines

-----------------------------------------------------------------------------
(* Steps on the tree.                                                      *)

\* What is half built after a step was before, or its call owns it now.
KeepsHalf(c) ==
  LET lost == Owns(ixOf[c], ixAt[c]) /\ ~Owns(ixOf[c], ixAt'[c]) IN
  \A n \in IxNodes : tree'[n] = "half" =>
    \/ tree[n] = "half" /\ (lost => n # ixOf[c].node)
    \/ n = ixOf[c].node /\ Owns(ixOf[c], ixAt'[c])

\* What is down after a step was before, or its call is to start it.
KeepsRuns(c) ==
  LET lost == Bouncing(ixAt[c]) /\ ~Bouncing(ixAt'[c])
      its == Below[Topo[ixOf[c].node]] IN
  \A d \in meant' \ dgUp' :
    \/ d \in meant \ dgUp /\ (lost => d \notin its)
    \/ Bouncing(ixAt'[c]) /\ d \in its

LEMMA TreeMoves ==
  ASSUME IxInv, NEW c \in IxCalls, Moves(c), KeepsLines(c),
         tree' \in [IxNodes -> {"absent", "half", "built"}], fresh' \subseteq Of["dg"],
         KeepsHalf(c), KeepsRuns(c), GroupsExist',
         ixAt'[c].pc # "start", OthersStale(c) \/ fresh' \subseteq fresh
  PROVE  IxInv'
<1>1. IxTyped'
  BY CallsKeep DEF IxInv, IxTyped, Moves, KeepsLines, lineVars
<1>2. \A k \in IxCalls \ {c} : SameButStale(ixAt[k], ixAt'[k])
  BY DEF Moves, Others
<1>3. StartsApplied'
  BY <1>2 DEF IxInv, StartsApplied, Behind, SameButStale, OthersStale
<1>4. HalfBuiltIsOwned'
  <2> SUFFICES ASSUME NEW n \in IxNodes, tree'[n] = "half"
               PROVE  \E k \in IxCalls : ixOf'[k].node = n /\ Owns(ixOf'[k], ixAt'[k])
    BY DEF HalfBuiltIsOwned, Owns
  <2>1. CASE n = ixOf[c].node /\ Owns(ixOf[c], ixAt'[c])
    BY <2>1 DEF Moves
  <2>2. CASE tree[n] = "half" /\ (Owns(ixOf[c], ixAt[c]) /\ ~Owns(ixOf[c], ixAt'[c]) => n # ixOf[c].node)
    <3>1. PICK k \in IxCalls : ixOf[k].node = n /\ Owns(ixOf[k], ixAt[k])
      BY <2>2 DEF IxInv, HalfBuiltIsOwned, Owns
    <3>2. Owns(ixOf[k], ixAt'[k])
      BY <1>2, <2>2, <3>1 DEF Owns, SameButStale
    <3> QED
      BY <3>1, <3>2 DEF Moves
  <2> QED
    BY <2>1, <2>2 DEF KeepsHalf
<1>5. RunningComesBack'
  <2> SUFFICES ASSUME NEW d \in meant' \ dgUp'
               PROVE  \E k \in IxCalls : Bouncing(ixAt'[k]) /\ d \in Below[Topo[ixOf'[k].node]]
    BY DEF RunningComesBack, Bouncing
  <2>1. CASE Bouncing(ixAt'[c]) /\ d \in Below[Topo[ixOf[c].node]]
    BY <2>1 DEF Moves
  <2>2. CASE /\ d \in meant \ dgUp
             /\ Bouncing(ixAt[c]) /\ ~Bouncing(ixAt'[c]) => d \notin Below[Topo[ixOf[c].node]]
    <3>1. PICK k \in IxCalls : Bouncing(ixAt[k]) /\ d \in Below[Topo[ixOf[k].node]]
      BY <2>2 DEF IxInv, RunningComesBack, Bouncing
    <3>2. Bouncing(ixAt'[k])
      BY <1>2, <2>2, <3>1 DEF Bouncing, SameButStale
    <3> QED
      BY <3>1, <3>2 DEF Moves
  <2> QED
    BY <2>1, <2>2 DEF KeepsRuns
<1> QED
  BY <1>1, <1>3, <1>4, <1>5, CallsKeep, LinesKeep DEF IxInv

\* The topology of a node is a node that is above it, or a traffic item itself.
LEMMA TopoIs ==
  ASSUME NEW n \in IxNodes
  PROVE  /\ Topo[n] \in IxNodes /\ Topo[n] # "session"
         /\ IxKind[n] = "item" => Topo[n] = n
         /\ DgsIn(Topo[n]) = {d \in DgsIn("session") : d \in Below[Topo[n]]}
<1>1. Topo[n] \in IxNodes /\ (IxKind[n] = "item" => Topo[n] = n)
  <2>1. CASE IxKind[n] = "item"
    BY <2>1 DEF Topo
  <2>2. CASE IxKind[n] # "item"
    <3>1. PICK t \in IxNodes : IxKind[t] = "topology" /\ (t = n \/ t \in IxAbove[n])
      BY <2>2, IxiaAssumption
    <3>2. Of["topology"] = {k \in IxNodes : IxKind[k] = "topology"}
      BY DEF Of, Kinds
    <3>3. \E k \in Of["topology"] : n \in Below[k]
      BY <3>1, <3>2 DEF Below
    <3>4. (CHOOSE k \in Of["topology"] : n \in Below[k]) \in IxNodes
      BY <3>2, <3>3
    <3> QED
      BY <2>2, <3>4 DEF Topo
  <2> QED
    BY <2>1, <2>2
<1>2. Topo[n] # "session"
  BY <1>1, IxiaAssumption
<1> QED
  BY <1>1, <1>2 DEF DgsIn

\* What is there stays there when nothing disappears.
LEMMA Grown ==
  ASSUME \A n \in IxNodes : Present(n) => Present(n)'
  PROVE  DgsIn("session") \subseteq DgsIn("session")'
<1>1. Of["dg"] \subseteq IxNodes
  BY NodesOf DEF Kinds
<1> QED
  BY <1>1 DEF DgsIn

\* Device groups are device groups.
LEMMA DgsAre ==
  /\ \A n : DgsIn(n) \subseteq DgsIn("session") /\ DgsIn(n) \subseteq Of["dg"]
  /\ \A n \in IxNodes : DgsOver[n] \subseteq Of["dg"]
BY DEF DgsIn, DgsOver

\* The Stop of a bounce.
LEMMA StopFirstStep ==
  ASSUME IxInv, NEW c \in IxCalls, StopFirst(c)
  PROVE  IxInv'
<1>1. /\ UNCHANGED <<ixOf, tree, fresh, engine, lineVars>> /\ ixAt[c].pc = "stop" /\ ~ixAt[c].bounced
      /\ ixOf[c].node \in IxNodes /\ ixOf[c].op \in {"create", "delete"}
  BY Unbounced DEF StopFirst, IxFits, Over
<1>2. CASE Goto(c, "error") /\ UNCHANGED <<dgUp, meant>>
  BY <1>1, <1>2, IxGoesOn DEF Wrote, Over, Locked, treeVars
<1>3. ASSUME NEW t, t = Topo[ixOf[c].node], dgUp' = dgUp \ DgsIn(t),
             ixAt' = [ixAt EXCEPT ![c].pc = IF ixOf[c].op = "create" THEN "post" ELSE "remove",
                                  ![c].bounced = ixOf[c].node # t],
             meant' = IF ixOf[c].node = t THEN meant \ DgsIn(t) ELSE meant
      PROVE  IxInv'
  <2>1. PICK to, b, went : /\ to = (IF ixOf[c].op = "create" THEN "post" ELSE "remove") /\ b = (ixOf[c].node # t)
                         /\ went = [ixAt[c] EXCEPT !.pc = to, !.bounced = b]
    OBVIOUS
  <2>2. to \in IxPcs /\ b \in BOOLEAN /\ to \in Locked /\ to \notin Over
    BY <2>1 DEF IxPcs, Locked, Over
  <2>3. went \in IxCall /\ went.pc = to /\ went.bounced = b /\ went.spoiled = ixAt[c].spoiled
    BY <2>1, <2>2, Unbounced DEF IxCall
  <2>4. ixAt' \in [IxCalls -> IxCall] /\ Others(c) /\ ixAt'[c] = went
    <3>1. ixAt' = [ixAt EXCEPT ![c] = went]
      BY <1>3, <2>1
    <3> QED
      BY <2>3, <3>1, Unbounced, AtIs
  <2>5. t \in IxNodes /\ (b => IxKind[ixOf[c].node] # "item") /\ DgsIn(t) = {d \in DgsIn("session") : d \in Below[t]}
    BY <1>1, <1>3, <2>1, TopoIs
  <2>6. Moves(c)
    BY <1>1, <2>1, <2>3, <2>4, <2>5 DEF Moves, IxFits, Over, Locked
  <2>7. KeepsLines(c)
    BY <1>1, <2>1, <2>3, <2>4 DEF KeepsLines, Wrote, Over
  <2>8. KeepsHalf(c)
    BY <1>1, <2>3, <2>4 DEF KeepsHalf, Owns
  <2>9. KeepsRuns(c)
    BY <1>1, <1>3, <2>1, <2>2, <2>3, <2>4, <2>5 DEF KeepsRuns, Bouncing, IxInv, GroupsExist
  <2>10. DgsIn("session")' = DgsIn("session")
    BY <1>1 DEF DgsIn, Present
  <2>11. GroupsExist'
    BY <1>3, <2>10 DEF IxInv, GroupsExist
  <2>12. ixAt'[c].pc # "start"
    BY <2>1, <2>3, <2>4
  <2> QED
    BY <1>1, <2>6, <2>7, <2>8, <2>9, <2>11, <2>12, TreeMoves DEF IxInv, IxTyped
<1> QED
  BY <1>2, <1>3 DEF StopFirst

\* Its Start.
LEMMA RestartStep ==
  ASSUME IxInv, NEW c \in IxCalls, Restart(c)
  PROVE  IxInv'
<1>1. /\ UNCHANGED <<ixOf, tree, engine, lineVars>> /\ ixAt[c].pc = "restart" /\ ixAt[c].bounced /\ ixAt[c].verdict \in Over
      /\ ixOf[c].node \in IxNodes /\ ixOf[c].op \in {"create", "delete"} /\ IxKind[ixOf[c].node] # "item"
  BY Unbounced DEF Restart, IxFits, IxCall
<1>2. PICK t, dgs : t = Topo[ixOf[c].node] /\ dgs = DgsIn(t)
  OBVIOUS
<1>3. dgs = {d \in DgsIn("session") : d \in Below[t]}
  BY <1>1, <1>2, TopoIs
<1>4. PICK to \in Over : /\ Goto(c, to) /\ meant' = meant \ (dgs \ dgUp') /\ dgUp \subseteq dgUp'
                         /\ dgUp' \subseteq dgUp \cup dgs /\ fresh' \subseteq fresh
  BY <1>1, <1>2 DEF Restart, Starting, Over
<1>5. /\ ixAt' \in [IxCalls -> IxCall] /\ Others(c) /\ ixAt'[c].pc = to /\ ixAt'[c].bounced = ixAt[c].bounced
      /\ ixAt'[c].spoiled = ixAt[c].spoiled
  BY <1>4, Unbounced, GotoIs DEF IxPcs
<1>6. Moves(c)
  BY <1>1, <1>5 DEF Moves, IxFits, Over, Locked
<1>7. KeepsLines(c)
  BY <1>1, <1>5 DEF KeepsLines, Wrote, Over
<1>8. KeepsHalf(c)
  BY <1>1, <1>5 DEF KeepsHalf, Owns
<1>9. KeepsRuns(c)
  <2> SUFFICES ASSUME NEW d \in meant' \ dgUp' PROVE d \in meant \ dgUp /\ d \notin Below[Topo[ixOf[c].node]]
    BY DEF KeepsRuns
  <2>1. d \in meant \ dgUp /\ d \notin dgs
    BY <1>4
  <2>2. d \in DgsIn("session")
    BY <2>1 DEF IxInv, GroupsExist
  <2> QED
    BY <1>2, <1>3, <2>1, <2>2
<1>10. DgsIn("session")' = DgsIn("session")
  BY <1>1 DEF DgsIn, Present
<1>11. GroupsExist'
  BY <1>3, <1>4, <1>10 DEF IxInv, GroupsExist
<1>12. ixAt'[c].pc # "start"
  BY <1>5 DEF Over
<1> QED
  BY <1>1, <1>4, <1>6, <1>7, <1>8, <1>9, <1>11, <1>12, TreeMoves DEF IxInv, IxTyped

\* The POST of a node.
LEMMA PostStep ==
  ASSUME IxInv, NEW c \in IxCalls, NEW state, NEW next, NEW failed, Post(c, state, next, failed),
         ixOf[c].op = "create", ixOf[c].node \in IxNodes,
         \/ state = "built" /\ next = "ok" /\ ixAt[c].pc = "new"
         \/ state = "half" /\ next = "patch" /\ ixAt[c].pc \in {"new", "post"},
         ixAt[c].pc = "new" => LockFree(c),
         failed = Leaving(c, "error") \/ (failed = Failed(c) /\ ixAt[c].pc = "new")
  PROVE  IxInv'
<1>1. UNCHANGED <<ixOf, dgUp, meant, engine, lineVars>>
  BY DEF Post
<1>2. ixAt \in [IxCalls -> IxCall] /\ IxFits(ixOf[c], ixAt[c]) /\ ixAt[c] \in IxCall /\ (ixAt[c].pc = "new" => ~ixAt[c].bounced)
  BY Unbounced DEF Over
<1>3. PICK n : n = ixOf[c].node
  OBVIOUS
<1>4. ASSUME ~Present(n), tree' = [tree EXCEPT ![n] = state], Edited(n), EditAt(c, [ixAt[c] EXCEPT !.pc = next])
      PROVE  IxInv'
  <2>1. PICK went : went = [ixAt[c] EXCEPT !.pc = next]
    OBVIOUS
  <2>2. {"ok", "patch"} \subseteq IxPcs
    BY DEF IxPcs, Over, Locked
  <2>3. went \in IxCall /\ went.pc = next /\ went.bounced = ixAt[c].bounced /\ went.spoiled = ixAt[c].spoiled
    BY <1>2, <2>1, <2>2 DEF IxCall
  <2>4. ixAt' \in [IxCalls -> IxCall] /\ Others(c) /\ ixAt'[c] = went /\ OthersStale(c)
    BY <1>2, <1>4, <2>1, <2>3, EditIs
  <2>5. Moves(c)
    BY <1>1, <1>2, <2>3, <2>4 DEF Moves, IxFits, Over, Locked
  <2>6. KeepsLines(c)
    BY <1>1, <2>3, <2>4 DEF KeepsLines, Wrote, Over
  <2>7. tree' \in [IxNodes -> {"absent", "half", "built"}]
    BY <1>4 DEF IxInv, IxTyped
  <2>8. fresh' \subseteq Of["dg"]
    BY <1>3, <1>4, DgsAre DEF IxInv, IxTyped, Edited
  <2>9. KeepsHalf(c)
    BY <1>3, <1>4, <2>3, <2>4 DEF KeepsHalf, Owns, IxInv, IxTyped
  <2>10. KeepsRuns(c)
    BY <1>1, <1>2, <2>3, <2>4 DEF KeepsRuns, Bouncing, Over
  <2>11. \A k \in IxNodes : Present(k) => Present(k)'
    BY <1>3, <1>4 DEF Present, IxInv, IxTyped
  <2>12. GroupsExist'
    BY <1>1, <2>11, Grown DEF IxInv, GroupsExist
  <2>13. ixAt'[c].pc # "start"
    BY <2>3, <2>4
  <2> QED
    BY <2>4, <2>5, <2>6, <2>7, <2>8, <2>9, <2>10, <2>12, <2>13, TreeMoves
<1>5. CASE ixAt' = [ixAt EXCEPT ![c] = failed] /\ UNCHANGED <<tree, fresh>>
  <2>1. "error" \in Over /\ "error" \in IxPcs
    BY DEF IxPcs, Over
  <2>2. /\ failed \in IxCall /\ failed.pc = (IF ixAt[c].bounced THEN "restart" ELSE "error")
        /\ failed.bounced = ixAt[c].bounced /\ failed.spoiled = ixAt[c].spoiled
    <3>1. CASE failed = Leaving(c, "error")
      <4>1. ixAt \in [IxCalls -> IxCall]
        BY <1>2
      <4> QED
        BY ONLY <2>1, <3>1, <4>1, c \in IxCalls, LeavingIs
    <3>2. CASE failed = Failed(c) /\ ixAt[c].pc = "new"
      BY <1>2, <2>1, <3>2 DEF Failed, IxCall
    <3> QED
      BY <3>1, <3>2
  <2>3. ixAt' \in [IxCalls -> IxCall] /\ Others(c) /\ ixAt'[c] = failed
    BY <1>2, <1>5, <2>2, AtIs
  <2>4. Moves(c)
    BY <1>1, <1>2, <2>2, <2>3 DEF Moves, IxFits, Over, Locked
  <2>5. KeepsTree(c)
    BY <1>1, <1>5, <2>2, <2>3 DEF KeepsTree, Behind, Owns, Bouncing, Over, treeVars
  <2>6. KeepsLines(c)
    BY <1>1, <2>2, <2>3 DEF KeepsLines, Wrote, Over
  <2> QED
    BY <2>4, <2>5, <2>6, StandsStill
<1> QED
  BY <1>3, <1>4, <1>5 DEF Post

\* A node is created.
LEMMA CreateStep ==
  ASSUME IxInv, NEW c \in IxCalls, Create(c) \/ PostGroup(c)
  PROVE  IxInv'
<1>1. ASSUME NEW kind \in Kinds, Enter(c, "create", kind),
             Post(c, "built", "ok", Failed(c)) \/ Post(c, "half", "patch", Failed(c))
      PROVE  IxInv'
  <2>1. ixOf[c].node \in IxNodes /\ ixAt[c].pc = "new" /\ ixOf[c].op = "create" /\ LockFree(c)
    BY <1>1, NodesOf DEF Enter
  <2>2. CASE Post(c, "built", "ok", Failed(c))
    BY <2>1, <2>2, PostStep
  <2>3. CASE Post(c, "half", "patch", Failed(c))
    BY <2>1, <2>3, PostStep
  <2> QED
    BY <1>1, <2>2, <2>3
<1>2. CASE PostGroup(c)
  <2>1. ixAt[c].pc = "post" /\ ixOf[c].op = "create" /\ ixOf[c].node \in IxNodes /\ Post(c, "half", "patch", Leaving(c, "error"))
    BY <1>2, Unbounced DEF PostGroup, IxFits
  <2> QED
    BY <2>1, PostStep
<1>3. {"topology", "dg", "ethernet", "ipv4", "peer", "vrf", "bfd", "item"} \subseteq Kinds
  BY DEF Kinds, Leaves
<1> QED
  BY <1>1, <1>2, <1>3, CreateGroupStep DEF Create, CreateTopology, CreateDeviceGroup, CreateEthernet, CreateIpv4,
     CreateBgpPeer, CreateBgpVrf, CreateBfd, CreateTrafficItem

\* Nodes that disappear take what runs in them along.
LEMMA GoneIs ==
  ASSUME IxInv, NEW n \in IxNodes, Gone(n)
  PROVE  /\ tree' \in [IxNodes -> {"absent", "half", "built"}] /\ tree'[n] = "absent"
         /\ \A k \in IxNodes : tree'[k] = "half" => tree[k] = "half"
         /\ fresh' \subseteq Of["dg"] /\ GroupsExist' /\ meant' \ dgUp' \subseteq meant \ dgUp
<1>1. tree' \in [IxNodes -> {"absent", "half", "built"}] /\ \A k \in IxNodes : tree'[k] = "half" => tree[k] = "half"
  BY DEF Gone, IxInv, IxTyped
<1>2. tree'[n] = "absent"
  BY DEF Gone, Below
<1>3. fresh' \subseteq Of["dg"]
  BY DgsAre DEF Gone, IxInv, IxTyped
<1>4. meant' \ dgUp' \subseteq meant \ dgUp
  BY DEF Gone
<1>5. GroupsExist'
  <2> SUFFICES ASSUME NEW d \in meant' \cup dgUp' PROVE d \in DgsIn("session")'
    BY DEF GroupsExist
  <2>1. d \in meant \cup dgUp /\ d \notin Below[n]
    BY DEF Gone
  <2>2. d \in DgsIn("session")
    BY <2>1 DEF IxInv, GroupsExist
  <2>3. d \in Of["dg"] /\ Present(d) /\ d \in IxNodes
    BY <2>2, NodesOf DEF DgsIn, Kinds
  <2>4. tree'[d] = tree[d]
    BY <2>1, <2>3 DEF Gone
  <2> QED
    BY <2>3, <2>4 DEF DgsIn, Present
<1> QED
  BY <1>1, <1>2, <1>3, <1>4, <1>5

\* A call that leaves after an edit, well or not, goes by its restart.
LEMMA Departs ==
  ASSUME IxInv, NEW c \in IxCalls, ixAt[c].pc \in {"patch", "rollback", "remove"}, UNCHANGED <<ixOf, engine, lineVars>>,
         NEW told \in Over, told \in {"ok", "error"}, NEW went \in IxCall,
         went.pc = (IF ixAt[c].bounced THEN "restart" ELSE told), went.bounced = ixAt[c].bounced,
         ixAt' \in [IxCalls -> IxCall], Others(c), ixAt'[c] = went
  PROVE  Moves(c) /\ KeepsLines(c) /\ ixAt'[c].pc # "start" /\ (Bouncing(ixAt[c]) => Bouncing(ixAt'[c]))
<1>1. IxFits(ixOf[c], ixAt[c])
  BY Unbounced
<1>2. Moves(c)
  BY <1>1 DEF Moves, IxFits, Over, Locked
<1> QED
  BY <1>1, <1>2 DEF KeepsLines, IxFits, Wrote, Over, Bouncing

\* The patches of a new node.
LEMMA PatchStep ==
  ASSUME IxInv, NEW c \in IxCalls, Patch(c)
  PROVE  IxInv'
<1>1. UNCHANGED <<ixOf, dgUp, meant, engine, lineVars>> /\ ixAt[c].pc = "patch"
  BY DEF Patch
<1>2. /\ ixAt \in [IxCalls -> IxCall] /\ ixAt[c] \in IxCall /\ IxFits(ixOf[c], ixAt[c])
      /\ ixOf[c].node \in IxNodes /\ ixOf[c].op = "create" /\ {"ok", "error"} \subseteq Over
      /\ {"error", "rollback"} \subseteq IxPcs
  BY <1>1, Unbounced DEF IxFits, Over, IxPcs, Locked
<1>3. PICK n : n = ixOf[c].node
  OBVIOUS
<1>4. ASSUME tree' = [tree EXCEPT ![n] = "built"], Edited(n), EditAt(c, Leaving(c, "ok")) PROVE IxInv'
  <2>1. PICK went : went = Leaving(c, "ok")
    OBVIOUS
  <2>2. went \in IxCall /\ went.pc = (IF ixAt[c].bounced THEN "restart" ELSE "ok") /\ went.bounced = ixAt[c].bounced
    BY <1>2, <2>1, LeavingIs
  <2>3. ixAt' \in [IxCalls -> IxCall] /\ Others(c) /\ ixAt'[c] = went /\ OthersStale(c)
    BY <1>2, <1>4, <2>1, <2>2, EditIs
  <2>4. Moves(c) /\ KeepsLines(c) /\ ixAt'[c].pc # "start" /\ (Bouncing(ixAt[c]) => Bouncing(ixAt'[c]))
    BY <1>1, <1>2, <2>2, <2>3, Departs
  <2>5. tree' \in [IxNodes -> {"absent", "half", "built"}]
    BY <1>4 DEF IxInv, IxTyped
  <2>6. fresh' \subseteq Of["dg"]
    BY <1>2, <1>3, <1>4, DgsAre DEF IxInv, IxTyped, Edited
  <2>7. KeepsHalf(c)
    BY <1>2, <1>3, <1>4 DEF KeepsHalf, IxInv, IxTyped
  <2>8. KeepsRuns(c)
    BY <1>1, <2>4 DEF KeepsRuns
  <2>9. \A k \in IxNodes : Present(k) => Present(k)'
    BY <1>3, <1>4 DEF Present, IxInv, IxTyped
  <2>10. GroupsExist'
    BY <1>1, <2>9, Grown DEF IxInv, GroupsExist
  <2> QED
    BY <2>3, <2>4, <2>5, <2>6, <2>7, <2>8, <2>10, TreeMoves
<1>5. CASE PatchFails(c) /\ UNCHANGED <<tree, fresh>>
  <2>1. CASE IxKind[ixOf[c].node] = "item"
    <3>1. ~ixAt[c].bounced
      BY <1>2, <2>1 DEF IxFits
    <3>2. PICK went : went = [ixAt[c] EXCEPT !.pc = "error", !.spoiled = TRUE]
      OBVIOUS
    <3>3. went \in IxCall /\ went.pc = "error" /\ went.spoiled /\ went.bounced = ixAt[c].bounced
      BY <1>2, <3>2 DEF IxCall
    <3>4. ixAt' = [ixAt EXCEPT ![c] = went]
      BY <1>5, <2>1, <3>2 DEF PatchFails
    <3>5. ixAt' \in [IxCalls -> IxCall] /\ Others(c) /\ ixAt'[c] = went
      BY <1>2, <3>3, <3>4, AtIs
    <3>6. Moves(c)
      BY <1>1, <1>2, <3>1, <3>3, <3>5 DEF Moves, IxFits, Over, Locked
    <3>7. KeepsTree(c)
      BY <1>1, <1>2, <1>5, <3>1, <3>3, <3>5 DEF KeepsTree, Behind, Owns, Bouncing, treeVars
    <3>8. KeepsLines(c)
      BY <1>1, <1>2, <3>3, <3>5 DEF KeepsLines, Wrote, Over
    <3> QED
      BY <3>6, <3>7, <3>8, StandsStill
  <2>2. CASE Goto(c, "rollback")
    <3>1. ixAt' \in [IxCalls -> IxCall] /\ Others(c) /\ ixAt'[c].pc = "rollback" /\ ixAt'[c].bounced = ixAt[c].bounced
      BY <1>2, <2>2, GotoIs
    <3>2. Moves(c)
      BY <1>1, <1>2, <3>1 DEF Moves, IxFits, Over, Locked
    <3>3. KeepsTree(c)
      BY <1>1, <1>2, <1>5, <3>1 DEF KeepsTree, Behind, Owns, Bouncing, Over, treeVars
    <3>4. KeepsLines(c)
      BY <1>1, <1>2, <3>1 DEF KeepsLines, Wrote, Over
    <3> QED
      BY <3>2, <3>3, <3>4, StandsStill
  <2> QED
    BY <1>5, <2>1, <2>2 DEF PatchFails
<1> QED
  BY <1>3, <1>4, <1>5 DEF Patch

\* What a failed edit has posted is taken back.
LEMMA TakeBackStep ==
  ASSUME IxInv, NEW c \in IxCalls, TakeBack(c)
  PROVE  IxInv'
<1>1. UNCHANGED <<ixOf, engine, lineVars>> /\ ixAt[c].pc = "rollback"
  BY DEF TakeBack
<1>2. /\ ixAt \in [IxCalls -> IxCall] /\ ixAt[c] \in IxCall /\ ixOf[c].node \in IxNodes /\ ixOf[c].op = "create"
      /\ "error" \in Over
  BY <1>1, Unbounced DEF IxFits, Over
<1>3. PICK n, went : n = ixOf[c].node /\ went = Leaving(c, "error")
  OBVIOUS
<1>4. /\ went \in IxCall /\ went.pc = (IF ixAt[c].bounced THEN "restart" ELSE "error") /\ went.bounced = ixAt[c].bounced
      /\ [went EXCEPT !.spoiled = TRUE] \in IxCall /\ [went EXCEPT !.spoiled = TRUE].pc = went.pc
      /\ [went EXCEPT !.spoiled = TRUE].spoiled /\ [went EXCEPT !.spoiled = TRUE].bounced = went.bounced
  BY <1>2, <1>3, LeavingIs, SpoiledIs
<1>5. CASE Gone(n) /\ EditAt(c, went)
  <2>1. ixAt' \in [IxCalls -> IxCall] /\ Others(c) /\ ixAt'[c] = went /\ OthersStale(c)
    BY <1>2, <1>4, <1>5, EditIs
  <2>2. Moves(c) /\ KeepsLines(c) /\ ixAt'[c].pc # "start" /\ (Bouncing(ixAt[c]) => Bouncing(ixAt'[c]))
    BY <1>1, <1>2, <1>4, <2>1, Departs
  <2>3. /\ tree' \in [IxNodes -> {"absent", "half", "built"}] /\ tree'[n] = "absent"
        /\ \A k \in IxNodes : tree'[k] = "half" => tree[k] = "half"
        /\ fresh' \subseteq Of["dg"] /\ GroupsExist' /\ meant' \ dgUp' \subseteq meant \ dgUp
    BY <1>2, <1>3, <1>5, GoneIs
  <2>4. KeepsHalf(c)
    BY <1>3, <2>3 DEF KeepsHalf
  <2>5. KeepsRuns(c)
    BY <2>2, <2>3 DEF KeepsRuns
  <2> QED
    BY <2>1, <2>2, <2>3, <2>4, <2>5, TreeMoves
<1>6. CASE ixAt' = [ixAt EXCEPT ![c] = [went EXCEPT !.spoiled = TRUE]] /\ UNCHANGED treeVars
  <2>1. PICK went1 : went1 = [went EXCEPT !.spoiled = TRUE]
    OBVIOUS
  <2>2. /\ went1 \in IxCall /\ went1.pc = (IF ixAt[c].bounced THEN "restart" ELSE "error") /\ went1.bounced = ixAt[c].bounced
        /\ went1.spoiled
    BY <1>4, <2>1
  <2>3. ixAt' \in [IxCalls -> IxCall] /\ Others(c) /\ ixAt'[c] = went1
    BY <1>2, <1>6, <2>1, <2>2, AtIs
  <2>4. Moves(c) /\ KeepsLines(c) /\ ixAt'[c].pc # "start" /\ (Bouncing(ixAt[c]) => Bouncing(ixAt'[c]))
    BY <1>1, <1>2, <2>2, <2>3, Departs
  <2>5. KeepsTree(c)
    BY <1>2, <1>6, <2>2, <2>3, <2>4 DEF KeepsTree, Owns
  <2> QED
    BY <2>4, <2>5, StandsStill
<1> QED
  BY <1>3, <1>5, <1>6 DEF TakeBack

\* A node is deleted.
LEMMA RemoveStep ==
  ASSUME IxInv, NEW c \in IxCalls, RemoveNode(c)
  PROVE  IxInv'
<1>1. UNCHANGED <<ixOf, engine, lineVars>> /\ ixAt[c].pc = "remove"
  BY DEF RemoveNode
<1>2. /\ ixAt \in [IxCalls -> IxCall] /\ ixAt[c] \in IxCall /\ ixOf[c].node \in IxNodes
      /\ {"ok", "error"} \subseteq Over
  BY <1>1, Unbounced DEF IxFits, Over
<1>3. ASSUME NEW told \in {"ok", "error"}, NEW went, went = Leaving(c, told)
      PROVE  /\ went \in IxCall /\ went.pc = (IF ixAt[c].bounced THEN "restart" ELSE told)
             /\ went.bounced = ixAt[c].bounced /\ went.spoiled = ixAt[c].spoiled
  BY <1>2, <1>3, LeavingIs
<1>4. CASE Gone(ixOf[c].node) /\ EditAt(c, Leaving(c, "ok"))
  <2>1. PICK went : went = Leaving(c, "ok")
    OBVIOUS
  <2>2. /\ went \in IxCall /\ went.pc = (IF ixAt[c].bounced THEN "restart" ELSE "ok")
        /\ went.bounced = ixAt[c].bounced /\ went.spoiled = ixAt[c].spoiled
    BY <1>3, <2>1
  <2>3. ixAt' \in [IxCalls -> IxCall] /\ Others(c) /\ ixAt'[c] = went /\ OthersStale(c)
    BY <1>2, <1>4, <2>1, <2>2, EditIs
  <2>4. Moves(c) /\ KeepsLines(c) /\ ixAt'[c].pc # "start" /\ (Bouncing(ixAt[c]) => Bouncing(ixAt'[c]))
    BY <1>1, <1>2, <2>2, <2>3, Departs
  <2>5. PICK n \in IxNodes : n = ixOf[c].node /\ Gone(n)
    BY <1>2, <1>4
  <2>6. /\ tree' \in [IxNodes -> {"absent", "half", "built"}] /\ tree'[n] = "absent"
        /\ \A k \in IxNodes : tree'[k] = "half" => tree[k] = "half"
        /\ fresh' \subseteq Of["dg"] /\ GroupsExist' /\ meant' \ dgUp' \subseteq meant \ dgUp
    BY <2>5, GoneIs
  <2>7. KeepsHalf(c)
    BY <2>5, <2>6 DEF KeepsHalf
  <2>8. KeepsRuns(c)
    BY <2>4, <2>6 DEF KeepsRuns
  <2> QED
    BY <2>3, <2>4, <2>6, <2>7, <2>8, TreeMoves
<1>5. CASE ixAt' = [ixAt EXCEPT ![c] = Leaving(c, "error")] /\ UNCHANGED treeVars
  <2>1. PICK went : went = Leaving(c, "error")
    OBVIOUS
  <2>2. /\ went \in IxCall /\ went.pc = (IF ixAt[c].bounced THEN "restart" ELSE "error")
        /\ went.bounced = ixAt[c].bounced /\ went.spoiled = ixAt[c].spoiled
    BY <1>3, <2>1
  <2>3. ixAt' \in [IxCalls -> IxCall] /\ Others(c) /\ ixAt'[c] = went
    BY <1>2, <1>5, <2>1, <2>2, AtIs
  <2>4. Moves(c) /\ KeepsLines(c) /\ ixAt'[c].pc # "start" /\ (Bouncing(ixAt[c]) => Bouncing(ixAt'[c]))
    BY <1>1, <1>2, <2>2, <2>3, Departs
  <2>5. KeepsTree(c)
    BY <1>1, <1>5, <2>2, <2>3, <2>4 DEF KeepsTree, Owns
  <2> QED
    BY <2>4, <2>5, StandsStill
<1> QED
  BY <1>4, <1>5 DEF RemoveNode

\* A start.
LEMMA StartStep ==
  ASSUME IxInv, NEW c \in IxCalls, NEW kinds, StartGroups(c, kinds)
  PROVE  IxInv'
<1>1. UNCHANGED <<ixOf, tree, engine, lineVars>> /\ ixAt[c].pc = "start" /\ ixOf[c].op # "route" /\ ~ixAt[c].bounced
  BY Unbounced DEF StartGroups, IxFits, Over
<1>2. PICK to, up : /\ to \in Over /\ Goto(c, to) /\ up \subseteq DgsIn("session") /\ fresh' \subseteq fresh
                             /\ dgUp' = dgUp \cup up /\ meant' = meant \cup up
  <2>1. CASE /\ \E up \in SUBSET DgsIn(ixOf[c].node) : Starting(DgsIn(ixOf[c].node), up) /\ meant' = meant \cup up
             /\ Goto(c, ixAt[c].verdict)
    <3>1. PICK up \in SUBSET DgsIn(ixOf[c].node) : Starting(DgsIn(ixOf[c].node), up) /\ meant' = meant \cup up
      BY <2>1
    <3>2. up \subseteq DgsIn("session") /\ fresh' \subseteq fresh /\ dgUp' = dgUp \cup up
      BY <3>1, DgsAre DEF Starting
    <3>3. ixAt[c].verdict \in Over
      BY Unbounced DEF IxCall
    <3> QED
      BY <2>1, <3>1, <3>2, <3>3
  <2>2. CASE Goto(c, "error") /\ UNCHANGED <<dgUp, meant, fresh>>
    <3>1. "error" \in Over /\ {} \subseteq DgsIn("session") /\ dgUp' = dgUp \cup {} /\ meant' = meant \cup {}
      BY <2>2 DEF Over
    <3> QED
      BY <2>2, <3>1
  <2> QED
    BY <2>1, <2>2 DEF StartGroups
<1>3. to \in Over /\ to \in IxPcs
  BY <1>2 DEF IxPcs
<1>4. /\ ixAt' \in [IxCalls -> IxCall] /\ Others(c) /\ ixAt'[c].pc = to /\ ixAt'[c].bounced = ixAt[c].bounced
      /\ ixAt'[c].spoiled = ixAt[c].spoiled
  BY <1>2, <1>3, Unbounced, GotoIs
<1>5. Moves(c)
  BY <1>1, <1>3, <1>4 DEF Moves, IxFits, Over, Locked
<1>6. KeepsLines(c)
  BY <1>1, <1>3, <1>4 DEF KeepsLines, Wrote, Over
<1>7. KeepsHalf(c)
  BY <1>1, <1>4 DEF KeepsHalf, Owns
<1>8. KeepsRuns(c)
  BY <1>1, <1>2, <1>4 DEF KeepsRuns, Bouncing
<1>9. DgsIn("session")' = DgsIn("session")
  BY <1>1 DEF DgsIn, Present
<1>10. GroupsExist'
  BY <1>2, <1>9 DEF IxInv, GroupsExist
<1>11. ixAt'[c].pc # "start"
  BY <1>3, <1>4 DEF Over
<1> QED
  BY <1>1, <1>2, <1>5, <1>6, <1>7, <1>8, <1>10, <1>11, TreeMoves DEF IxInv, IxTyped

\* A stop.
LEMMA StopStep ==
  ASSUME IxInv, NEW c \in IxCalls, NEW kinds, StopGroups(c, kinds)
  PROVE  IxInv'
<1>1. /\ UNCHANGED <<ixOf, tree, fresh, engine, lineVars>> /\ ixAt[c].pc = "new" /\ ixOf[c].op = "stop"
      /\ ~ixAt[c].bounced
  BY Unbounced DEF StopGroups, Over
<1>2. CASE Goto(c, "error") /\ UNCHANGED <<dgUp, meant>>
  BY <1>1, <1>2, IxGoesOn DEF Wrote, Over, Locked, treeVars
<1>3. ASSUME NEW dgs, dgUp' = dgUp \ dgs, meant' = meant \ dgs, Goto(c, "ok") PROVE IxInv'
  <2>1. "ok" \in IxPcs
    BY DEF IxPcs, Over
  <2>2. /\ ixAt' \in [IxCalls -> IxCall] /\ Others(c) /\ ixAt'[c].pc = "ok" /\ ixAt'[c].bounced = ixAt[c].bounced
        /\ ixAt'[c].spoiled = ixAt[c].spoiled
    BY <1>3, <2>1, Unbounced, GotoIs
  <2>3. Moves(c)
    BY <1>1, <2>2 DEF Moves, IxFits, Over, Locked
  <2>4. KeepsLines(c)
    BY <1>1, <2>2 DEF KeepsLines, Wrote, Over
  <2>5. KeepsHalf(c)
    BY <1>1, <2>2 DEF KeepsHalf, Owns
  <2>6. KeepsRuns(c)
    BY <1>1, <1>3, <2>2 DEF KeepsRuns, Bouncing
  <2>7. DgsIn("session")' = DgsIn("session")
    BY <1>1 DEF DgsIn, Present
  <2>8. GroupsExist'
    BY <1>3, <2>7 DEF IxInv, GroupsExist
  <2> QED
    BY <1>1, <2>2, <2>3, <2>4, <2>5, <2>6, <2>8, TreeMoves DEF IxInv, IxTyped
<1> QED
  BY <1>2, <1>3 DEF StopGroups

\* Another configuration: nothing runs, and no line is anybody's.
LEMMA ReplacedStep ==
  ASSUME IxInv, NEW c \in IxCalls, NEW nodes, NEW ports, NEW next, Replaced(nodes, ports, c, next),
         next \in {"ok", "vports"}, ixOf[c].op # "route"
  PROVE  IxInv'
<1>1. UNCHANGED ixOf /\ ixAt[c].pc = "new" /\ LockFree(c) /\ ~ixAt[c].bounced
  BY Unbounced DEF Replaced, Over
<1>2. CASE Goto(c, "error") /\ UNCHANGED <<treeVars, port, lineVars, engine>>
  BY <1>1, <1>2, IxGoesOn DEF Wrote, Over, Locked
<1>3. ASSUME tree' = [n \in IxNodes |-> IF n \in nodes THEN "built" ELSE "absent"],
             dgUp' = {}, meant' = {}, fresh' = {},
             mask' = [l \in IxLines |-> TRUE], wire' = mask', listed' = FALSE,
             author' = [l \in IxLines |-> NoAuthor],
             engine' = [busy |-> FALSE, mask |-> NoMask, fresh |-> {}],
             EditAt(c, [ixAt[c] EXCEPT !.pc = next])
      PROVE  IxInv'
  <2>1. PICK went : went = [ixAt[c] EXCEPT !.pc = next]
    OBVIOUS
  <2>2. {"ok", "vports"} \subseteq IxPcs
    BY DEF IxPcs, Over
  <2>3. went \in IxCall /\ went.pc = next /\ went.bounced = ixAt[c].bounced /\ went.spoiled = ixAt[c].spoiled
    BY <2>1, <2>2, Unbounced DEF IxCall
  <2>4. ixAt' \in [IxCalls -> IxCall] /\ Others(c) /\ ixAt'[c] = went /\ OthersStale(c)
    BY <1>3, <2>1, <2>3, Unbounced, EditIs
  <2>5. Moves(c)
    BY <1>1, <2>3, <2>4 DEF Moves, IxFits, Over, Locked
  <2>6. IxTyped'
    BY <1>3, <2>5, CallsKeep DEF IxTyped, Moves, NoMask
  <2>7. GroupsExist' /\ StartsApplied' /\ HalfBuiltIsOwned' /\ RunningComesBack'
    BY <1>3 DEF GroupsExist, StartsApplied, Behind, HalfBuiltIsOwned, RunningComesBack
  <2>8. ASSUME NEW k \in IxCalls, ixAt'[k].pc = "write" PROVE SeenOK(k)'
    <3>1. k # c
      BY <2>3, <2>4, <2>8
    <3> QED
      BY <1>3, <2>4, <3>1 DEF OthersStale, SeenOK
  <2>9. LinesOK'
    BY <1>3, <2>8 DEF LinesOK
  <2> QED
    BY <2>5, <2>6, <2>7, <2>9, CallsKeep DEF IxInv
<1> QED
  BY <1>2, <1>3 DEF Replaced

\* Ctrl-C.
LEMMA InterruptStep ==
  ASSUME IxInv, NEW c \in IxCalls, Interrupt(c)
  PROVE  IxInv'
<1>1. UNCHANGED <<ixOf, tree, fresh, engine, lineVars>> /\ ixAt[c].pc \notin Over \cup {"new", "restart"}
  BY DEF Interrupt
<1>2. /\ ixAt \in [IxCalls -> IxCall] /\ ixAt[c] \in IxCall /\ IxFits(ixOf[c], ixAt[c]) /\ "interrupted" \in Over
  BY Unbounced DEF Over
<1>3. PICK went, went1 : went = Leaving(c, "interrupted") /\ went1 = [went EXCEPT !.spoiled = TRUE]
  OBVIOUS
<1>4. /\ went \in IxCall /\ went.pc = (IF ixAt[c].bounced THEN "restart" ELSE "interrupted") /\ went.bounced = ixAt[c].bounced
  BY <1>2, <1>3, LeavingIs
<1>5. went1 \in IxCall /\ went1.pc = went.pc /\ went1.spoiled /\ went1.bounced = went.bounced
  BY <1>3, <1>4, SpoiledIs
<1>6. ixAt' \in [IxCalls -> IxCall] /\ Others(c) /\ ixAt'[c] = went1
  BY <1>2, <1>3, <1>5, AtIs DEF Interrupt
<1>7. Moves(c)
  BY <1>1, <1>2, <1>4, <1>5, <1>6 DEF Moves, IxFits, Over, Locked
<1>8. KeepsLines(c)
  <2>1. ixAt[c].pc \in Wrote => ~ixAt[c].bounced
    BY <1>1, <1>2 DEF IxFits, Wrote, Over
  <2> QED
    BY <1>1, <1>4, <1>5, <1>6, <2>1 DEF KeepsLines, Wrote, Over
<1>9. KeepsHalf(c)
  BY <1>1, <1>5, <1>6 DEF KeepsHalf, Owns
<1>10. PICK dgs : dgUp' = dgUp \ dgs /\ meant' = meant \ dgs
  <2>1. dgUp = dgUp \ {} /\ meant = meant \ {}
    OBVIOUS
  <2> QED
    BY <2>1 DEF Interrupt
<1>11. KeepsRuns(c)
  BY <1>4, <1>5, <1>6, <1>10 DEF KeepsRuns, Bouncing, Over
<1>12. DgsIn("session")' = DgsIn("session")
  BY <1>1 DEF DgsIn, Present
<1>13. GroupsExist'
  BY <1>10, <1>12 DEF IxInv, GroupsExist
<1>14. ixAt'[c].pc # "start"
  BY <1>4, <1>5, <1>6
<1> QED
  BY <1>1, <1>7, <1>8, <1>9, <1>11, <1>13, <1>14, TreeMoves DEF IxInv, IxTyped

\* A kill: what the call had stopped nobody is to start any more.
LEMMA KillStep ==
  ASSUME IxInv, NEW c \in IxCalls, KillIx(c)
  PROVE  IxInv'
<1>1. /\ UNCHANGED <<ixOf, tree, dgUp, fresh, engine, lineVars>> /\ ixAt[c].pc \notin Over \cup {"new"}
      /\ meant' = meant \ (IF ixAt[c].bounced THEN DgsIn(Topo[ixOf[c].node]) \ dgUp ELSE {})
  BY DEF KillIx
<1>2. /\ ixAt \in [IxCalls -> IxCall] /\ ixAt[c] \in IxCall /\ IxFits(ixOf[c], ixAt[c]) /\ "killed" \in IxPcs
  BY Unbounced DEF Over, IxPcs
<1>3. PICK went : went = [ixAt[c] EXCEPT !.pc = "killed", !.spoiled = TRUE]
  OBVIOUS
<1>4. went \in IxCall /\ went.pc = "killed" /\ went.spoiled /\ went.bounced = ixAt[c].bounced
  BY <1>2, <1>3 DEF IxCall
<1>5. ixAt' \in [IxCalls -> IxCall] /\ Others(c) /\ ixAt'[c] = went
  <2>1. ixAt' = [ixAt EXCEPT ![c] = went]
    BY <1>3 DEF KillIx
  <2> QED
    BY <1>2, <1>4, <2>1, AtIs
<1>6. Moves(c)
  BY <1>1, <1>2, <1>4, <1>5 DEF Moves, IxFits, Over, Locked
<1>7. KeepsLines(c)
  BY <1>1, <1>4, <1>5 DEF KeepsLines, Wrote, Over
<1>8. KeepsHalf(c)
  BY <1>1, <1>4, <1>5 DEF KeepsHalf, Owns
<1>9. KeepsRuns(c)
  <2> SUFFICES ASSUME NEW d \in meant' \ dgUp'
               PROVE  d \in meant \ dgUp /\ (Bouncing(ixAt[c]) => d \notin Below[Topo[ixOf[c].node]])
    BY DEF KeepsRuns
  <2>1. d \in meant \ dgUp /\ d \in DgsIn("session")
    BY <1>1 DEF IxInv, GroupsExist
  <2>2. ASSUME ixAt[c].bounced PROVE d \notin Below[Topo[ixOf[c].node]]
    <3>1. DgsIn(Topo[ixOf[c].node]) = {k \in DgsIn("session") : k \in Below[Topo[ixOf[c].node]]}
      BY <1>2, <2>2, TopoIs DEF IxFits
    <3> QED
      BY <1>1, <2>1, <2>2, <3>1
  <2> QED
    BY <2>1, <2>2 DEF Bouncing
<1>10. DgsIn("session")' = DgsIn("session")
  BY <1>1 DEF DgsIn, Present
<1>11. GroupsExist'
  BY <1>1, <1>10 DEF IxInv, GroupsExist
<1>12. ixAt'[c].pc # "start"
  BY <1>4, <1>5
<1> QED
  BY <1>1, <1>6, <1>7, <1>8, <1>9, <1>11, <1>12, TreeMoves DEF IxInv, IxTyped

\* The invariant holds at the start.
LEMMA IxStarts == IxInit => IxInv
<1> SUFFICES ASSUME IxInit PROVE IxInv
  OBVIOUS
<1>1. "new" \in IxPcs /\ "ok" \in Over /\ NoMask \in [IxLines -> BOOLEAN]
  BY DEF IxPcs, Over, NoMask
<1>2. ixAt \in [IxCalls -> IxCall]
  BY <1>1 DEF IxInit, IxCall
<1>3. \A c \in IxCalls : ixAt[c].pc = "new" /\ ~ixAt[c].bounced
  BY DEF IxInit
<1>4. \A c \in IxCalls : ixOf[c].on \in BOOLEAN
  BY IxiaAssumption DEF IxInit
<1>5. IxTyped
  BY <1>1, <1>2, <1>4 DEF IxInit, IxTyped
<1>6. CallsFit /\ OneLocked
  BY <1>3 DEF CallsFit, IxFits, OneLocked, Over, Locked
<1>7. GroupsExist /\ StartsApplied /\ RunningComesBack
  BY <1>3 DEF IxInit, GroupsExist, StartsApplied, Behind, RunningComesBack
<1>8. HalfBuiltIsOwned
  BY DEF IxInit, HalfBuiltIsOwned
<1>9. LinesOK
  BY <1>3 DEF IxInit, LinesOK
<1> QED
  BY <1>5, <1>6, <1>7, <1>8, <1>9 DEF IxInv

\* Every step keeps it.
LEMMA IxSteps == IxInv /\ [IxNext]_ixVars => IxInv'
<1> SUFFICES ASSUME IxInv, [IxNext]_ixVars PROVE IxInv'
  OBVIOUS
<1>1. ASSUME NEW c \in IxCalls, IxStep(c) PROVE IxInv'
  <2>1. CASE StartAll(c) \/ StartTopology(c) \/ StartDg(c)
    BY <2>1, StartStep DEF StartAll, StartTopology, StartDg
  <2>2. CASE TakePort(c) \/ VportsWaited(c)
    BY <2>2, PortStep
  <2> QED
    BY <1>1, <2>1, <2>2, StopFirstStep, CreateStep, PatchStep, TakeBackStep, RemoveStep, RestartStep, ApplyFirstStep,
       PushFirstStep, ApplyWaitedStep, WriteLinesStep, PushLinesStep, LinesPushedStep, Zenon DEF IxStep
<1>2. ASSUME NEW c \in IxCalls, NewConfig(c) \/ LoadConfig(c) PROVE IxInv'
  BY <1>2, ReplacedStep DEF NewConfig, LoadConfig
<1>3. ASSUME NEW c \in IxCalls, StopAll(c) \/ StopTopology(c) \/ StopDg(c) PROVE IxInv'
  BY <1>3, StopStep DEF StopAll, StopTopology, StopDg
<1>4. ASSUME NEW c \in IxCalls,
             AssignPort(c) \/ ConnectPort(c) \/ ReleasePort(c) \/ Preflight(c) \/ WaitVports(c)
      PROVE  IxInv'
  BY <1>4, PortStep
<1>5. ASSUME NEW c \in IxCalls,
             \/ Create(c) \/ Deletion(c) \/ ReadLines(c) \/ ApplyPending(c) \/ ApplyChanges(c)
             \/ Interrupt(c) \/ KillIx(c)
      PROVE  IxInv'
  BY <1>5, CreateStep, DeletionStep, ReadLinesStep, AskStep, InterruptStep, KillStep, Zenon
<1>6. CASE UNCHANGED ixVars
  BY <1>6 DEF ixVars, treeVars, lineVars, IxInv, IxTyped, CallsFit, OneLocked, GroupsExist, StartsApplied, Behind, HalfBuiltIsOwned,
     RunningComesBack, LinesOK, LineOK, SeenOK, DgsIn, Present
<1> QED
  BY <1>1, <1>2, <1>3, <1>4, <1>5, <1>6, BootStep, EngineDoneStep, Zenon DEF IxNext

\* The inductive invariant of an IxNetwork session holds throughout.
THEOREM IxInvariance == IxSpec => []IxInv
<1>1. IxInit => IxInv
  BY IxStarts
<1>2. IxInv /\ [IxNext]_ixVars => IxInv'
  BY IxSteps
<1> QED
  BY <1>1, <1>2, PTL DEF IxSpec

\* SessionHolds, in every behaviour of the Ixia tools: an edit takes back what
\* it has posted and starts what it has stopped, whatever else is edited
\* meanwhile, and a route line is as the last action upon it said.
THEOREM SessionSound == IxSpec => []SessionHolds
<1>1. IxSpec => []IxInv
  BY IxInvariance
<1>2. IxInv => SessionHolds
  <2> SUFFICES ASSUME IxInv PROVE RoutesHold
    BY DEF SessionHolds, EditsCleanUp, IxInv
  <2>1. \A l \in IxLines : author[l] # NoAuthor => LineOK(l)
    BY DEF IxInv, LinesOK
  <2>2. \A l \in IxLines : author[l] # NoAuthor => mask[l] = ixOf[author[l]].on
    BY <2>1 DEF LineOK
  <2>3. ASSUME NEW c \in IxCalls, NEW l \in IxLines, ixAt[c].pc = "ok", ixOf[c].op = "route", author[l] = c
        PROVE  wire[l] = mask[l]
    <3>1. LineOK(l)
      BY <2>1, <2>3, IxiaAssumption DEF NoAuthor
    <3> QED
      BY <2>3, <3>1 DEF LineOK
  <2> QED
    BY <2>2, <2>3 DEF RoutesHold
<1> QED
  BY <1>1, <1>2, PTL

\* A step of a call is of no other.
LEMMA OthersStand ==
  ASSUME ixAt \in [IxCalls -> IxCall], NEW k \in IxCalls, NEW c \in IxCalls \ {k},
         \/ \E to : Goto(k, to)
         \/ \E went : ixAt' = [ixAt EXCEPT ![k] = went] \/ EditAt(k, went)
  PROVE  ixAt'[c].pc = ixAt[c].pc
BY DEF Goto, EditAt, IxCall

\* Only a start goes from "start" to its ok.
LEMMA StartEnds ==
  ASSUME IxInv, [IxNext]_ixVars, NEW c \in IxCalls, ixAt[c].pc = "start", ixAt'[c].pc = "ok"
  PROVE  \E kinds : StartGroups(c, kinds)
<1>1. ixAt \in [IxCalls -> IxCall]
  BY Unbounced
<1>2. ASSUME NEW k \in IxCalls, Create(k) \/ PostGroup(k) PROVE FALSE
  <2>1. PICK state, next, failed : Post(k, state, next, failed) \/ Bounce(k, next)
    BY <1>2 DEF Create, CreateTopology, CreateDeviceGroup, CreateEthernet, CreateIpv4, CreateBgpPeer, CreateBgpVrf,
       CreateBfd, CreateTrafficItem, CreateNetworkGroup, PostGroup
  <2>2. k # c
    BY <1>2 DEF Create, CreateTopology, CreateDeviceGroup, CreateEthernet, CreateIpv4, CreateBgpPeer, CreateBgpVrf,
       CreateBfd, CreateTrafficItem, CreateNetworkGroup, PostGroup, Enter
  <2> QED
    BY <1>1, <2>1, <2>2, OthersStand DEF Post, Bounce
<1>3. ASSUME NEW k \in IxCalls, Deletion(k) PROVE FALSE
  <2>1. k # c /\ \E to : Goto(k, to)
    BY <1>3 DEF Deletion, DeleteTopology, DeleteDeviceGroup, DeleteNetworkGroup, DeleteEthernet, DeleteIpv4,
       DeleteBgpPeer, DeleteBgpVrf, DeleteBfd, DeleteTrafficItem, Delete, Bounce, Enter
  <2> QED
    BY <1>1, <2>1, OthersStand
<1>4. ASSUME NEW k \in IxCalls, StopFirst(k) \/ Patch(k) \/ TakeBack(k) \/ RemoveNode(k) \/ Restart(k) PROVE FALSE
  <2>1. k # c
    BY <1>4 DEF StopFirst, Patch, TakeBack, RemoveNode, Restart
  <2>2. CASE StopFirst(k)
    BY <1>1, <2>1, <2>2 DEF StopFirst, Goto, IxCall
  <2>3. CASE Patch(k)
    BY <1>1, <2>1, <2>3, OthersStand DEF Patch, PatchFails, IxCall
  <2>4. CASE TakeBack(k) \/ RemoveNode(k) \/ Restart(k)
    BY <1>1, <2>1, <2>4, OthersStand DEF TakeBack, RemoveNode, Restart
  <2> QED
    BY <1>4, <2>2, <2>3, <2>4
<1>5. ASSUME NEW k \in IxCalls,
             \/ TakePort(k) \/ VportsWaited(k) \/ AssignPort(k) \/ ConnectPort(k) \/ ReleasePort(k)
             \/ Preflight(k) \/ WaitVports(k) \/ ApplyPending(k) \/ ApplyChanges(k) \/ LinesPushed(k)
      PROVE FALSE
  <2>1. k # c /\ \E to : Goto(k, to)
    BY <1>5 DEF TakePort, VportsWaited, AssignPort, ConnectPort, ReleasePort, Preflight, WaitVports, ApplyPending,
       ApplyChanges, LinesPushed
  <2> QED
    BY <1>1, <2>1, OthersStand
<1>6. ASSUME NEW k \in IxCalls, ApplyFirst(k) \/ PushFirst(k) \/ ApplyWaited(k) \/ ReadLines(k) \/ PushLines(k) PROVE FALSE
  <2>1. k # c
    BY <1>6 DEF ApplyFirst, PushFirst, ApplyWaited, ReadLines, PushLines, Enter
  <2> QED
    BY <1>1, <1>6, <2>1 DEF ApplyFirst, PushFirst, ApplyWaited, ReadLines, PushLines, Goto, IxCall
<1>7. ASSUME NEW k \in IxCalls, WriteLines(k) \/ NewConfig(k) \/ LoadConfig(k) PROVE FALSE
  <2>1. k # c
    BY <1>7 DEF WriteLines, NewConfig, LoadConfig, Replaced
  <2> QED
    BY <1>1, <1>7, <2>1, OthersStand DEF WriteLines, NewConfig, LoadConfig, Replaced
<1>8. ASSUME NEW k \in IxCalls, StopAll(k) \/ StopTopology(k) \/ StopDg(k) PROVE FALSE
  <2>1. k # c /\ \E to : Goto(k, to)
    BY <1>8 DEF StopAll, StopTopology, StopDg, StopGroups
  <2> QED
    BY <1>1, <2>1, OthersStand
<1>9. ASSUME NEW k \in IxCalls, StartAll(k) \/ StartTopology(k) \/ StartDg(k)
      PROVE  \E kinds : StartGroups(c, kinds)
  <2>1. PICK kinds : StartGroups(k, kinds)
    BY <1>9 DEF StartAll, StartTopology, StartDg
  <2>2. \E to : Goto(k, to)
    BY <2>1 DEF StartGroups
  <2>3. k = c
    BY <1>1, <2>2, OthersStand
  <2> QED
    BY <2>1, <2>3
<1>10. ASSUME NEW k \in IxCalls, Interrupt(k) \/ KillIx(k) PROVE FALSE
  <2>1. CASE k # c /\ Interrupt(k)
    BY <1>1, <2>1, OthersStand DEF Interrupt
  <2>2. CASE k # c /\ KillIx(k)
    BY <1>1, <2>2 DEF KillIx, IxCall
  <2>3. CASE k = c /\ KillIx(c)
    BY <1>1, <2>3 DEF KillIx, IxCall
  <2>4. CASE k = c /\ Interrupt(c)
    <3>1. PICK went : went = Leaving(c, "interrupted")
      OBVIOUS
    <3>2. ~ixAt[c].bounced /\ "interrupted" \in Over
      BY Unbounced DEF Over
    <3>3. went \in IxCall /\ went.pc = "interrupted"
      BY <1>1, <3>1, <3>2, LeavingIs
    <3>4. ixAt'[c] = [went EXCEPT !.spoiled = TRUE]
      BY <1>1, <2>4, <3>1 DEF Interrupt
    <3> QED
      BY <3>3, <3>4, SpoiledIs
  <2> QED
    BY <1>10, <2>1, <2>2, <2>3, <2>4
<1>11. BootPort \/ EngineDone \/ UNCHANGED ixVars => FALSE
  BY DEF BootPort, EngineDone, ixVars
<1> QED
  BY <1>2, <1>3, <1>4, <1>5, <1>6, <1>7, <1>8, <1>9, <1>10, <1>11, Zenon DEF IxNext, IxStep

\* StartBringsUp: only a start ends in a start's ok, and one whose own apply was
\* neither refused nor late (run.py:78-97 only adds a warning for these), and
\* that nothing has overtaken since it looked, has nothing left to apply, so
\* that all of its device groups come up.
THEOREM StartsDeliver == IxSpec => StartBringsUp
<1> DEFINE Brings == \A c \in IxCalls :
       ixAt[c].pc = "start" /\ ixAt'[c].pc = "ok" /\ port = "up" /\ ~(ixAt[c].stale \/ ixAt[c].warned)
         => DgsIn(ixOf[c].node) \subseteq dgUp'
<1>1. IxInv /\ [IxNext]_ixVars => [Brings]_ixVars
  <2> SUFFICES ASSUME IxInv, [IxNext]_ixVars, NEW c \in IxCalls,
                      ixAt[c].pc = "start", ixAt'[c].pc = "ok", port = "up",
                      ~(ixAt[c].stale \/ ixAt[c].warned)
               PROVE  DgsIn(ixOf[c].node) \subseteq dgUp'
    OBVIOUS
  <2>1. PICK kinds : StartGroups(c, kinds)
    BY StartEnds
  <2>2. fresh = {}
    BY DEF IxInv, StartsApplied, Behind
  <2>3. ~Goto(c, "error")
    BY Unbounced, GotoIs DEF IxPcs, Over
  <2>4. PICK up \in SUBSET DgsIn(ixOf[c].node) : Starting(DgsIn(ixOf[c].node), up)
    BY <2>1, <2>3 DEF StartGroups
  <2> QED
    BY <2>2, <2>4 DEF Starting
<1> QED
  BY <1>1, IxInvariance, PTL DEF IxSpec, StartBringsUp

\* The types of the variables.
THEOREM IxTypeCorrect == IxSpec => []IxTypeOK
<1>1. IxInv => IxTypeOK
  <2> SUFFICES ASSUME IxInv PROVE IxTypeOK
    OBVIOUS
  <2>1. meant \subseteq Of["dg"] /\ dgUp \subseteq Of["dg"]
    BY DgsAre DEF IxInv, GroupsExist
  <2>2. \A c \in IxCalls : ixAt[c].pc \in IxPcs
    BY DEF IxInv, IxTyped, IxCall
  <2> QED
    BY <2>1, <2>2 DEF IxTypeOK, IxPcs, IxInv, IxTyped
<1> QED
  BY <1>1, IxInvariance, PTL
=============================================================================

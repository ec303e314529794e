---------------------------- MODULE ArchivesProofs ----------------------------
(***************************************************************************)
(* Proofs about Archives, for any calls, processes, devices, buckets and    *)
(* settings: a backup answered ok is what it says, a restore takes what is  *)
(* its own, a list shows what can be taken; no step but that of two calls   *)
(* of a second spoils a good archive, and a torn file that is taken is of   *)
(* no backup that was answered ok.                                          *)
(*                                                                         *)
(* The inductive invariant (ArInv) ties the files to the calls: every file  *)
(* that was not there at first lies where the name of the call that made    *)
(* its inode leads (DiskOK, RootOK), no two paths share an inode, and what  *)
(* is written in the inode of a call that is alone with its name is of its  *)
(* box and no older than the call (WireOK, CopyOK, FlashOK).                *)
(***************************************************************************)
EXTENDS Archives, TLAPS

Calls == DOMAIN arSetting.orders
Boxes == DOMAIN revision

\* A record of a call, and of a path, has these fields.
Rec(pc, at, since, box, inode, wire, got, verdict, shown) ==
  [pc |-> pc, at |-> at, since |-> since, box |-> box, inode |-> inode, wire |-> wire, got |-> got,
   verdict |-> verdict, shown |-> shown]
IsCall(r) == r = Rec(r.pc, r.at, r.since, r.box, r.inode, r.wire, r.got, r.verdict, r.shown)
IsPath(p) == p = [store |-> p.store, dir |-> p.dir, bucket |-> p.bucket, dev |-> p.dev, at |-> p.at, tmp |-> p.tmp]
IsData(x) == x = [of |-> x.of, rev |-> x.rev, size |-> x.size] /\ x.size \in {"short", "part", "whole"}

\* What a store keeps where.
Placed(p) ==
  /\ IsPath(p) /\ p.dev \in DOMAIN arSetting.boxes /\ p.tmp \in BOOLEAN
  /\ p.store \in {"cli", "nc"}
  /\ p.store = "cli" => ~p.tmp
  /\ p.store = "nc" => p.dir = "day"

\* x is a configuration of the box of c, of the call or later
Current(r, x) == x.of = r.box /\ x.rev \in Nat /\ x.rev >= r.since[r.box]

\* Where a call stands, and what it knows there.
BackupOK(c, r) ==
  /\ r.pc \in {"idle", "stat", "sending", "over"} \cup
        IF Order(c).tool = "backup" THEN {"lock", "save", "upload", "again"} ELSE {"pull", "open", "rename"}
  /\ r.pc # "idle" => r.at \in 1..arNow /\ r.since \in [Boxes -> Nat]
  /\ r.pc # "idle" => \A b \in Boxes : r.since[b] <= revision[b]
  /\ r.pc \in {"lock", "save", "pull", "upload", "open"} => r.inode = "none"
  /\ r.pc \in {"sending", "stat", "rename"} => r.inode # "none"
  /\ r.pc \in {"stat", "rename"} => r.wire \in {"done", "mute"}
  /\ r.inode # "none" <=> r.wire # "none"
  /\ r.pc \in {"upload", "open"} \/ r.inode # "none" =>
       r.box \in Boxes /\ (arSetting.rebinds = 0 => r.box = arSetting.boxes[Order(c).dev])
  /\ Order(c).tool = "netconf_backup" =>
       /\ r.wire # "mute"
       /\ r.pc = "sending" => r.wire = "on"
       /\ r.wire = "on" => r.pc \in {"sending", "over"}
       /\ r.pc \in {"open", "sending"} => IsData(r.got) /\ r.got.size = "whole" /\ Current(r, r.got)
  /\ r.verdict = "ok" =>
       /\ r.pc = "over" /\ r.wire \in {"done", "mute"} /\ r.got.size # "short"
       /\ ~Shared(c) => /\ r.got.of = r.box /\ r.got.rev >= r.since[r.got.of]
                        /\ r.wire # "mute" => r.got.size = "whole"

TakerOK(c, r) ==
  /\ r.pc \in {"idle", "take", "over"} /\ r.inode = "none" /\ r.wire = "none"
  /\ r.pc = "take" => \E p \in r.shown : r.shown = {p} /\ Placed(p) /\ Pinned(c, p) /\ p.store = StoreOf(Order(c).tool)
  /\ r.verdict = "ok" => /\ r.pc = "over"
                         /\ arSetting.rebinds = 0 => r.got.of \in {r.box, "none"}
                         /\ StoreOf(Order(c).tool) = "nc" => r.got.size = "whole"

ListerOK(c, r) ==
  /\ r.pc \in {"idle", "over"} /\ r.inode = "none" /\ r.wire = "none"
  /\ \A p \in r.shown : Found(c, p) /\ Pinned(c, p)

CallOK(c, r) ==
  /\ IsCall(r)
  /\ r.pc = "idle" => r = NoArCall
  /\ r.wire \in {"none", "on", "done", "break", "mute"}
  /\ r.verdict \in {"none", "ok", "error", "timeout", "connect_error", "killed"}
  /\ Order(c).tool \in Backups => BackupOK(c, r)
  /\ Order(c).tool \in Takers => TakerOK(c, r)
  /\ Order(c).tool \in Listers => ListerOK(c, r)

\* The file p was made by call e.
Mine(e, p) ==
  /\ e \in Calls /\ arCall[e].inode = e
  /\ p.store = Path(e).store /\ p.bucket = Path(e).bucket /\ p.dev = Path(e).dev /\ p.at = Path(e).at

DiskOK ==
  /\ \A p \in DOMAIN disk : Placed(p) /\ disk[p] \in DOMAIN data
  /\ \A p, q \in DOMAIN disk : disk[p] = disk[q] => p = q
  /\ \A p \in DOMAIN disk : IF disk[p] \in ArCallers THEN Mine(disk[p], p) ELSE p.at = 0

\* The file a call writes was made by itself or another of that name.
RootOK(c) ==
  arCall[c].inode # "none" =>
    LET e == arCall[c].inode IN
    e \in Calls /\ arCall[e].inode = e /\ Order(e).tool = Order(c).tool /\ Path(e) = Path(c)

DataOK ==
  /\ ArCallers \subseteq DOMAIN data
  /\ \A i \in DOMAIN data : IsData(data[i]) /\ (i \notin ArCallers => data[i].size = "whole")
  /\ arSetting.rebinds = 0 => \A p \in DOMAIN disk : data[disk[p]].of \in {arSetting.boxes[p.dev], "none"}

\* Who may have saved on the flash of a box under a name.
Saved(d) == Order(d).tool = "backup" /\ arCall[d].pc \notin {"idle", "lock", "save"}
FlashOK ==
  /\ \A k \in DOMAIN flash :
       flash[k] \in Nat /\ \E d \in Calls : Saved(d) /\ k = <<k[1], Order(d).dev, arCall[d].at>>
  /\ \A c \in Calls : Saved(c) /\ ~Shared(c) /\ OnFlash(c) \in DOMAIN flash =>
       flash[OnFlash(c)] >= arCall[c].since[arCall[c].box]

\* What a call that is alone with its name has written.
WireOK(c) ==
  arCall[c].inode # "none" /\ ~Shared(c) /\ arCall[c].wire # "on" =>
    LET x == data[arCall[c].inode] IN
    /\ Current(arCall[c], x)
    /\ arCall[c].wire = "done" => x.size = "whole"

\* A device sends what it has.
SendOK(c) ==
  Order(c).tool = "backup" /\ arCall[c].wire = "on" => OnFlash(c) \in DOMAIN flash

CopyOK(c) ==
  Order(c).tool = "netconf_backup" /\ arCall[c].pc \in {"sending", "rename"} /\ ~Twin(c) =>
    /\ Path(c) \in DOMAIN disk => disk[Path(c)] # arCall[c].inode
    /\ Tmp(Path(c)) \in DOMAIN disk => /\ disk[Tmp(Path(c))] = arCall[c].inode
    /\ arCall[c].pc = "rename" => data[arCall[c].inode].size = "whole"

WorldOK ==
  /\ arSetting \in ArSettings /\ arNow \in Nat \ {0}
  /\ DOMAIN revision = Range(arSetting.boxes) /\ revision \in [Boxes -> Nat]
  /\ DOMAIN arBox = DOMAIN arSetting.boxes /\ Range(arBox) \subseteq Boxes
  /\ DOMAIN arCall = Calls
  /\ "rebinds" \in DOMAIN budget /\ budget.rebinds \in 0..arSetting.rebinds
  /\ arSetting.rebinds = 0 => arBox = arSetting.boxes

ArInv ==
  /\ WorldOK /\ DiskOK /\ DataOK /\ FlashOK
  /\ \A c \in Calls : CallOK(c, arCall[c]) /\ RootOK(c) /\ WireOK(c) /\ CopyOK(c) /\ SendOK(c)


(***************************************************************************)
(* The record of a call, field by field                                     *)
(***************************************************************************)
\* A call ends.
LEMMA SetPcVerdict ==
  ASSUME NEW o, IsCall(o), NEW pc, NEW v
  PROVE  [o EXCEPT !.pc = pc, !.verdict = v]
           = Rec(pc, o.at, o.since, o.box, o.inode, o.wire, o.got, v, o.shown)
<1>1. PICK q1 : q1 = [o EXCEPT !.pc = pc]
  OBVIOUS
<1>2. q1 = Rec(pc, o.at, o.since, o.box, o.inode, o.wire, o.got, o.verdict, o.shown)
  BY <1>1 DEF IsCall, Rec
<1>3. PICK q2 : q2 = [q1 EXCEPT !.verdict = v]
  OBVIOUS
<1>4. q2 = Rec(pc, o.at, o.since, o.box, o.inode, o.wire, o.got, v, o.shown)
  BY <1>3, <1>2 DEF IsCall, Rec
<1> QED
  BY <1>1, <1>2, <1>3, <1>4

\* A call begins.
LEMMA SetPcAtSince ==
  ASSUME NEW o, IsCall(o), NEW pc, NEW n, NEW s
  PROVE  [o EXCEPT !.pc = pc, !.at = n, !.since = s]
           = Rec(pc, n, s, o.box, o.inode, o.wire, o.got, o.verdict, o.shown)
<1>1. PICK q1 : q1 = [o EXCEPT !.pc = pc]
  OBVIOUS
<1>2. q1 = Rec(pc, o.at, o.since, o.box, o.inode, o.wire, o.got, o.verdict, o.shown)
  BY <1>1 DEF IsCall, Rec
<1>3. PICK q2 : q2 = [q1 EXCEPT !.at = n]
  OBVIOUS
<1>4. q2 = Rec(pc, n, o.since, o.box, o.inode, o.wire, o.got, o.verdict, o.shown)
  BY <1>3, <1>2 DEF IsCall, Rec
<1>5. PICK q3 : q3 = [q2 EXCEPT !.since = s]
  OBVIOUS
<1>6. q3 = Rec(pc, n, s, o.box, o.inode, o.wire, o.got, o.verdict, o.shown)
  BY <1>5, <1>4 DEF IsCall, Rec
<1> QED
  BY <1>1, <1>2, <1>3, <1>4, <1>5, <1>6

\* A call meets its device.
LEMMA SetPcBox ==
  ASSUME NEW o, IsCall(o), NEW pc, NEW b
  PROVE  [o EXCEPT !.pc = pc, !.box = b]
           = Rec(pc, o.at, o.since, b, o.inode, o.wire, o.got, o.verdict, o.shown)
<1>1. PICK q1 : q1 = [o EXCEPT !.pc = pc]
  OBVIOUS
<1>2. q1 = Rec(pc, o.at, o.since, o.box, o.inode, o.wire, o.got, o.verdict, o.shown)
  BY <1>1 DEF IsCall, Rec
<1>3. PICK q2 : q2 = [q1 EXCEPT !.box = b]
  OBVIOUS
<1>4. q2 = Rec(pc, o.at, o.since, b, o.inode, o.wire, o.got, o.verdict, o.shown)
  BY <1>3, <1>2 DEF IsCall, Rec
<1> QED
  BY <1>1, <1>2, <1>3, <1>4

\* A call has its device's configuration.
LEMMA SetPcBoxGot ==
  ASSUME NEW o, IsCall(o), NEW pc, NEW b, NEW x
  PROVE  [o EXCEPT !.pc = pc, !.box = b, !.got = x]
           = Rec(pc, o.at, o.since, b, o.inode, o.wire, x, o.verdict, o.shown)
<1>1. PICK q1 : q1 = [o EXCEPT !.pc = pc]
  OBVIOUS
<1>2. q1 = Rec(pc, o.at, o.since, o.box, o.inode, o.wire, o.got, o.verdict, o.shown)
  BY <1>1 DEF IsCall, Rec
<1>3. PICK q2 : q2 = [q1 EXCEPT !.box = b]
  OBVIOUS
<1>4. q2 = Rec(pc, o.at, o.since, b, o.inode, o.wire, o.got, o.verdict, o.shown)
  BY <1>3, <1>2 DEF IsCall, Rec
<1>5. PICK q3 : q3 = [q2 EXCEPT !.got = x]
  OBVIOUS
<1>6. q3 = Rec(pc, o.at, o.since, b, o.inode, o.wire, x, o.verdict, o.shown)
  BY <1>5, <1>4 DEF IsCall, Rec
<1> QED
  BY <1>1, <1>2, <1>3, <1>4, <1>5, <1>6

\* A call has found a file.
LEMMA SetPcShown ==
  ASSUME NEW o, IsCall(o), NEW pc, NEW ps
  PROVE  [o EXCEPT !.pc = pc, !.shown = ps]
           = Rec(pc, o.at, o.since, o.box, o.inode, o.wire, o.got, o.verdict, ps)
<1>1. PICK q1 : q1 = [o EXCEPT !.pc = pc]
  OBVIOUS
<1>2. q1 = Rec(pc, o.at, o.since, o.box, o.inode, o.wire, o.got, o.verdict, o.shown)
  BY <1>1 DEF IsCall, Rec
<1>3. PICK q2 : q2 = [q1 EXCEPT !.shown = ps]
  OBVIOUS
<1>4. q2 = Rec(pc, o.at, o.since, o.box, o.inode, o.wire, o.got, o.verdict, ps)
  BY <1>3, <1>2 DEF IsCall, Rec
<1> QED
  BY <1>1, <1>2, <1>3, <1>4

\* A call ends with a backup.
LEMMA SetPcVerdictGot ==
  ASSUME NEW o, IsCall(o), NEW pc, NEW v, NEW x
  PROVE  [o EXCEPT !.pc = pc, !.verdict = v, !.got = x]
           = Rec(pc, o.at, o.since, o.box, o.inode, o.wire, x, v, o.shown)
<1>1. PICK q1 : q1 = [o EXCEPT !.pc = pc]
  OBVIOUS
<1>2. q1 = Rec(pc, o.at, o.since, o.box, o.inode, o.wire, o.got, o.verdict, o.shown)
  BY <1>1 DEF IsCall, Rec
<1>3. PICK q2 : q2 = [q1 EXCEPT !.verdict = v]
  OBVIOUS
<1>4. q2 = Rec(pc, o.at, o.since, o.box, o.inode, o.wire, o.got, v, o.shown)
  BY <1>3, <1>2 DEF IsCall, Rec
<1>5. PICK q3 : q3 = [q2 EXCEPT !.got = x]
  OBVIOUS
<1>6. q3 = Rec(pc, o.at, o.since, o.box, o.inode, o.wire, x, v, o.shown)
  BY <1>5, <1>4 DEF IsCall, Rec
<1> QED
  BY <1>1, <1>2, <1>3, <1>4, <1>5, <1>6

\* A call ends in the middle.
LEMMA SetPcVerdictWire ==
  ASSUME NEW o, IsCall(o), NEW pc, NEW v, NEW w
  PROVE  [o EXCEPT !.pc = pc, !.verdict = v, !.wire = w]
           = Rec(pc, o.at, o.since, o.box, o.inode, w, o.got, v, o.shown)
<1>1. PICK q1 : q1 = [o EXCEPT !.pc = pc]
  OBVIOUS
<1>2. q1 = Rec(pc, o.at, o.since, o.box, o.inode, o.wire, o.got, o.verdict, o.shown)
  BY <1>1 DEF IsCall, Rec
<1>3. PICK q2 : q2 = [q1 EXCEPT !.verdict = v]
  OBVIOUS
<1>4. q2 = Rec(pc, o.at, o.since, o.box, o.inode, o.wire, o.got, v, o.shown)
  BY <1>3, <1>2 DEF IsCall, Rec
<1>5. PICK q3 : q3 = [q2 EXCEPT !.wire = w]
  OBVIOUS
<1>6. q3 = Rec(pc, o.at, o.since, o.box, o.inode, w, o.got, v, o.shown)
  BY <1>5, <1>4 DEF IsCall, Rec
<1> QED
  BY <1>1, <1>2, <1>3, <1>4, <1>5, <1>6

\* A call has written.
LEMMA SetPcWire ==
  ASSUME NEW o, IsCall(o), NEW pc, NEW w
  PROVE  [o EXCEPT !.pc = pc, !.wire = w]
           = Rec(pc, o.at, o.since, o.box, o.inode, w, o.got, o.verdict, o.shown)
<1>1. PICK q1 : q1 = [o EXCEPT !.pc = pc]
  OBVIOUS
<1>2. q1 = Rec(pc, o.at, o.since, o.box, o.inode, o.wire, o.got, o.verdict, o.shown)
  BY <1>1 DEF IsCall, Rec
<1>3. PICK q2 : q2 = [q1 EXCEPT !.wire = w]
  OBVIOUS
<1>4. q2 = Rec(pc, o.at, o.since, o.box, o.inode, w, o.got, o.verdict, o.shown)
  BY <1>3, <1>2 DEF IsCall, Rec
<1> QED
  BY <1>1, <1>2, <1>3, <1>4


(***************************************************************************)
(* Calls that go on, and touch no file                                      *)
(***************************************************************************)
\* What the assumptions say of a setting.
LEMMA ArSettingIs ==
  ASSUME NEW s \in ArSettings
  PROVE  /\ \A c \in DOMAIN s.orders :
              /\ s.orders[c].tool \in Backups \cup Takers \cup Listers
              /\ s.orders[c].dev \in DOMAIN s.boxes
              /\ c \in ArCallers
         /\ \A d \in DOMAIN s.again :
              s.again[d] \in DOMAIN s.orders /\ s.orders[d].tool = "backup"
         /\ s.ticks \in Nat /\ s.rebinds \in Nat
         /\ "none" \notin ArCallers
         /\ \A d \in DOMAIN s.boxes : <<"cli", d>> \notin ArCallers /\ <<"nc", d>> \notin ArCallers
  BY ArAssumption DEF ArSettingsOK

\* What a call does not undo: it has begun, its second, that it is past its
\* save, and its file.
Keeps(d) ==
  /\ arCall[d].pc \notin {"idle", "lock", "save"} => arCall'[d].pc \notin {"idle", "lock", "save"}
  /\ arCall[d].pc # "idle" => arCall'[d].pc # "idle" /\ arCall'[d].at = arCall[d].at
  /\ arCall[d].inode # "none" => arCall'[d].inode = arCall[d].inode

\* A call that has not begun has no file.
LEMMA Begun ==
  ASSUME ArInv, NEW c \in Calls
  PROVE  /\ IsCall(arCall[c])
         /\ arCall[c].inode # "none" => arCall[c].pc # "idle"
         /\ arCall[c].inode # "none" => Order(c).tool \in Backups
         /\ Order(c).tool \in Backups /\ arCall[c].pc # "idle" => arCall[c].at \in 1..arNow
         /\ c \in ArCallers /\ DOMAIN arCall = Calls
         /\ Order(c).tool \in Backups \cup Takers \cup Listers
<1>1. CallOK(c, arCall[c]) /\ arSetting \in ArSettings /\ DOMAIN arCall = Calls
  BY DEF ArInv, WorldOK
<1>2. /\ Order(c).tool \in Backups \cup Takers \cup Listers /\ c \in ArCallers
  BY <1>1, ArSettingIs DEF Calls, Order
<1>3. arCall[c].pc = "idle" => arCall[c].inode = "none"
  BY <1>1 DEF CallOK, NoArCall
<1>4. Order(c).tool \in Takers \cup Listers => arCall[c].inode = "none"
  BY <1>1 DEF CallOK, TakerOK, ListerOK
<1> QED
  BY <1>1, <1>2, <1>3, <1>4 DEF CallOK, BackupOK

\* Names that are shared stay shared, and files keep their makers.
LEMMA KeptNames ==
  ASSUME ArInv, arSetting' = arSetting, DOMAIN arCall' = Calls, \A d \in Calls : Keeps(d)
  PROVE  /\ Calls' = Calls /\ \A c : Order(c)' = Order(c)
         /\ \A c \in Calls : arCall[c].pc # "idle" => Path(c)' = Path(c)
         /\ \A c \in Calls : arCall[c].pc # "idle" /\ Shared(c) => Shared(c)'
         /\ \A c \in Calls : arCall[c].pc # "idle" /\ Twin(c) => Twin(c)'
         /\ \A e, p : Mine(e, p) => Mine(e, p)'
         /\ \A c \in Calls : arCall[c].inode # "none" => RootOK(c)'
<1>1. Calls' = Calls /\ \A c : Order(c)' = Order(c)
  BY DEF Calls, Order
<1>2. ASSUME NEW c \in Calls, arCall[c].pc # "idle"
      PROVE  Path(c)' = Path(c) /\ arCall'[c].at = arCall[c].at
  BY <1>1, <1>2 DEF Keeps, Path
<1>3. ASSUME NEW c \in Calls, arCall[c].pc # "idle", Shared(c)
      PROVE  Shared(c)'
  <2>1. PICK d \in Calls \ {c} :
          /\ Order(d).tool = Order(c).tool /\ Order(d).dev = Order(c).dev
          /\ Order(c).tool = "netconf_backup" => Order(d).bucket = Order(c).bucket
          /\ arCall[d].pc # "idle" /\ arCall[d].at = arCall[c].at
    BY <1>3, Begun DEF Shared
  <2>2. arCall'[d].pc # "idle" /\ arCall'[d].at = arCall'[c].at
    BY <1>2, <1>3, <2>1 DEF Keeps
  <2> QED
    BY <1>1, <2>1, <2>2 DEF Shared
<1>4. ASSUME NEW c \in Calls, arCall[c].pc # "idle", Twin(c)
      PROVE  Twin(c)'
  <2>1. PICK d \in Calls \ {c} :
          Order(d).tool = "netconf_backup" /\ Path(d) = Path(c) /\ arCall[d].inode # "none"
    BY <1>4, Begun DEF Twin
  <2>2. arCall[d].pc # "idle"
    BY <2>1, Begun
  <2>3. Path(d)' = Path(c)' /\ arCall'[d].inode # "none"
    BY <1>2, <1>4, <2>1, <2>2 DEF Keeps
  <2> QED
    BY <1>1, <2>1, <2>3 DEF Twin
<1>5. ASSUME NEW e, NEW p, Mine(e, p)
      PROVE  Mine(e, p)'
  <2>1. e \in Calls /\ arCall[e].inode = e /\ e # "none"
    BY <1>5, ArAssumption, Begun DEF Mine
  <2>2. Path(e)' = Path(e) /\ arCall'[e].inode = e
    BY <1>2, <2>1, Begun DEF Keeps
  <2> QED
    BY <1>1, <1>5, <2>2 DEF Mine
<1>6. ASSUME NEW c \in Calls, arCall[c].inode # "none"
      PROVE  RootOK(c)'
  <2>1. PICK e \in Calls : e = arCall[c].inode
    BY <1>6 DEF ArInv, RootOK
  <2>2. /\ arCall[e].inode = e /\ Order(e).tool = Order(c).tool /\ Path(e) = Path(c)
        /\ e # "none" /\ arCall'[c].inode = e /\ arCall'[e].inode = e
    BY <1>6, <2>1, ArAssumption, Begun DEF ArInv, RootOK, Keeps
  <2>3. Path(e)' = Path(e) /\ Path(c)' = Path(c)
    BY <1>2, <1>6, <2>2, Begun
  <2> QED
    BY <1>1, <2>2, <2>3 DEF RootOK
<1> QED
  BY <1>1, <1>2, <1>3, <1>4, <1>5, <1>6

\* A step as seen by the calls that do not take it.
Forward ==
  /\ arSetting' = arSetting /\ DOMAIN arCall' = Calls /\ \A d \in Calls : Keeps(d)
  /\ revision' \in [Boxes -> Nat] /\ \A b \in Boxes : revision[b] <= revision'[b]
  /\ arNow' \in Nat /\ arNow <= arNow'

\* What is right of a call stays right.
LEMMA StillOK ==
  ASSUME ArInv, Forward, NEW c \in Calls, NEW r, CallOK(c, r),
         Order(c).tool \in Backups /\ r.verdict = "ok" => arCall[c].pc # "idle"
  PROVE  CallOK(c, r)'
<1>1. /\ CallOK(c, r) /\ arNow \in Nat /\ revision \in [Boxes -> Nat]
      /\ Boxes' = Boxes
  BY DEF ArInv, WorldOK, Forward, Boxes
<1>2. /\ Order(c)' = Order(c) /\ (arCall[c].pc # "idle" /\ Shared(c) => Shared(c)')
  BY KeptNames DEF Forward
<1>3. ASSUME Order(c).tool \in Backups
      PROVE  BackupOK(c, r)'
  <2>1. BackupOK(c, r)
    BY <1>1, <1>3 DEF CallOK
  <2>2. r.pc # "idle" => r.at \in 1..arNow' /\ r.since \in [Boxes -> Nat]
    BY <1>1, <2>1 DEF BackupOK, Forward
  <2>3. r.pc # "idle" => \A b \in Boxes : r.since[b] <= revision'[b]
    <3>1. ASSUME r.pc # "idle", NEW b \in Boxes
          PROVE  r.since[b] <= revision'[b]
      <4>1. /\ r.since[b] \in Nat /\ revision[b] \in Nat /\ revision'[b] \in Nat
            /\ r.since[b] <= revision[b] /\ revision[b] <= revision'[b]
        BY <1>1, <2>1, <3>1 DEF BackupOK, Forward
      <4> QED
        BY <4>1
    <3> QED
      BY <3>1
  <2>4. r.verdict = "ok" =>
          /\ r.pc = "over" /\ r.wire \in {"done", "mute"} /\ r.got.size # "short"
          /\ ~Shared(c)' => /\ r.got.of = r.box /\ r.got.rev >= r.since[r.got.of]
                            /\ r.wire # "mute" => r.got.size = "whole"
    BY <1>2, <1>3, <2>1 DEF BackupOK
  <2>5. arSetting' = arSetting
    BY DEF Forward
  <2>6. /\ r.pc \in {"idle", "stat", "sending", "over"} \cup
              IF Order(c)'.tool = "backup" THEN {"lock", "save", "upload", "again"} ELSE {"pull", "open", "rename"}
        /\ r.pc \in {"lock", "save", "pull", "upload", "open"} => r.inode = "none"
        /\ r.pc \in {"sending", "stat", "rename"} => r.inode # "none"
        /\ r.pc \in {"stat", "rename"} => r.wire \in {"done", "mute"}
        /\ r.inode # "none" <=> r.wire # "none"
    BY <1>2, <2>1 DEF BackupOK
  <2>7. /\ r.pc \in {"upload", "open"} \/ r.inode # "none" =>
             r.box \in Boxes' /\ (arSetting'.rebinds = 0 => r.box = arSetting'.boxes[Order(c)'.dev])
        /\ Order(c)'.tool = "netconf_backup" =>
             /\ r.wire # "mute"
             /\ r.pc = "sending" => r.wire = "on"
             /\ r.wire = "on" => r.pc \in {"sending", "over"}
             /\ r.pc \in {"open", "sending"} => IsData(r.got) /\ r.got.size = "whole" /\ Current(r, r.got)
    BY <1>1, <1>2, <2>1, <2>5 DEF BackupOK
  <2> QED
    BY <1>1, <2>2, <2>3, <2>4, <2>6, <2>7 DEF BackupOK, Current, IsData
<1>4. ASSUME Order(c).tool \in Takers
      PROVE  TakerOK(c, r)'
  <2>1. TakerOK(c, r)
    BY <1>1, <1>4 DEF CallOK
  <2> QED
    BY <1>1, <1>2, <2>1 DEF TakerOK, Placed, Pinned, Owner, Forward, IsPath
<1>5. ASSUME Order(c).tool \in Listers
      PROVE  ListerOK(c, r)'
  <2>1. ListerOK(c, r)
    BY <1>1, <1>5 DEF CallOK
  <2> QED
    BY <1>1, <1>2, <2>1 DEF ListerOK, Found, Pinned, Owner
<1>6. IsCall(r) /\ (r.pc = "idle" => r = NoArCall)
      /\ r.wire \in {"none", "on", "done", "break", "mute"}
      /\ r.verdict \in {"none", "ok", "error", "timeout", "connect_error", "killed"}
  BY <1>1 DEF CallOK
<1> QED
  BY <1>1, <1>2, <1>3, <1>4, <1>5, <1>6 DEF CallOK, IsCall, NoArCall, Nothing

\* Files that are let alone are where they were, and as good.
LEMMA FilesStay ==
  ASSUME ArInv, Forward, disk' = disk, data' = data
  PROVE  DiskOK' /\ DataOK'
<1>1. arSetting' = arSetting /\ \A e, p : Mine(e, p) => Mine(e, p)'
  BY KeptNames DEF Forward
<1>2. DiskOK'
  <2>1. DiskOK
    BY DEF ArInv
  <2>2. \A p : Placed(p) => Placed(p)'
    BY <1>1 DEF Placed, IsPath
  <2>3. \A p \in DOMAIN disk : IF disk[p] \in ArCallers THEN Mine(disk[p], p)' ELSE p.at = 0
    <3>1. ASSUME NEW p \in DOMAIN disk, disk[p] \in ArCallers
          PROVE  Mine(disk[p], p)'
      <4>1. PICK e : e = disk[p]
        OBVIOUS
      <4>2. Mine(e, p)
        BY <2>1, <3>1, <4>1 DEF DiskOK
      <4>3. Mine(e, p)' /\ disk'[p] = e
        BY <1>1, <4>1, <4>2
      <4> QED
        BY <4>3, <4>1 DEF Mine
    <3> QED
      BY <2>1, <3>1 DEF DiskOK
  <2>4. \A p \in DOMAIN disk' : IF disk'[p] \in ArCallers THEN Mine(disk[p], p)' ELSE p.at = 0
    BY <2>3
  <2> QED
    BY <2>1, <2>2, <2>4 DEF DiskOK
<1>3. DataOK'
  BY <1>1 DEF ArInv, DataOK, IsData
<1> QED
  BY <1>2, <1>3

\* A call that had not yet saved under its name finds it on a device only if
\* another call had the name.
LEMMA FoundOnFlash ==
  ASSUME ArInv, Forward, NEW c \in Calls, ~Saved(c), Order(c).tool = "backup",
         NEW box, <<box, Order(c).dev, arCall'[c].at>> \in DOMAIN flash
  PROVE  Shared(c)'
<1> DEFINE k == <<box, Order(c).dev, arCall'[c].at>>
<1>1. PICK d \in Calls : Saved(d) /\ k = <<k[1], Order(d).dev, arCall[d].at>>
  BY DEF ArInv, FlashOK
<1>2. Order(d).dev = Order(c).dev /\ arCall[d].at = arCall'[c].at /\ d # c
  BY <1>1
<1>3. arCall'[d].pc # "idle" /\ arCall'[d].at = arCall'[c].at /\ Order(d).tool = Order(c).tool
  BY <1>1, <1>2 DEF Saved, Forward, Keeps
<1>4. Order(d)' = Order(d) /\ Order(c)' = Order(c) /\ d \in (DOMAIN arCall)' \ {c}
  BY <1>2, KeptNames DEF Forward
<1> QED
  BY <1>2, <1>3, <1>4 DEF Shared

\* A call goes on, and what it has to do with files does not change.
Onward(d) ==
  /\ arCall'[d].inode = arCall[d].inode
  /\ arCall[d].inode # "none" =>
       arCall'[d].wire = arCall[d].wire /\ arCall'[d].box = arCall[d].box /\ arCall'[d].since = arCall[d].since
  /\ Saved(d) => arCall'[d].box = arCall[d].box /\ arCall'[d].since = arCall[d].since
  /\ Order(d).tool = "netconf_backup" /\ arCall'[d].pc \in {"sending", "rename"} => arCall'[d].pc = arCall[d].pc

\* A call that goes on leaves what its file holds true.
LEMMA OnwardWire ==
  ASSUME ArInv, Forward, NEW c \in Calls, Onward(c),
         arCall[c].inode # "none" => data'[arCall[c].inode] = data[arCall[c].inode]
  PROVE  WireOK(c)'
<1> SUFFICES ASSUME arCall'[c].inode # "none", ~Shared(c)', arCall'[c].wire # "on"
             PROVE  /\ Current(arCall'[c], data'[arCall'[c].inode])
                    /\ arCall'[c].wire = "done" => data'[arCall'[c].inode].size = "whole"
  BY DEF WireOK, Current
<1>1. arCall[c].inode # "none" /\ arCall'[c].wire = arCall[c].wire /\ arCall'[c].inode = arCall[c].inode
      /\ arCall'[c].box = arCall[c].box /\ arCall'[c].since = arCall[c].since
  BY DEF Onward
<1>2. ~Shared(c)
  BY <1>1, KeptNames, Begun DEF Forward
<1>3. WireOK(c)
  BY DEF ArInv
<1> QED
  BY <1>1, <1>2, <1>3 DEF WireOK, Current

\* What is at a path stays there, or stays nowhere.
PathStays(p) ==
  /\ p \in DOMAIN disk' <=> p \in DOMAIN disk
  /\ p \in DOMAIN disk => disk'[p] = disk[p]

\* And of its .tmp.
LEMMA OnwardCopy ==
  ASSUME ArInv, Forward, NEW c \in Calls, Onward(c),
         arCall[c].inode # "none" => data'[arCall[c].inode] = data[arCall[c].inode],
         PathStays(Path(c)), PathStays(Tmp(Path(c)))
  PROVE  CopyOK(c)'
<1> SUFFICES ASSUME Order(c)'.tool = "netconf_backup", arCall'[c].pc \in {"sending", "rename"}, ~Twin(c)'
             PROVE  CopyOK(c)'
  BY DEF CopyOK
<1>1. Order(c)' = Order(c) /\ arCall'[c].pc = arCall[c].pc /\ arCall'[c].inode = arCall[c].inode
  BY KeptNames DEF Onward, Forward
<1>2. Path(c)' = Path(c) /\ ~Twin(c)
  BY <1>1, KeptNames DEF Forward
<1>5. arCall[c].inode # "none"
  <2>1. Order(c).tool \in Backups
    BY <1>1 DEF Backups
  <2>2. BackupOK(c, arCall[c])
    BY <2>1 DEF ArInv, CallOK
  <2> QED
    BY <1>1, <2>2 DEF BackupOK
<1>3. CopyOK(c)
  BY DEF ArInv
<1>4. Tmp(Path(c))' = Tmp(Path(c))
  BY <1>2 DEF Tmp
<1> QED
  BY <1>1, <1>2, <1>3, <1>4, <1>5 DEF CopyOK, PathStays

\* And of what it left on a device.
LEMMA OnwardFlash ==
  ASSUME ArInv, Forward, flash' = flash,
         \A c \in Calls : Saved(c) => arCall'[c].box = arCall[c].box /\ arCall'[c].since = arCall[c].since
  PROVE  FlashOK'
<1>1. ASSUME NEW d \in Calls, Saved(d)
      PROVE  Saved(d)' /\ arCall'[d].at = arCall[d].at /\ Order(d)' = Order(d) /\ d \in Calls'
  BY <1>1, KeptNames DEF Saved, Forward, Keeps
<1>2. ASSUME NEW k \in DOMAIN flash
      PROVE  flash[k] \in Nat /\ \E d \in Calls' : Saved(d)' /\ k = <<k[1], Order(d)'.dev, arCall'[d].at>>
  <2>1. PICK d \in Calls : Saved(d) /\ k = <<k[1], Order(d).dev, arCall[d].at>>
    BY <1>2 DEF ArInv, FlashOK
  <2>2. Saved(d)' /\ k = <<k[1], Order(d)'.dev, arCall'[d].at>> /\ d \in Calls'
    BY <1>1, <2>1
  <2> QED
    BY <2>2 DEF ArInv, FlashOK
<1>3. ASSUME NEW c \in Calls, Saved(c)', ~Shared(c)', OnFlash(c)' \in DOMAIN flash
      PROVE  flash[OnFlash(c)'] >= arCall'[c].since[arCall'[c].box]
  <2>1. Order(c)' = Order(c) /\ Order(c).tool = "backup"
    BY <1>3, KeptNames DEF Saved, Forward
  <2>2. OnFlash(c)' = <<arCall'[c].box, Order(c).dev, arCall'[c].at>>
    BY <2>1 DEF OnFlash
  <2>3. Saved(c)
    BY <1>3, <2>1, <2>2, FoundOnFlash
  <2>4. OnFlash(c)' = OnFlash(c) /\ arCall'[c].since = arCall[c].since /\ arCall'[c].box = arCall[c].box
    BY <1>1, <2>2, <2>3 DEF OnFlash
  <2>5. ~Shared(c)
    BY <1>3, <2>3, KeptNames DEF Forward, Saved
  <2> QED
    BY <1>3, <2>3, <2>4, <2>5 DEF ArInv, FlashOK
<1>4. Calls' = Calls /\ flash' = flash
  BY KeptNames DEF Forward
<1> QED
  BY <1>2, <1>3, <1>4 DEF FlashOK

\* And what it is sent is there.
LEMMA OnwardSend ==
  ASSUME ArInv, Forward, NEW c \in Calls, Onward(c), CallOK(c, arCall[c])', DOMAIN flash \subseteq DOMAIN flash'
  PROVE  SendOK(c)'
<1> SUFFICES ASSUME Order(c)'.tool = "backup", arCall'[c].wire = "on"
             PROVE  OnFlash(c)' \in DOMAIN flash
  BY DEF SendOK
<1>1. Order(c)' = Order(c) /\ Order(c).tool \in Backups
  BY KeptNames DEF Forward, Backups
<1>2. arCall'[c].inode # "none"
  <2>1. CallOK(c, arCall[c])'
    OBVIOUS
  <2>2. BackupOK(c, arCall[c])'
    BY <1>1, <2>1 DEF CallOK, Backups
  <2> QED
    BY <2>2 DEF BackupOK
<1>3. arCall[c].inode # "none" /\ arCall[c].wire = "on" /\ arCall'[c].box = arCall[c].box
  BY <1>2 DEF Onward
<1>4. arCall'[c].at = arCall[c].at
  BY <1>3, Begun DEF Forward, Keeps
<1>5. OnFlash(c)' = OnFlash(c) /\ SendOK(c)
  BY <1>1, <1>3, <1>4 DEF OnFlash, ArInv
<1> QED
  BY <1>1, <1>3, <1>5 DEF SendOK

\* A step of calls in which no file of the stores is touched.
LEMMA CallsGoOn ==
  ASSUME ArInv, Forward, WorldOK', UNCHANGED <<disk, data>>, FlashOK', DOMAIN flash \subseteq DOMAIN flash',
         \A c \in Calls : Onward(c) /\ CallOK(c, arCall[c])'
  PROVE  ArInv'
<1>1. DiskOK' /\ DataOK'
  BY FilesStay
<1>2. ASSUME NEW c \in Calls
      PROVE  CallOK(c, arCall[c])' /\ RootOK(c)' /\ WireOK(c)' /\ CopyOK(c)' /\ SendOK(c)'
  <2>1. RootOK(c)'
    <3>1. CASE arCall[c].inode = "none"
      BY <3>1 DEF RootOK, Onward
    <3>2. CASE arCall[c].inode # "none"
      BY <3>2, KeptNames DEF Forward
    <3> QED
      BY <3>1, <3>2
  <2>2. PathStays(Path(c)) /\ PathStays(Tmp(Path(c)))
    BY DEF PathStays
  <2> QED
    BY <2>1, <2>2, OnwardWire, OnwardCopy, OnwardSend
<1>3. Calls' = Calls
  BY DEF Forward, Calls
<1> QED
  BY <1>1, <1>2, <1>3 DEF ArInv

\* A step of calls in which no file at all is touched.
LEMMA CallsMove ==
  ASSUME ArInv, Forward, WorldOK', UNCHANGED <<disk, data, flash>>,
         \A c \in Calls : Onward(c) /\ CallOK(c, arCall[c])'
  PROVE  ArInv'
<1>1. FlashOK'
  BY OnwardFlash DEF Onward
<1> QED
  BY <1>1, CallsGoOn

\* A call that goes on to r, and touches no file.
Goes(c, r) ==
  /\ arCall[c].pc # "idle" => r.pc # "idle" /\ r.at = arCall[c].at
  /\ arCall[c].pc \notin {"idle", "lock", "save"} => r.pc \notin {"idle", "lock", "save"}
  /\ r.inode = arCall[c].inode
  /\ arCall[c].inode # "none" \/ Saved(c) =>
       r.wire = arCall[c].wire /\ r.box = arCall[c].box /\ r.since = arCall[c].since
  /\ r.pc \in {"sending", "rename"} => r.pc = arCall[c].pc
  /\ Order(c).tool \in Backups /\ r.verdict = "ok" => arCall[c].pc # "idle"

\* The world as calls leave it.
LEMMA WorldStaysOK ==
  ASSUME ArInv, WorldStays, DOMAIN arCall' = Calls
  PROVE  /\ WorldOK' /\ Calls' = Calls
         /\ revision' \in [Boxes -> Nat] /\ \A b \in Boxes : revision[b] <= revision'[b]
         /\ arNow' \in Nat /\ arNow <= arNow' /\ arSetting' = arSetting
<1>1. WorldOK
  BY DEF ArInv
<1>2. WorldOK'
  BY <1>1 DEF WorldOK, WorldStays, Boxes, Calls
<1>3. \A b \in Boxes : revision[b] \in Nat
  BY <1>1 DEF WorldOK
<1> QED
  BY <1>1, <1>2, <1>3 DEF WorldOK, WorldStays, Calls

\* One call takes a step of its own.
LEMMA OneMoves ==
  ASSUME ArInv, NEW c \in Calls, NEW r, ArMoves(c, r), WorldStays
  PROVE  /\ arCall'[c] = r /\ \A d \in Calls \ {c} : arCall'[d] = arCall[d]
         /\ DOMAIN arCall' = Calls
  BY Begun DEF ArMoves

\* And with it, the calls that stand do.
LEMMA MovesForward ==
  ASSUME ArInv, NEW c \in Calls, NEW r, ArMoves(c, r), WorldStays,
         arCall[c].pc # "idle" => r.pc # "idle" /\ r.at = arCall[c].at,
         arCall[c].pc \notin {"idle", "lock", "save"} => r.pc \notin {"idle", "lock", "save"},
         arCall[c].inode # "none" => r.inode = arCall[c].inode
  PROVE  Forward /\ WorldOK' /\ Calls' = Calls
<1>1. \A d \in Calls : Keeps(d)
  BY OneMoves DEF Keeps
<1> QED
  BY <1>1, OneMoves, WorldStaysOK DEF Forward

\* Whoever stands is right, in whatever step.
LEMMA OthersOK ==
  ASSUME ArInv, Forward, NEW d \in Calls, arCall'[d] = arCall[d]
  PROVE  CallOK(d, arCall[d])'
<1>1. PICK r : r = arCall[d]
  OBVIOUS
<1>2. CallOK(d, r)
  BY <1>1 DEF ArInv
<1>3. Order(d).tool \in Backups /\ r.verdict = "ok" => arCall[d].pc # "idle"
  BY <1>1, <1>2 DEF CallOK, BackupOK
<1>4. CallOK(d, r)' /\ arCall'[d] = r
  BY <1>1, <1>2, <1>3, StillOK
<1> QED
  BY <1>4

\* A call goes on and no file is touched.
LEMMA CallMoves ==
  ASSUME ArInv, NEW c \in Calls, NEW r, ArMoves(c, r), WorldStays, UNCHANGED <<disk, data, flash>>,
         CallOK(c, r), Goes(c, r)
  PROVE  ArInv'
<1>1. arCall'[c] = r /\ \A d \in Calls \ {c} : arCall'[d] = arCall[d]
  BY OneMoves
<1>2. Forward /\ WorldOK'
  BY MovesForward DEF Goes
<1>3. ASSUME NEW d \in Calls
      PROVE  Onward(d) /\ CallOK(d, arCall[d])'
  <2>1. CASE d = c
    <3>1. CallOK(c, r)'
      BY <1>2, StillOK DEF Goes
    <3>2. Onward(c)
      BY <1>1 DEF Onward, Goes
    <3> QED
      BY <1>1, <2>1, <3>1, <3>2
  <2>2. CASE d # c
    <3>1. arCall'[d] = arCall[d]
      BY <1>1, <2>2
    <3> QED
      BY <1>2, <3>1, OthersOK DEF Onward
  <2> QED
    BY <2>1, <2>2
<1> QED
  BY <1>2, <1>3, CallsMove

\* Each tool is of one kind.
LEMMA Kinds ==
  /\ \A t \in Backups : t \notin Takers /\ t \notin Listers
  /\ \A t \in Takers : t \notin Backups /\ t \notin Listers
  /\ \A t \in Listers : t \notin Backups /\ t \notin Takers
  BY DEF Backups, Takers, Listers

\* A call that fails, or is killed, is right.
LEMMA EndedOK ==
  ASSUME ArInv, NEW c \in Calls, NEW v \in {"error", "timeout", "connect_error", "killed"},
         Order(c).tool \in Backups => arCall[c].pc # "idle"
  PROVE  /\ CallOK(c, Ended(c, v)) /\ Goes(c, Ended(c, v))
         /\ Ended(c, v).pc = "over" /\ Ended(c, v).verdict = v
<1> DEFINE o == arCall[c]
           r == Ended(c, v)
<1>1. CallOK(c, o) /\ IsCall(o)
  BY DEF ArInv, CallOK
<1>2. r = Rec("over", o.at, o.since, o.box, o.inode, o.wire, o.got, v, o.shown)
  BY <1>1, SetPcVerdict DEF Ended
<1> HIDE DEF r
<1>3. /\ r.pc = "over" /\ r.verdict = v /\ r.at = o.at /\ r.since = o.since /\ r.box = o.box
      /\ r.inode = o.inode /\ r.wire = o.wire /\ r.got = o.got /\ r.shown = o.shown /\ IsCall(r)
  BY <1>2 DEF IsCall, Rec
<1>4. Order(c).tool \in Backups => BackupOK(c, r)
  BY <1>1, <1>3 DEF CallOK, BackupOK
<1>5. Order(c).tool \in Takers => TakerOK(c, r)
  BY <1>1, <1>3 DEF CallOK, TakerOK
<1>6. Order(c).tool \in Listers => ListerOK(c, r)
  BY <1>1, <1>3 DEF CallOK, ListerOK
<1>7. CallOK(c, r)
  BY <1>1, <1>3, <1>4, <1>5, <1>6 DEF CallOK
<1>8. Goes(c, r)
  BY <1>3 DEF Goes
<1> QED
  BY <1>3, <1>7, <1>8 DEF r

\* And a step in which it fails, and touches no file, keeps all.
LEMMA CallEnds ==
  ASSUME ArInv, NEW c \in Calls, NEW v \in {"error", "timeout", "connect_error", "killed"},
         Order(c).tool \in Backups => arCall[c].pc # "idle",
         ArMoves(c, Ended(c, v)), WorldStays, UNCHANGED <<disk, data, flash>>
  PROVE  ArInv'
<1>1. PICK r : r = Ended(c, v)
  OBVIOUS
<1>2. CallOK(c, r) /\ Goes(c, r)
  BY <1>1, EndedOK
<1> QED
  BY <1>1, <1>2, CallMoves

\* A call at pc is of the tool whose step that is.
LEMMA AtWork ==
  ASSUME ArInv, NEW c \in Calls
  PROVE  /\ arCall[c].pc \in {"lock", "save", "upload"} => Order(c).tool = "backup"
         /\ arCall[c].pc \in {"pull", "open", "rename"} => Order(c).tool = "netconf_backup"
         /\ arCall[c].pc \in {"sending", "stat"} => Order(c).tool \in Backups
         /\ arCall[c].pc = "take" => Order(c).tool \in Takers
         /\ Order(c).tool \in Backups =>
              BackupOK(c, arCall[c]) /\ Order(c).tool \notin Takers \cup Listers
         /\ Order(c).tool \in Takers =>
              TakerOK(c, arCall[c]) /\ Order(c).tool \notin Backups \cup Listers
         /\ Order(c).tool \in Listers =>
              ListerOK(c, arCall[c]) /\ Order(c).tool \notin Backups \cup Takers
         /\ CallOK(c, arCall[c]) /\ IsCall(arCall[c])
<1>1. CallOK(c, arCall[c]) /\ Order(c).tool \in Backups \cup Takers \cup Listers
  BY Begun DEF ArInv
<1>2. Order(c).tool \in Backups => Order(c).tool \in {"backup", "netconf_backup"}
  BY DEF Backups
<1>3. Order(c).tool \in Backups =>
        /\ arCall[c].pc \in {"lock", "save", "upload"} => Order(c).tool = "backup"
        /\ arCall[c].pc \in {"pull", "open", "rename"} => Order(c).tool = "netconf_backup"
        /\ arCall[c].pc # "take"
  BY <1>1, <1>2 DEF CallOK, BackupOK
<1>4. Order(c).tool \in Takers \cup Listers => arCall[c].pc \in {"idle", "take", "over"}
  BY <1>1 DEF CallOK, TakerOK, ListerOK
<1>5. Order(c).tool \in Listers => arCall[c].pc # "take"
  BY <1>1 DEF CallOK, ListerOK
<1> QED
  BY <1>1, <1>3, <1>4, <1>5, Kinds DEF CallOK

\* A call makes its name.
LEMMA MakeNameKeeps ==
  ASSUME ArInv, NEW c \in Calls, MakeName(c)
  PROVE  ArInv'
<1> DEFINE r == [arCall[c] EXCEPT !.pc = IF Order(c).tool = "backup" THEN "lock" ELSE "pull",
                   !.at = arNow, !.since = revision]
<1>1. /\ arCall[c].pc = "idle" /\ Order(c).tool \in Backups /\ ArMoves(c, r)
      /\ WorldStays /\ UNCHANGED <<disk, data, flash>>
  BY DEF MakeName, StoreStays
<1>2. arCall[c] = NoArCall
  BY <1>1, AtWork DEF CallOK
<1>3. r = Rec(IF Order(c).tool = "backup" THEN "lock" ELSE "pull", arNow, revision, "none", "none",
              "none", Nothing, "none", {})
  <2>1. arCall[c] = Rec("idle", 0, <<>>, "none", "none", "none", Nothing, "none", {})
    BY <1>2 DEF NoArCall, Rec
  <2>2. r = Rec(IF Order(c).tool = "backup" THEN "lock" ELSE "pull", arNow, revision, arCall[c].box,
                arCall[c].inode, arCall[c].wire, arCall[c].got, arCall[c].verdict, arCall[c].shown)
    BY SetPcAtSince, Begun
  <2>3. /\ arCall[c].box = "none" /\ arCall[c].inode = "none" /\ arCall[c].wire = "none"
        /\ arCall[c].got = Nothing /\ arCall[c].verdict = "none" /\ arCall[c].shown = {}
    BY <2>1 DEF Rec
  <2> QED
    BY <2>2, <2>3
<1> HIDE DEF r
<1>6. /\ r.pc = (IF Order(c).tool = "backup" THEN "lock" ELSE "pull") /\ r.at = arNow
      /\ r.since = revision /\ r.inode = "none" /\ r.wire = "none" /\ r.verdict = "none" /\ IsCall(r)
  BY <1>3 DEF IsCall, Rec
<1>4. BackupOK(c, r)
  <2>1. arNow \in 1..arNow /\ revision \in [Boxes -> Nat] /\ \A b \in Boxes : revision[b] \in Nat
    BY DEF ArInv, WorldOK
  <2> QED
    BY <1>1, <1>6, <2>1 DEF BackupOK
<1>5. CallOK(c, r)
  BY <1>1, <1>6, <1>4, AtWork DEF CallOK
<1>7. Goes(c, r)
  BY <1>1, <1>2, <1>6 DEF Goes, NoArCall, Saved
<1> QED
  BY <1>1, <1>5, <1>7, CallMoves

\* A call goes on to pc, and all else of it stays.
LEMMA StepIs ==
  ASSUME ArInv, NEW c \in Calls, NEW pc
  PROVE  LET o == arCall[c]
             r == [o EXCEPT !.pc = pc]
         IN /\ r.pc = pc /\ r.verdict = o.verdict /\ r.at = o.at /\ r.since = o.since /\ r.box = o.box
            /\ r.inode = o.inode /\ r.wire = o.wire /\ r.got = o.got /\ r.shown = o.shown /\ IsCall(r)
<1>1. IsCall(arCall[c])
  BY Begun
<1> QED
  BY <1>1 DEF IsCall, Rec

\* A backup takes the lock of its process.
LEMMA TakeLockKeeps ==
  ASSUME ArInv, NEW c \in Calls, TakeLock(c)
  PROVE  ArInv'
<1> DEFINE r == [arCall[c] EXCEPT !.pc = "save"]
<1>1. arCall[c].pc = "lock" /\ ArMoves(c, r) /\ WorldStays /\ UNCHANGED <<disk, data, flash>>
  BY DEF TakeLock, StoreStays, ArStays
<1>2. /\ r.pc = "save" /\ r.verdict = arCall[c].verdict /\ r.at = arCall[c].at /\ r.since = arCall[c].since
      /\ r.inode = arCall[c].inode /\ r.wire = arCall[c].wire /\ IsCall(r)
      /\ r.box = arCall[c].box
  BY StepIs
<1> HIDE DEF r
<1>3. Order(c).tool = "backup" /\ Order(c).tool \in Backups
  BY <1>1, AtWork DEF Backups
<1>4. BackupOK(c, r)
  BY <1>1, <1>2, <1>3, AtWork DEF BackupOK
<1>5. CallOK(c, r) /\ Goes(c, r)
  BY <1>1, <1>2, <1>3, <1>4, AtWork DEF CallOK, Goes, Saved
<1> QED
  BY <1>1, <1>5, CallMoves


\* A backup saves on its device: under its name is what was running, and
\* nobody else's.
LEMMA SavedOnFlash ==
  ASSUME ArInv, Forward, NEW c \in Calls, Order(c).tool = "backup", arCall[c].pc = "save",
         \A d \in Calls : Onward(d), Saved(c)', NEW box \in Boxes, arCall'[c].box = box,
         arCall'[c].at = arCall[c].at, arCall'[c].since = arCall[c].since,
         flash' = Put(flash, <<box, Order(c).dev, arCall[c].at>>, revision[box])
  PROVE  FlashOK'
<1> DEFINE k == <<box, Order(c).dev, arCall[c].at>>
<1>1. /\ Calls' = Calls /\ \A d : Order(d)' = Order(d)
      /\ DOMAIN flash' = DOMAIN flash \cup {k} /\ flash'[k] = revision[box]
      /\ \A j \in DOMAIN flash : j # k => flash'[j] = flash[j]
  BY KeptNames DEF Forward, Put
<1>2. /\ revision[box] \in Nat /\ arCall[c].since[box] \in Nat /\ arCall[c].since[box] <= revision[box]
      /\ arCall[c].at = arCall'[c].at
  <2>1. Order(c).tool \in Backups
    BY DEF Backups
  <2>2. BackupOK(c, arCall[c])
    BY <2>1, AtWork
  <2> QED
    BY <2>2 DEF BackupOK, ArInv, WorldOK
<1>3. ASSUME NEW d \in Calls, Saved(d)
      PROVE  Saved(d)' /\ arCall'[d].at = arCall[d].at /\ arCall[d].pc # "idle"
  BY <1>1, <1>3 DEF Saved, Forward, Keeps
<1>4. ASSUME NEW j \in DOMAIN flash'
      PROVE  flash'[j] \in Nat /\ \E d \in Calls' : Saved(d)' /\ j = <<j[1], Order(d)'.dev, arCall'[d].at>>
  <2>1. CASE j = k
    BY <1>1, <1>2, <2>1
  <2>2. CASE j # k
    <3>1. PICK d \in Calls : Saved(d) /\ j = <<j[1], Order(d).dev, arCall[d].at>>
      BY <1>1, <1>4, <2>2 DEF ArInv, FlashOK
    <3>2. Saved(d)' /\ j = <<j[1], Order(d)'.dev, arCall'[d].at>> /\ d \in Calls'
      BY <1>1, <1>3, <3>1
    <3> QED
      BY <1>1, <1>4, <2>2, <3>2 DEF ArInv, FlashOK
  <2> QED
    BY <2>1, <2>2
<1>5. ASSUME NEW d \in Calls, Saved(d)', ~Shared(d)', OnFlash(d)' \in DOMAIN flash'
      PROVE  flash'[OnFlash(d)'] >= arCall'[d].since[arCall'[d].box]
  <2>1. OnFlash(d)' = <<arCall'[d].box, Order(d).dev, arCall'[d].at>> /\ Order(d).tool = "backup"
    BY <1>1, <1>5 DEF OnFlash, Saved
  <2>2. CASE d = c
    <3>1. OnFlash(d)' = k
      BY <1>2, <2>1, <2>2
    <3> QED
      BY <1>1, <1>2, <2>2, <3>1
  <2>3. CASE d # c
    <3>1. arCall'[d].at # arCall'[c].at \/ Order(d).dev # Order(c).dev
      <4>1. arCall'[c].pc # "idle"
        BY DEF Saved
      <4>2. SUFFICES ASSUME arCall'[d].at = arCall'[c].at, Order(d).dev = Order(c).dev
                     PROVE  FALSE
        OBVIOUS
      <4> QED
        BY <1>1, <1>5, <2>1, <2>3, <4>1, <4>2 DEF Shared, Forward
    <3>2. OnFlash(d)' # k
      BY <1>2, <2>1, <3>1
    <3>3. OnFlash(d)' \in DOMAIN flash /\ flash'[OnFlash(d)'] = flash[OnFlash(d)']
      BY <1>1, <1>5, <3>2
    <3>4. Saved(d)
      BY <1>5, <2>1, <3>3, FoundOnFlash
    <3>5. OnFlash(d)' = OnFlash(d) /\ arCall'[d].since = arCall[d].since /\ arCall'[d].box = arCall[d].box
      BY <1>3, <2>1, <3>4 DEF OnFlash, Onward
    <3>6. ~Shared(d)
      BY <1>3, <1>5, <3>4, KeptNames DEF Forward
    <3> QED
      BY <3>3, <3>4, <3>5, <3>6 DEF ArInv, FlashOK
  <2> QED
    BY <2>2, <2>3
<1> QED
  BY <1>1, <1>4, <1>5 DEF FlashOK

\* configure; save; exit.
LEMMA SaveOnBoxKeeps ==
  ASSUME ArInv, NEW c \in Calls, SaveOnBox(c)
  PROVE  ArInv'
<1>1. arCall[c].pc = "save" /\ WorldStays /\ UNCHANGED <<disk, data>>
  BY DEF SaveOnBox
<1>2. Order(c).tool = "backup" /\ Order(c).tool \in Backups
  BY <1>1, AtWork DEF Backups
<1>3. CASE ArMoves(c, Ended(c, "connect_error")) /\ UNCHANGED flash
  BY <1>1, <1>3, CallEnds
<1>4. ASSUME NEW box, box = arBox[Order(c).dev], ArMoves(c, [arCall[c] EXCEPT !.pc = "upload", !.box = box]),
             \/ flash' = Put(flash, <<box, Order(c).dev, arCall[c].at>>, revision[box])
             \/ UNCHANGED flash
      PROVE  ArInv'
  <2> DEFINE o == arCall[c]
  <2>9. PICK r : r = [o EXCEPT !.pc = "upload", !.box = box]
    OBVIOUS
  <2>1. r = Rec("upload", o.at, o.since, box, o.inode, o.wire, o.got, o.verdict, o.shown)
    BY <2>9, SetPcBox, AtWork
  <2>2. ArMoves(c, r)
    BY <1>4, <2>9
  <2>3. /\ r.pc = "upload" /\ r.at = o.at /\ r.since = o.since /\ r.box = box /\ r.inode = o.inode
        /\ r.wire = o.wire /\ r.verdict = o.verdict /\ IsCall(r)
    BY <2>1 DEF IsCall, Rec
  <2>4. box \in Boxes /\ (arSetting.rebinds = 0 => box = arSetting.boxes[Order(c).dev])
    BY <1>4, Begun, ArSettingIs DEF ArInv, WorldOK, Order, Calls, Range
  <2>5. BackupOK(c, r) /\ o.inode = "none"
    BY <1>1, <1>2, <2>3, <2>4, AtWork DEF BackupOK
  <2>6. CallOK(c, r) /\ Goes(c, r) /\ ~Saved(c)
    BY <1>1, <1>2, <2>3, <2>5, AtWork DEF CallOK, Goes, Saved
  <2>7. CASE UNCHANGED flash
    BY <1>1, <2>2, <2>6, <2>7, CallMoves
  <2>8. CASE flash' = Put(flash, <<box, Order(c).dev, arCall[c].at>>, revision[box])
    <3>1. Forward /\ WorldOK' /\ Calls' = Calls
      BY <1>1, <2>2, <2>6, MovesForward DEF Goes
    <3>2. arCall'[c] = r /\ \A d \in Calls \ {c} : arCall'[d] = arCall[d]
      BY <1>1, <2>2, OneMoves
    <3>3. \A d \in Calls : Onward(d)
      BY <2>6, <3>2 DEF Onward, Goes
    <3>4. Order(c)' = Order(c)
      BY <3>1, KeptNames DEF Forward
    <3>5. Saved(c)'
      BY <1>2, <2>3, <3>2, <3>4 DEF Saved
    <3>6. FlashOK'
      BY <1>1, <1>2, <2>3, <2>4, <2>8, <3>1, <3>2, <3>3, <3>5, SavedOnFlash
    <3>7. ASSUME NEW d \in Calls
          PROVE  CallOK(d, arCall[d])'
      <4>1. CASE d = c
        <5>1. CallOK(c, r)'
          BY <1>1, <2>6, <3>1, StillOK
        <5> QED
          BY <3>2, <4>1, <5>1
      <4>2. CASE d # c
        BY <3>1, <3>2, <4>2, OthersOK
      <4> QED
        BY <4>1, <4>2
    <3>8. DOMAIN flash \subseteq DOMAIN flash'
      BY <2>8 DEF Put
    <3> QED
      BY <1>1, <3>1, <3>3, <3>6, <3>7, <3>8, CallsGoOn
  <2> QED
    BY <1>4, <2>7, <2>8
<1> QED
  BY <1>3, <1>4 DEF SaveOnBox

(***************************************************************************)
(* Paths, and the files that calls open, write and rename                   *)
(***************************************************************************)
\* A path with another last part.
LEMMA SetTmp ==
  ASSUME NEW p, IsPath(p), NEW t
  PROVE  [p EXCEPT !.tmp = t] = [store |-> p.store, dir |-> p.dir, bucket |-> p.bucket, dev |-> p.dev,
                                 at |-> p.at, tmp |-> t]
  BY DEF IsPath

\* The parts of a path.
LEMMA PathIs ==
  ASSUME NEW c
  PROVE  /\ IsPath(Path(c)) /\ Path(c).store = StoreOf(Order(c).tool)
         /\ Path(c).dir = IF StoreOf(Order(c).tool) = "cli" THEN Order(c).dev ELSE "day"
         /\ Path(c).bucket = Order(c).bucket /\ Path(c).dev = Order(c).dev
         /\ Path(c).at = arCall[c].at /\ Path(c).tmp = FALSE
         /\ IsPath(Tmp(Path(c))) /\ Tmp(Path(c)).store = Path(c).store /\ Tmp(Path(c)).dir = Path(c).dir
         /\ Tmp(Path(c)).bucket = Path(c).bucket /\ Tmp(Path(c)).dev = Path(c).dev
         /\ Tmp(Path(c)).at = Path(c).at /\ Tmp(Path(c)).tmp = TRUE
<1>1. IsPath(Path(c)) /\ Path(c).store = StoreOf(Order(c).tool)
      /\ Path(c).dir = (IF StoreOf(Order(c).tool) = "cli" THEN Order(c).dev ELSE "day")
      /\ Path(c).bucket = Order(c).bucket /\ Path(c).dev = Order(c).dev
      /\ Path(c).at = arCall[c].at /\ Path(c).tmp = FALSE
  BY DEF Path, PathOf, IsPath
<1>2. PICK p : p = Path(c)
  OBVIOUS
<1>3. IsPath(p)
  BY <1>1, <1>2
<1>4. IsPath(Tmp(p)) /\ Tmp(p).store = p.store /\ Tmp(p).dir = p.dir /\ Tmp(p).bucket = p.bucket
      /\ Tmp(p).dev = p.dev /\ Tmp(p).at = p.at /\ Tmp(p).tmp = TRUE
  <2>1. Tmp(p) = [store |-> p.store, dir |-> p.dir, bucket |-> p.bucket, dev |-> p.dev, at |-> p.at,
                  tmp |-> TRUE]
    BY <1>3, SetTmp DEF Tmp
  <2>2. PICK u : u = Tmp(p)
    OBVIOUS
  <2>3. IsPath(u) /\ u.store = p.store /\ u.dir = p.dir /\ u.bucket = p.bucket
        /\ u.dev = p.dev /\ u.at = p.at /\ u.tmp = TRUE
    BY <2>1, <2>2 DEF IsPath
  <2> QED
    BY <2>2, <2>3
<1> QED
  BY <1>1, <1>2, <1>4

\* Backups of one store, second, alias and bucket have one path.
LEMMA OnePath ==
  ASSUME NEW c, NEW d, Order(c).tool \in Backups, Order(d).tool \in Backups,
         Path(c).store = Path(d).store, Path(c).bucket = Path(d).bucket, Path(c).dev = Path(d).dev,
         Path(c).at = Path(d).at
  PROVE  Path(c) = Path(d) /\ Order(c).tool = Order(d).tool
<1>1. Order(c).tool = Order(d).tool
  BY PathIs DEF StoreOf, Backups
<1>2. PICK p, q : p = Path(c) /\ q = Path(d)
  OBVIOUS
<1>3. IsPath(p) /\ IsPath(q) /\ p.store = q.store /\ p.bucket = q.bucket /\ p.dev = q.dev /\ p.at = q.at
      /\ p.tmp = q.tmp /\ p.dir = q.dir
  BY <1>1, <1>2, PathIs
<1>4. p = q
  BY <1>3 DEF IsPath
<1> QED
  BY <1>1, <1>2, <1>4

\* What lies at a call's paths is its own, or another's of its name.
LEMMA AtMyPath ==
  ASSUME ArInv, NEW c \in Calls, Order(c).tool \in Backups, arCall[c].pc # "idle",
         NEW p \in DOMAIN disk, p = Path(c) \/ p = Tmp(Path(c))
  PROVE  LET e == disk[p] IN
         /\ e \in Calls /\ e \in ArCallers /\ arCall[e].inode = e
         /\ Order(e).tool = Order(c).tool /\ Path(e) = Path(c)
<1>1. PICK e : e = disk[p]
  OBVIOUS
<1>2. p.at = Path(c).at /\ p.store = Path(c).store /\ p.bucket = Path(c).bucket /\ p.dev = Path(c).dev
  BY PathIs
<1>3. p.at # 0
  <2>1. arCall[c].at \in 1..arNow /\ arNow \in Nat
    BY Begun DEF ArInv, WorldOK
  <2>2. Path(c).at = arCall[c].at
    BY PathIs
  <2> QED
    BY <1>2, <2>1, <2>2
<1>4. e \in ArCallers /\ Mine(e, p)
  BY <1>1, <1>3 DEF ArInv, DiskOK
<1>5. e \in Calls /\ arCall[e].inode = e /\ e # "none"
  BY <1>4, ArAssumption DEF Mine
<1>6. Order(e).tool \in Backups
  BY <1>5, Begun
<1>7. Path(e) = Path(c) /\ Order(e).tool = Order(c).tool
  BY <1>2, <1>4, <1>6, OnePath DEF Mine
<1> QED
  BY <1>1, <1>4, <1>5, <1>7

\* Two calls of one name share it.
LEMMA NamesMeet ==
  ASSUME ArInv, NEW c \in Calls, NEW d \in Calls, c # d, Order(c).tool = Order(d).tool,
         Path(c) = Path(d), arCall[d].pc # "idle"
  PROVE  Shared(c)
<1>1. Order(d).dev = Order(c).dev /\ Order(d).bucket = Order(c).bucket /\ arCall[d].at = arCall[c].at
  <2>1. Path(c).dev = Order(c).dev /\ Path(c).bucket = Order(c).bucket /\ Path(c).at = arCall[c].at
    BY PathIs
  <2>2. Path(d).dev = Order(d).dev /\ Path(d).bucket = Order(d).bucket /\ Path(d).at = arCall[d].at
    BY PathIs
  <2> QED
    BY <2>1, <2>2
<1>2. d \in DOMAIN arCall \ {c}
  BY Begun
<1> QED
  BY <1>1, <1>2 DEF Shared

\* A call opens the inode i at p, which is new or was another's of its name.
OpensAt(c, p, i) ==
  /\ i \in ArCallers
  /\ disk' = Put(disk, p, i)
  /\ data' = [data EXCEPT ![i] = Nothing]
  /\ \/ p \notin DOMAIN disk /\ i = c
     \/ p \in DOMAIN disk /\ i = disk[p] /\ i \in Calls \ {c} /\ arCall[i].inode = i
        /\ Order(i).tool = Order(c).tool /\ Path(i) = Path(c)

\* The inode that a call opens is new or another's of its name.
LEMMA OpenIs ==
  ASSUME ArInv, NEW c \in Calls, NEW p, Opened(c, p), WorldStays,
         \/ Order(c).tool = "backup" /\ arCall[c].pc = "upload" /\ p = Path(c)
         \/ Order(c).tool = "netconf_backup" /\ arCall[c].pc = "open" /\ p = Tmp(Path(c))
  PROVE  \E i : /\ OpensAt(c, p, i) /\ Order(c).tool \in Backups /\ arCall[c].inode = "none"
                /\ ArMoves(c, [arCall[c] EXCEPT !.inode = i, !.wire = "on", !.pc = "sending"])
<1>1. PICK i : i = IF p \in DOMAIN disk THEN disk[p] ELSE c
  OBVIOUS
<1>2. /\ disk' = Put(disk, p, i) /\ data' = [data EXCEPT ![i] = Nothing]
      /\ ArMoves(c, [arCall[c] EXCEPT !.inode = i, !.wire = "on", !.pc = "sending"])
  BY <1>1 DEF Opened
<1>3. Order(c).tool \in Backups
  BY DEF Backups
<1>4. arCall[c].inode = "none"
  <2>1. BackupOK(c, arCall[c])
    BY <1>3, AtWork
  <2> QED
    BY <2>1 DEF BackupOK
<1>5. CASE p \notin DOMAIN disk
  BY <1>1, <1>2, <1>3, <1>4, <1>5, Begun DEF OpensAt
<1>6. CASE p \in DOMAIN disk
  <2>1. i \in Calls /\ i \in ArCallers /\ arCall[i].inode = i /\ Order(i).tool = Order(c).tool
        /\ Path(i) = Path(c) /\ i = disk[p]
    BY <1>1, <1>3, <1>6, AtMyPath
  <2>2. i # c
    BY <1>4, <2>1, ArAssumption
  <2> QED
    BY <1>2, <1>3, <1>4, <1>6, <2>1, <2>2 DEF OpensAt
<1> QED
  BY <1>5, <1>6

\* Only p and i change, and i is of nobody of another name.
OnlyAt(c, p, i) ==
  /\ DOMAIN disk' = DOMAIN disk \cup {p} /\ disk'[p] = i
  /\ \A q \in DOMAIN disk \ {p} : disk'[q] = disk[q] /\ disk[q] # i
  /\ p \in DOMAIN disk => disk[p] = i
  /\ DOMAIN data' = DOMAIN data /\ data'[i] = Nothing /\ i \in DOMAIN data
  /\ \A j \in DOMAIN data \ {i} : data'[j] = data[j]
  /\ \A d \in Calls : arCall[d].inode = i => i \in Calls \ {c} /\ Order(d).tool = Order(c).tool /\ Path(d) = Path(c)

\* Nobody else's file is touched.
LEMMA OthersFiles ==
  ASSUME ArInv, NEW c \in Calls, NEW p, NEW i, OpensAt(c, p, i), arCall[c].inode = "none"
  PROVE  OnlyAt(c, p, i)
<1>1. /\ DOMAIN disk' = DOMAIN disk \cup {p} /\ disk'[p] = i
      /\ \A q \in DOMAIN disk \ {p} : disk'[q] = disk[q]
      /\ p \in DOMAIN disk => disk[p] = i
  BY DEF OpensAt, Put
<1>2. i \in DOMAIN data
  BY DEF OpensAt, ArInv, DataOK
<1>3. DOMAIN data' = DOMAIN data /\ data'[i] = Nothing /\ \A j \in DOMAIN data \ {i} : data'[j] = data[j]
  BY <1>2 DEF OpensAt
<1>4. ASSUME NEW q \in DOMAIN disk \ {p}, disk[q] = i
      PROVE  FALSE
  <2>1. CASE p \in DOMAIN disk
    BY <1>1, <1>4, <2>1 DEF ArInv, DiskOK
  <2>2. CASE p \notin DOMAIN disk
    <3>1. i = c /\ i \in ArCallers
      BY <2>2 DEF OpensAt
    <3>2. Mine(disk[q], q)
      BY <1>4, <3>1 DEF ArInv, DiskOK
    <3>3. arCall[c].inode = c
      BY <1>4, <3>1, <3>2 DEF Mine
    <3> QED
      BY <3>1, <3>3, ArAssumption
  <2> QED
    BY <2>1, <2>2
<1>5. ASSUME NEW d \in Calls, arCall[d].inode = i
      PROVE  i \in Calls \ {c} /\ Order(d).tool = Order(c).tool /\ Path(d) = Path(c)
  <2>1. i # "none"
    BY ArAssumption DEF OpensAt
  <2>2. arCall[i].inode = i /\ Order(i).tool = Order(d).tool /\ Path(i) = Path(d)
    BY <1>5, <2>1 DEF ArInv, RootOK
  <2>3. i # c
    BY <2>1, <2>2
  <2> QED
    BY <2>2, <2>3 DEF OpensAt
<1> QED
  BY <1>1, <1>2, <1>3, <1>4, <1>5 DEF OnlyAt

\* The record of a call that opens its file.
LEMMA OpenerIs ==
  ASSUME ArInv, NEW c \in Calls, NEW i
  PROVE  LET o == arCall[c]
         IN [o EXCEPT !.inode = i, !.wire = "on", !.pc = "sending"]
              = Rec("sending", o.at, o.since, o.box, i, "on", o.got, o.verdict, o.shown)
<1>1. PICK o : o = arCall[c]
  OBVIOUS
<1>2. IsCall(o)
  BY <1>1, AtWork
<1>3. PICK q : q = [o EXCEPT !.inode = i]
  OBVIOUS
<1>4. q = Rec(o.pc, o.at, o.since, o.box, i, o.wire, o.got, o.verdict, o.shown)
  BY <1>2, <1>3 DEF IsCall, Rec
<1>5. PICK u : u = [q EXCEPT !.wire = "on"]
  OBVIOUS
<1>6. u = Rec(o.pc, o.at, o.since, o.box, i, "on", o.got, o.verdict, o.shown)
  BY <1>4, <1>5 DEF Rec
<1>7. [u EXCEPT !.pc = "sending"] = Rec("sending", o.at, o.since, o.box, i, "on", o.got, o.verdict, o.shown)
  BY <1>6 DEF Rec
<1> QED
  BY <1>1, <1>3, <1>5, <1>7

\* The call that opens its file is right.
LEMMA OpenerOK ==
  ASSUME ArInv, NEW c \in Calls, NEW i, i # "none",
         \/ Order(c).tool = "backup" /\ arCall[c].pc = "upload"
         \/ Order(c).tool = "netconf_backup" /\ arCall[c].pc = "open"
  PROVE  LET o == arCall[c]
             r == Rec("sending", o.at, o.since, o.box, i, "on", o.got, o.verdict, o.shown)
         IN CallOK(c, r) /\ r.verdict # "ok"
<1> DEFINE o == arCall[c]
<1>1. PICK r : r = Rec("sending", o.at, o.since, o.box, i, "on", o.got, o.verdict, o.shown)
  OBVIOUS
<1>2. /\ r.pc = "sending" /\ r.at = o.at /\ r.since = o.since /\ r.box = o.box /\ r.inode = i
      /\ r.wire = "on" /\ r.got = o.got /\ r.verdict = o.verdict /\ IsCall(r)
  BY <1>1 DEF IsCall, Rec
<1>3. Order(c).tool \in Backups
  BY DEF Backups
<1>4. BackupOK(c, o) /\ CallOK(c, o) /\ Order(c).tool \notin Takers \cup Listers
  BY <1>3, AtWork
<1>5. r.verdict # "ok"
  BY <1>2, <1>4 DEF BackupOK
<1>6. BackupOK(c, r)
  BY <1>2, <1>4, <1>5 DEF BackupOK, Current
<1> QED
  BY <1>1, <1>2, <1>4, <1>5, <1>6 DEF CallOK

\* Opening a file keeps what is right of all.
LEMMA OpenKeeps ==
  ASSUME ArInv, NEW c \in Calls, NEW p, Opened(c, p), WorldStays, UNCHANGED flash,
         \/ /\ Order(c).tool = "backup" /\ arCall[c].pc = "upload" /\ p = Path(c)
            /\ OnFlash(c) \in DOMAIN flash
         \/ Order(c).tool = "netconf_backup" /\ arCall[c].pc = "open" /\ p = Tmp(Path(c))
  PROVE  ArInv'
<1> DEFINE o == arCall[c]
<1>1. PICK i : /\ OpensAt(c, p, i) /\ Order(c).tool \in Backups /\ arCall[c].inode = "none"
               /\ ArMoves(c, [arCall[c] EXCEPT !.inode = i, !.wire = "on", !.pc = "sending"])
  BY OpenIs
<1>2. PICK r : r = [arCall[c] EXCEPT !.inode = i, !.wire = "on", !.pc = "sending"]
  OBVIOUS
<1>3. ArMoves(c, r) /\ r = Rec("sending", o.at, o.since, o.box, i, "on", o.got, o.verdict, o.shown)
  <2>1. r = Rec("sending", o.at, o.since, o.box, i, "on", o.got, o.verdict, o.shown)
    BY <1>2, OpenerIs
  <2> QED
    BY <1>1, <1>2, <2>1
<1>4. /\ r.pc = "sending" /\ r.at = o.at /\ r.since = o.since /\ r.box = o.box /\ r.inode = i
      /\ r.wire = "on" /\ r.got = o.got /\ r.verdict = o.verdict /\ IsCall(r)
  BY <1>3 DEF IsCall, Rec
<1>5. i # "none" /\ i \in ArCallers
  BY <1>1, ArAssumption DEF OpensAt
<1>6. CallOK(c, r) /\ r.verdict # "ok"
  BY <1>3, <1>5, OpenerOK
<1>7. /\ arCall'[c] = r /\ \A d \in Calls \ {c} : arCall'[d] = arCall[d]
      /\ DOMAIN arCall' = Calls
  BY <1>3, OneMoves
<1>8. Forward /\ WorldOK' /\ Calls' = Calls /\ arSetting' = arSetting
  BY <1>1, <1>3, <1>4, MovesForward DEF WorldStays
<1>9. /\ DOMAIN disk' = DOMAIN disk \cup {p} /\ disk'[p] = i
      /\ \A q \in DOMAIN disk \ {p} : disk'[q] = disk[q] /\ disk[q] # i
      /\ p \in DOMAIN disk => disk[p] = i
      /\ DOMAIN data' = DOMAIN data /\ data'[i] = Nothing /\ i \in DOMAIN data
      /\ \A j \in DOMAIN data \ {i} : data'[j] = data[j]
      /\ \A d \in Calls : arCall[d].inode = i => i \in Calls \ {c} /\ Order(d).tool = Order(c).tool /\ Path(d) = Path(c)
  <2>1. OnlyAt(c, p, i)
    BY <1>1, OthersFiles
  <2> QED
    BY <2>1 DEF OnlyAt
<1>10. /\ \A d : Order(d)' = Order(d)
       /\ \A d \in Calls : arCall[d].pc # "idle" => Path(d)' = Path(d)
       /\ \A e, q : Mine(e, q) => Mine(e, q)'
       /\ \A d \in Calls : arCall[d].inode # "none" => RootOK(d)'
  BY <1>8, KeptNames DEF Forward
<1>11. arCall[c].pc # "idle" /\ Path(c)' = Path(c)
  BY <1>10
<1>12. /\ Placed(p) /\ p.store = Path(c).store /\ p.bucket = Path(c).bucket /\ p.dev = Path(c).dev
       /\ p.at = Path(c).at
  <2>1. Order(c).dev \in DOMAIN arSetting.boxes
    BY ArSettingIs DEF ArInv, WorldOK, Order, Calls
  <2>2. IsPath(p) /\ p.store = StoreOf(Order(c).tool) /\ p.bucket = Path(c).bucket /\ p.dev = Order(c).dev
        /\ p.at = Path(c).at /\ p.tmp = (Order(c).tool # "backup")
        /\ p.dir = (IF StoreOf(Order(c).tool) = "cli" THEN Order(c).dev ELSE "day")
    BY PathIs
  <2> QED
    BY <2>1, <2>2, PathIs DEF Placed, StoreOf
<1>13. DiskOK'
  <2>1. DiskOK
    BY DEF ArInv
  <2>2. \A q : Placed(q) => Placed(q)'
    BY <1>8 DEF Placed, IsPath
  <2>3. ASSUME NEW q \in DOMAIN disk'
        PROVE  Placed(q)' /\ disk'[q] \in DOMAIN data'
    BY <1>9, <1>12, <2>1, <2>2, <2>3 DEF DiskOK
  <2>4. ASSUME NEW q \in DOMAIN disk', NEW u \in DOMAIN disk', disk'[q] = disk'[u]
        PROVE  q = u
    BY <1>9, <2>1, <2>4 DEF DiskOK
  <2>5. ASSUME NEW q \in DOMAIN disk'
        PROVE  IF disk'[q] \in ArCallers THEN Mine(disk[q], q)' ELSE q.at = 0
    <3>1. CASE q # p
      <4>1. q \in DOMAIN disk /\ disk'[q] = disk[q]
        BY <1>9, <2>5, <3>1
      <4>2. IF disk[q] \in ArCallers THEN Mine(disk[q], q) ELSE q.at = 0
        BY <2>1, <4>1 DEF DiskOK
      <4>3. PICK e : e = disk[q]
        OBVIOUS
      <4>4. e \in ArCallers => Mine(e, q)'
        BY <1>10, <4>2, <4>3
      <4> QED
        BY <4>1, <4>2, <4>3, <4>4 DEF Mine
    <3>2. CASE q = p /\ i = c
      <4>1. Mine(c, p)'
        BY <1>4, <1>7, <1>8, <1>11, <1>12, <3>2 DEF Mine
      <4> QED
        BY <1>5, <1>9, <3>2, <4>1 DEF Mine
    <3>3. CASE q = p /\ i # c
      <4>1. p \in DOMAIN disk /\ disk[p] = i
        BY <1>1, <3>3 DEF OpensAt
      <4>2. Mine(disk[p], p)
        BY <1>5, <2>1, <4>1 DEF DiskOK
      <4>3. Mine(i, p)'
        BY <1>10, <4>1, <4>2
      <4> QED
        BY <1>5, <1>9, <3>3, <4>3 DEF Mine
    <3> QED
      BY <3>1, <3>2, <3>3
  <2> QED
    BY <2>3, <2>4, <2>5 DEF DiskOK
<1>14. DataOK'
  <2>1. DataOK
    BY DEF ArInv
  <2>2. ArCallers \subseteq DOMAIN data'
    BY <1>9, <2>1 DEF DataOK
  <2>3. ASSUME NEW j \in DOMAIN data'
        PROVE  IsData(data'[j]) /\ (j \notin ArCallers => data'[j].size = "whole")
    <3>1. CASE j = i
      BY <1>5, <1>9, <3>1 DEF IsData, Nothing
    <3>2. CASE j # i
      BY <1>9, <2>1, <2>3, <3>2 DEF DataOK
    <3> QED
      BY <3>1, <3>2
  <2>4. ASSUME arSetting.rebinds = 0, NEW q \in DOMAIN disk'
        PROVE  data'[disk'[q]].of \in {arSetting.boxes[q.dev], "none"}
    <3>1. CASE q = p
      BY <1>9, <3>1 DEF Nothing
    <3>2. CASE q # p
      <4>1. q \in DOMAIN disk /\ disk'[q] = disk[q] /\ disk[q] # i /\ disk[q] \in DOMAIN data
        BY <1>9, <2>4, <3>2 DEF ArInv, DiskOK
      <4> QED
        BY <1>9, <2>1, <2>4, <4>1 DEF DataOK
    <3> QED
      BY <3>1, <3>2
  <2> QED
    BY <1>8, <2>2, <2>3, <2>4 DEF DataOK, IsData
<1>15. FlashOK'
  <2>1. \A d \in Calls : Saved(d) => arCall'[d].box = arCall[d].box /\ arCall'[d].since = arCall[d].since
    BY <1>4, <1>7
  <2> QED
    BY <1>8, <2>1, OnwardFlash
<1>16. ASSUME NEW d \in Calls
       PROVE  CallOK(d, arCall[d])' /\ RootOK(d)' /\ WireOK(d)' /\ CopyOK(d)' /\ SendOK(d)'
  <2>1. CASE d = c
    <3>1. CallOK(c, r)'
      BY <1>6, <1>8, StillOK
    <3>2. RootOK(c)'
      <4>1. /\ i \in Calls /\ arCall'[i].inode = i /\ Order(i)'.tool = Order(c)'.tool /\ Path(i)' = Path(c)'
        <5>1. CASE i = c
          BY <1>4, <1>7, <5>1
        <5>2. CASE i # c
          <6>1. i \in Calls /\ arCall[i].inode = i /\ Order(i).tool = Order(c).tool /\ Path(i) = Path(c)
            BY <1>1, <5>2 DEF OpensAt
          <6>2. arCall[i].pc # "idle"
            BY <1>5, <6>1, Begun
          <6> QED
            BY <1>7, <1>10, <1>11, <5>2, <6>1, <6>2
        <5> QED
          BY <5>1, <5>2
      <4> QED
        BY <1>4, <1>7, <1>8, <4>1 DEF RootOK
    <3>3. WireOK(c)'
      BY <1>4, <1>7 DEF WireOK
    <3>4. CopyOK(c)'
      <4>1. SUFFICES ASSUME Order(c).tool = "netconf_backup"
                     PROVE  /\ Path(c) \in DOMAIN disk' => disk'[Path(c)] # i
                            /\ Tmp(Path(c)) \in DOMAIN disk' => disk'[Tmp(Path(c))] = i
        <5>1. Tmp(Path(c))' = Tmp(Path(c)) /\ arCall'[c].inode = i /\ arCall'[c].pc = "sending"
          BY <1>4, <1>7, <1>11 DEF Tmp
        <5> QED
          BY <1>10, <1>11, <5>1 DEF CopyOK
      <4>2. p = Tmp(Path(c))
        BY <4>1
      <4>3. Path(c) # p
        BY <4>2, PathIs
      <4> QED
        BY <1>9, <4>2, <4>3
    <3>5. SendOK(c)'
      <4>1. OnFlash(c)' = OnFlash(c) /\ (Order(c).tool = "backup" => OnFlash(c) \in DOMAIN flash)
        BY <1>4, <1>7, <1>10 DEF OnFlash
      <4> QED
        BY <1>10, <4>1 DEF SendOK
    <3> QED
      BY <1>7, <2>1, <3>1, <3>2, <3>3, <3>4, <3>5
  <2>2. CASE d # c
    <3>1. arCall'[d] = arCall[d] /\ Onward(d)
      BY <1>7, <2>2 DEF Onward
    <3>2. CallOK(d, arCall[d])'
      BY <1>8, <3>1, OthersOK
    <3>3. RootOK(d)'
      BY <1>10, <3>1 DEF RootOK
    <3>4. arCall[d].inode # "none" /\ arCall[d].inode # i => data'[arCall[d].inode] = data[arCall[d].inode]
      <4>1. SUFFICES ASSUME arCall[d].inode # "none"
                     PROVE  arCall[d].inode \in DOMAIN data
        BY <1>9
      <4>2. arCall[d].inode \in ArCallers
        BY <4>1, Begun DEF ArInv, RootOK
      <4> QED
        BY <4>2 DEF ArInv, DataOK
    <3>5. WireOK(d)'
      <4>1. CASE arCall[d].inode # i
        BY <1>8, <3>1, <3>4, <4>1, OnwardWire
      <4>2. CASE arCall[d].inode = i
        <5>1. Order(d).tool = Order(c).tool /\ Path(d) = Path(c) /\ arCall[d].pc # "idle"
          BY <1>5, <1>9, <4>2, Begun
        <5>2. Shared(d)
          BY <1>11, <2>2, <5>1, NamesMeet
        <5>3. Shared(d)'
          BY <1>8, <5>1, <5>2, KeptNames DEF Forward
        <5> QED
          BY <5>3 DEF WireOK
      <4> QED
        BY <4>1, <4>2
    <3>6. CopyOK(d)'
      <4>1. SUFFICES ASSUME Order(d).tool = "netconf_backup", arCall[d].pc \in {"sending", "rename"}, ~Twin(d)'
                     PROVE  CopyOK(d)'
        BY <1>10, <3>1 DEF CopyOK
      <4>2. Order(c).tool = "netconf_backup" => Path(c) # Path(d)
        <5>1. SUFFICES ASSUME Order(c).tool = "netconf_backup", Path(c) = Path(d)
                       PROVE  FALSE
          OBVIOUS
        <5>2. Path(c)' = Path(d)' /\ arCall'[c].inode # "none" /\ c \in (DOMAIN arCall)' \ {d}
          BY <1>4, <1>5, <1>7, <1>10, <1>11, <2>2, <4>1, <5>1
        <5> QED
          BY <1>10, <4>1, <5>1, <5>2 DEF Twin
      <4>3. arCall[d].inode # i
        BY <1>9, <4>1, <4>2
      <4>4. p # Path(d) /\ p # Tmp(Path(d))
        <5>1. CASE Order(c).tool = "backup"
          BY <4>1, <5>1, PathIs DEF StoreOf
        <5>2. CASE Order(c).tool = "netconf_backup"
          <6>1. p = Tmp(Path(c))
            BY <5>2
          <6>2. p # Path(d)
            BY <6>1, PathIs
          <6>3. ASSUME p = Tmp(Path(d))
                PROVE  Path(c) = Path(d)
            <7>1. /\ Path(c).store = p.store /\ Path(c).bucket = p.bucket /\ Path(c).dev = p.dev /\ Path(c).at = p.at
              BY <6>1, PathIs
            <7>2. /\ Path(d).store = p.store /\ Path(d).bucket = p.bucket /\ Path(d).dev = p.dev /\ Path(d).at = p.at
              BY <6>3, PathIs
            <7> QED
              BY <1>1, <4>1, <7>1, <7>2, OnePath DEF Backups
          <6> QED
            BY <4>2, <5>2, <6>2, <6>3
        <5> QED
          BY <5>1, <5>2
      <4>5. PathStays(Path(d)) /\ PathStays(Tmp(Path(d)))
        BY <1>9, <4>4 DEF PathStays
      <4> QED
        BY <1>8, <3>1, <3>4, <4>3, <4>5, OnwardCopy
    <3> QED
      BY <1>8, <3>1, <3>2, <3>3, <3>5, <3>6, OnwardSend
  <2> QED
    BY <2>1, <2>2
<1> QED
  BY <1>8, <1>13, <1>14, <1>15, <1>16 DEF ArInv

\* The file a call writes to lies where the names of its writers lead.
LEMMA FileOf ==
  ASSUME ArInv, NEW c \in Calls, arCall[c].inode # "none"
  PROVE  LET i == arCall[c].inode IN
         /\ i \in Calls /\ i \in ArCallers /\ i \in DOMAIN data /\ arCall[i].inode = i
         /\ Order(i).tool = Order(c).tool /\ Path(i) = Path(c)
         /\ Order(c).tool \in Backups /\ arCall[c].pc # "idle"
         /\ \A p \in DOMAIN disk : disk[p] = i => p.dev = Order(c).dev
         /\ \A d \in Calls \ {c} : arCall[d].inode = i =>
              /\ Order(d).tool = Order(c).tool /\ Path(d) = Path(c) /\ arCall[d].pc # "idle"
<1>1. PICK i : i = arCall[c].inode
  OBVIOUS
<1>2. i \in Calls /\ i \in ArCallers /\ i \in DOMAIN data /\ arCall[i].inode = i
      /\ Order(i).tool = Order(c).tool /\ Path(i) = Path(c)
  BY <1>1, Begun DEF ArInv, RootOK, DataOK
<1>3. Order(c).tool \in Backups /\ arCall[c].pc # "idle"
  BY Begun
<1>4. ASSUME NEW p \in DOMAIN disk, disk[p] = i
      PROVE  p.dev = Order(c).dev
  <2>1. Mine(i, p)
    BY <1>2, <1>4 DEF ArInv, DiskOK
  <2> QED
    BY <1>2, <2>1, PathIs DEF Mine
<1>5. ASSUME NEW d \in Calls \ {c}, arCall[d].inode = i
      PROVE  Order(d).tool = Order(c).tool /\ Path(d) = Path(c) /\ arCall[d].pc # "idle"
  <2>1. arCall[d].inode # "none"
    BY <1>1, <1>5
  <2> QED
    BY <1>2, <1>5, <2>1, Begun DEF ArInv, RootOK
<1> QED
  BY <1>1, <1>2, <1>3, <1>4, <1>5

\* A call writes x into its file, and goes on to r.
Writes(c, r, x) ==
  /\ ArMoves(c, r) /\ WorldStays /\ UNCHANGED <<flash, disk>>
  /\ data' = [data EXCEPT ![arCall[c].inode] = x]
  /\ arCall[c].wire = "on" /\ arCall[c].inode # "none"
  /\ CallOK(c, r) /\ r.inode = arCall[c].inode /\ r.wire # "on" /\ r.box = arCall[c].box
  /\ r.since = arCall[c].since /\ r.at = arCall[c].at /\ r.pc \notin {"idle", "lock", "save"}
  /\ r.verdict # "ok" \/ arCall[c].pc # "idle"
  /\ IsData(x) /\ (arSetting.rebinds = 0 => x.of \in {arSetting.boxes[Order(c).dev], "none"})
  /\ ~Shared(c) => Current(r, x) /\ (r.wire = "done" => x.size = "whole")
  /\ Order(c).tool = "netconf_backup" /\ r.pc \in {"sending", "rename"} =>
       arCall[c].pc = "sending" /\ (r.pc = "rename" => x.size = "whole")

\* Writing keeps what is right of all.
LEMMA WriteKeeps ==
  ASSUME ArInv, NEW c \in Calls, NEW r, NEW x, Writes(c, r, x)
  PROVE  ArInv'
<1>1. PICK i : i = arCall[c].inode
  OBVIOUS
<1>2. /\ i # "none" /\ data' = [data EXCEPT ![i] = x] /\ disk' = disk /\ flash' = flash /\ WorldStays
      /\ ArMoves(c, r)
  BY <1>1 DEF Writes
<1>3. /\ i \in Calls /\ i \in ArCallers /\ i \in DOMAIN data /\ arCall[i].inode = i
      /\ Order(c).tool \in Backups /\ arCall[c].pc # "idle"
      /\ \A p \in DOMAIN disk : disk[p] = i => p.dev = Order(c).dev
      /\ \A d \in Calls \ {c} : arCall[d].inode = i =>
           /\ Order(d).tool = Order(c).tool /\ Path(d) = Path(c) /\ arCall[d].pc # "idle"
  BY <1>1, <1>2, FileOf
<1>4. /\ DOMAIN data' = DOMAIN data /\ data'[i] = x /\ \A j \in DOMAIN data \ {i} : data'[j] = data[j]
  BY <1>2, <1>3
<1>5. /\ arCall'[c] = r /\ \A d \in Calls \ {c} : arCall'[d] = arCall[d]
      /\ DOMAIN arCall' = Calls
  BY <1>2, OneMoves
<1>6. Forward /\ WorldOK' /\ Calls' = Calls /\ arSetting' = arSetting
  BY <1>2, MovesForward DEF Writes, WorldStays
<1>7. /\ \A d : Order(d)' = Order(d)
      /\ \A d \in Calls : arCall[d].pc # "idle" => Path(d)' = Path(d)
      /\ \A d \in Calls : arCall[d].pc # "idle" /\ Shared(d) => Shared(d)'
      /\ \A d \in Calls : arCall[d].pc # "idle" /\ Twin(d) => Twin(d)'
      /\ \A e, q : Mine(e, q) => Mine(e, q)'
      /\ \A d \in Calls : arCall[d].inode # "none" => RootOK(d)'
  BY <1>6, KeptNames DEF Forward
<1>8. DiskOK'
  <2>1. DiskOK
    BY DEF ArInv
  <2>2. \A q : Placed(q) => Placed(q)'
    BY <1>6 DEF Placed, IsPath
  <2>3. ASSUME NEW q \in DOMAIN disk
        PROVE  IF disk'[q] \in ArCallers THEN Mine(disk[q], q)' ELSE q.at = 0
    <3>1. PICK e : e = disk[q]
      OBVIOUS
    <3>2. e \in ArCallers => Mine(e, q)'
      BY <1>7, <2>1, <3>1 DEF DiskOK
    <3>3. disk'[q] = e
      BY <1>2, <3>1
    <3> QED
      BY <2>1, <3>1, <3>2, <3>3 DEF DiskOK, Mine
  <2> QED
    BY <1>2, <1>4, <2>1, <2>2, <2>3 DEF DiskOK
<1>9. DataOK'
  <2>1. DataOK
    BY DEF ArInv
  <2>2. ArCallers \subseteq DOMAIN data'
    BY <1>4, <2>1 DEF DataOK
  <2>3. ASSUME NEW j \in DOMAIN data'
        PROVE  IsData(data'[j]) /\ (j \notin ArCallers => data'[j].size = "whole")
    <3>1. CASE j = i
      BY <1>3, <1>4, <3>1 DEF Writes
    <3>2. CASE j # i
      BY <1>4, <2>1, <2>3, <3>2 DEF DataOK
    <3> QED
      BY <3>1, <3>2
  <2>4. ASSUME arSetting.rebinds = 0, NEW q \in DOMAIN disk
        PROVE  data'[disk[q]].of \in {arSetting.boxes[q.dev], "none"}
    <3>1. CASE disk[q] = i
      BY <1>3, <1>4, <2>4, <3>1 DEF Writes
    <3>2. CASE disk[q] # i
      <4>1. disk[q] \in DOMAIN data
        BY <2>4 DEF ArInv, DiskOK
      <4> QED
        BY <1>4, <2>1, <2>4, <3>2, <4>1 DEF DataOK
    <3> QED
      BY <3>1, <3>2
  <2> QED
    BY <1>2, <1>6, <2>2, <2>3, <2>4 DEF DataOK, IsData
<1>10. FlashOK'
  <2>1. \A d \in Calls : Saved(d) => arCall'[d].box = arCall[d].box /\ arCall'[d].since = arCall[d].since
    BY <1>5 DEF Writes
  <2> QED
    BY <1>2, <1>6, <2>1, OnwardFlash
<1>11. ASSUME NEW d \in Calls
       PROVE  CallOK(d, arCall[d])' /\ RootOK(d)' /\ WireOK(d)' /\ CopyOK(d)' /\ SendOK(d)'
  <2>1. CASE d = c
    <3>1. CallOK(c, r)'
      BY <1>3, <1>6, StillOK DEF Writes
    <3>2. RootOK(c)'
      BY <1>1, <1>2, <1>7
    <3>3. WireOK(c)'
      <4>1. SUFFICES ASSUME ~Shared(c)'
                     PROVE  Current(r, x) /\ (r.wire = "done" => x.size = "whole")
        BY <1>1, <1>4, <1>5 DEF WireOK, Current, Writes
      <4>2. ~Shared(c)
        BY <1>3, <1>7, <4>1
      <4> QED
        BY <4>2 DEF Writes
    <3>4. CopyOK(c)'
      <4>1. SUFFICES ASSUME Order(c).tool = "netconf_backup", r.pc \in {"sending", "rename"}, ~Twin(c)'
                     PROVE  /\ Path(c) \in DOMAIN disk => disk[Path(c)] # i
                            /\ Tmp(Path(c)) \in DOMAIN disk => /\ disk[Tmp(Path(c))] = i
                            /\ r.pc = "rename" => x.size = "whole"
        <5>1. Path(c)' = Path(c) /\ Tmp(Path(c))' = Tmp(Path(c)) /\ r.inode = i
          BY <1>1, <1>3, <1>7 DEF Tmp, Writes
        <5> QED
          BY <1>2, <1>4, <1>5, <1>7, <5>1 DEF CopyOK
      <4>2. ~Twin(c) /\ arCall[c].pc = "sending" /\ (r.pc = "rename" => x.size = "whole")
        BY <1>3, <1>7, <4>1 DEF Writes
      <4> QED
        BY <1>1, <4>1, <4>2 DEF ArInv, CopyOK
    <3>5. SendOK(c)'
      BY <1>5 DEF SendOK, Writes
    <3> QED
      BY <1>5, <2>1, <3>1, <3>2, <3>3, <3>4, <3>5
  <2>2. CASE d # c
    <3>1. arCall'[d] = arCall[d] /\ Onward(d)
      BY <1>5, <2>2 DEF Onward
    <3>2. CallOK(d, arCall[d])'
      BY <1>6, <3>1, OthersOK
    <3>3. RootOK(d)'
      BY <1>7, <3>1 DEF RootOK
    <3>4. SendOK(d)'
      BY <1>2, <1>6, <3>1, <3>2, OnwardSend
    <3>5. CASE arCall[d].inode = i
      <4>1. Order(d).tool = Order(c).tool /\ Path(d) = Path(c) /\ arCall[d].pc # "idle"
        BY <1>3, <2>2, <3>5
      <4>2. Shared(d)
        BY <1>3, <2>2, <4>1, NamesMeet
      <4>3. Order(d).tool = "netconf_backup" => Twin(d)
        BY <1>1, <1>2, <2>2, <4>1, Begun DEF Twin
      <4>4. Shared(d)' /\ (Order(d).tool = "netconf_backup" => Twin(d)')
        BY <1>7, <4>1, <4>2, <4>3
      <4> QED
        BY <1>7, <3>2, <3>3, <3>4, <4>4 DEF WireOK, CopyOK
    <3>6. CASE arCall[d].inode # i
      <4>1. arCall[d].inode # "none" => data'[arCall[d].inode] = data[arCall[d].inode]
        BY <1>4, <3>6, FileOf
      <4>2. PathStays(Path(d)) /\ PathStays(Tmp(Path(d)))
        BY <1>2 DEF PathStays
      <4> QED
        BY <1>6, <3>1, <3>2, <3>3, <3>4, <4>1, <4>2, OnwardWire, OnwardCopy
    <3> QED
      BY <3>5, <3>6
  <2> QED
    BY <2>1, <2>2
<1> QED
  BY <1>6, <1>8, <1>9, <1>10, <1>11 DEF ArInv

\* Data with another size.
LEMMA SetSize ==
  ASSUME NEW x, IsData(x), NEW size \in {"short", "part", "whole"}
  PROVE  LET y == [x EXCEPT !.size = size]
         IN y = [of |-> x.of, rev |-> x.rev, size |-> size] /\ IsData(y) /\ y.of = x.of /\ y.rev = x.rev
<1>1. PICK y : y = [x EXCEPT !.size = size]
  OBVIOUS
<1>2. y = [of |-> x.of, rev |-> x.rev, size |-> size]
  BY <1>1 DEF IsData
<1>3. IsData(y) /\ y.of = x.of /\ y.rev = x.rev
  BY <1>2 DEF IsData
<1> QED
  BY <1>1, <1>2, <1>3

\* The device has sent what it had, or a part of it.
LEMMA TransferKeeps ==
  ASSUME ArInv, NEW c \in Calls, Transfer(c)
  PROVE  ArInv'
<1> DEFINE o == arCall[c]
<1>1. arCall[c].wire = "on" /\ Order(c).tool = "backup" /\ UNCHANGED <<flash, disk>> /\ WorldStays
  BY DEF Transfer
<1>2. PICK new : new = Whole(o.box, flash[OnFlash(c)])
  OBVIOUS
<1>3. PICK how, size :
        /\ ArMoves(c, [arCall[c] EXCEPT !.wire = how])
        /\ data' = [data EXCEPT ![arCall[c].inode] = [new EXCEPT !.size = size]]
        /\ how \in {"done", "break", "mute"} /\ size \in {"short", "part", "whole"}
        /\ how = "done" /\ size # "whole" => \E d \in DOMAIN arCall \ {c} : arCall[d].inode = arCall[c].inode
  BY <1>2 DEF Transfer
<1>4. Order(c).tool \in Backups
  BY <1>1 DEF Backups
<1>5. BackupOK(c, o) /\ CallOK(c, o) /\ Order(c).tool \notin Takers \cup Listers /\ IsCall(o)
  BY <1>4, AtWork
<1>6. o.inode # "none" /\ o.verdict # "ok" /\ o.pc \notin {"idle", "lock", "save", "upload", "stat"}
  BY <1>1, <1>5, Begun DEF BackupOK
<1>7. OnFlash(c) \in DOMAIN flash /\ flash[OnFlash(c)] \in Nat
  BY <1>1 DEF ArInv, SendOK, FlashOK
<1>8. PICK x : x = [new EXCEPT !.size = size]
  OBVIOUS
<1>9. IsData(x) /\ x.of = o.box /\ x.rev = flash[OnFlash(c)] /\ x.size = size
  <2>1. IsData(new) /\ new.of = o.box /\ new.rev = flash[OnFlash(c)]
    BY <1>2 DEF Whole, IsData
  <2>2. x = [of |-> new.of, rev |-> new.rev, size |-> size] /\ IsData(x)
    BY <1>3, <1>8, <2>1, SetSize
  <2> QED
    BY <2>1, <2>2
<1>10. PICK r : r = [o EXCEPT !.wire = how]
  OBVIOUS
<1>11. /\ r.pc = o.pc /\ r.at = o.at /\ r.since = o.since /\ r.box = o.box /\ r.inode = o.inode
       /\ r.wire = how /\ r.got = o.got /\ r.verdict = o.verdict /\ IsCall(r)
  BY <1>5, <1>10 DEF IsCall, Rec
<1>12. CallOK(c, r)
  <2>1. BackupOK(c, r)
    BY <1>1, <1>3, <1>5, <1>6, <1>11 DEF BackupOK
  <2> QED
    BY <1>3, <1>4, <1>5, <1>6, <1>11, <2>1 DEF CallOK
<1>13. ASSUME ~Shared(c)
       PROVE  Current(r, x) /\ (r.wire = "done" => x.size = "whole")
  <2>1. flash[OnFlash(c)] >= o.since[o.box]
    BY <1>1, <1>6, <1>7, <1>13 DEF ArInv, FlashOK, Saved
  <2>2. ASSUME how = "done", size # "whole"
        PROVE  FALSE
    <3>1. PICK d \in Calls \ {c} : arCall[d].inode = arCall[c].inode
      BY <1>3, <2>2, Begun
    <3>2. Order(d).tool = Order(c).tool /\ Path(d) = Path(c) /\ arCall[d].pc # "idle"
      BY <1>6, <3>1, FileOf
    <3> QED
      BY <1>13, <3>1, <3>2, NamesMeet
  <2> QED
    BY <1>7, <1>9, <1>11, <2>1, <2>2 DEF Current
<1>14. arSetting.rebinds = 0 => x.of \in {arSetting.boxes[Order(c).dev], "none"}
  BY <1>5, <1>6, <1>9 DEF BackupOK
<1>15. Writes(c, r, x)
  BY <1>1, <1>3, <1>6, <1>8, <1>9, <1>10, <1>11, <1>12, <1>13, <1>14 DEF Writes
<1> QED
  BY <1>15, WriteKeeps

\* A NETCONF backup has written its .tmp, or as much of it as there was room for.
LEMMA WriteTmpKeeps ==
  ASSUME ArInv, NEW c \in Calls, WriteTmp(c)
  PROVE  ArInv'
<1> DEFINE o == arCall[c]
<1>1. o.pc = "sending" /\ Order(c).tool = "netconf_backup" /\ UNCHANGED <<flash, disk>> /\ WorldStays
  BY DEF WriteTmp
<1>2. Order(c).tool \in Backups
  BY <1>1 DEF Backups
<1>3. BackupOK(c, o) /\ CallOK(c, o) /\ Order(c).tool \notin Takers \cup Listers /\ IsCall(o)
  BY <1>2, AtWork
<1>4. /\ o.inode # "none" /\ o.wire = "on" /\ o.verdict # "ok" /\ o.got.size = "whole"
      /\ IsData(o.got) /\ Current(o, o.got) /\ o.box \in Boxes
      /\ arSetting.rebinds = 0 => o.box = arSetting.boxes[Order(c).dev]
  BY <1>1, <1>3 DEF BackupOK
<1>5. CASE /\ data' = [data EXCEPT ![arCall[c].inode] = arCall[c].got]
           /\ ArMoves(c, [arCall[c] EXCEPT !.pc = "rename", !.wire = "done"])
  <2>1. PICK r : r = [arCall[c] EXCEPT !.pc = "rename", !.wire = "done"]
    OBVIOUS
  <2>2. r = Rec("rename", o.at, o.since, o.box, o.inode, "done", o.got, o.verdict, o.shown)
    BY <1>3, <2>1, SetPcWire
  <2>3. /\ r.pc = "rename" /\ r.at = o.at /\ r.since = o.since /\ r.box = o.box /\ r.inode = o.inode
        /\ r.wire = "done" /\ r.got = o.got /\ r.verdict = o.verdict /\ IsCall(r)
    BY <2>2 DEF IsCall, Rec
  <2>4. BackupOK(c, r)
    BY <1>1, <1>3, <1>4, <2>3 DEF BackupOK
  <2>5. CallOK(c, r)
    BY <1>2, <1>3, <2>3, <2>4 DEF CallOK
  <2>6. Writes(c, r, o.got)
    BY <1>1, <1>4, <1>5, <2>1, <2>3, <2>5 DEF Writes, Current
  <2> QED
    BY <2>6, WriteKeeps
<1>6. ASSUME NEW size \in {"short", "part"}, ArMoves(c, [Ended(c, "error") EXCEPT !.wire = "break"]),
             data' = [data EXCEPT ![arCall[c].inode] = [arCall[c].got EXCEPT !.size = size]]
      PROVE  ArInv'
  <2>1. PICK r : r = [Ended(c, "error") EXCEPT !.wire = "break"]
    OBVIOUS
  <2>2. r = Rec("over", o.at, o.since, o.box, o.inode, "break", o.got, "error", o.shown)
    BY <1>3, <2>1, SetPcVerdictWire DEF Ended
  <2>3. /\ r.pc = "over" /\ r.at = o.at /\ r.since = o.since /\ r.box = o.box /\ r.inode = o.inode
        /\ r.wire = "break" /\ r.got = o.got /\ r.verdict = "error" /\ IsCall(r)
    BY <2>2 DEF IsCall, Rec
  <2>4. BackupOK(c, r)
    BY <1>1, <1>3, <1>4, <2>3 DEF BackupOK
  <2>5. CallOK(c, r)
    BY <1>2, <1>3, <2>3, <2>4 DEF CallOK
  <2>6. PICK x : x = [o.got EXCEPT !.size = size]
    OBVIOUS
  <2>7. IsData(x) /\ x.of = o.got.of /\ x.rev = o.got.rev
    BY <1>4, <2>6, SetSize
  <2>8. Writes(c, r, x)
    BY <1>1, <1>4, <1>6, <2>1, <2>3, <2>5, <2>6, <2>7 DEF Writes, Current
  <2> QED
    BY <2>8, WriteKeeps
<1> QED
  BY <1>5, <1>6 DEF WriteTmp

(***************************************************************************)
(* The actions of a call                                                    *)
(***************************************************************************)
\* A device that is asked to upload refuses, or opens the file.
LEMMA UploadKeeps ==
  ASSUME ArInv, NEW c \in Calls, Upload(c)
  PROVE  ArInv'
<1>1. arCall[c].pc = "upload" /\ UNCHANGED flash /\ WorldStays
  BY DEF Upload
<1>2. Order(c).tool = "backup"
  BY <1>1, AtWork
<1>3. CASE ArMoves(c, Ended(c, "error")) /\ UNCHANGED <<disk, data>>
  BY <1>1, <1>3, CallEnds
<1>4. CASE OnFlash(c) \in DOMAIN flash /\ Opened(c, Path(c))
  <2>1. PICK p : p = Path(c)
    OBVIOUS
  <2>2. Opened(c, p)
    BY <1>4, <2>1
  <2> QED
    BY <1>1, <1>2, <1>4, <2>1, <2>2, OpenKeeps
<1> QED
  BY <1>3, <1>4 DEF Upload

\* A NETCONF backup opens its .tmp.
LEMMA OpenTmpKeeps ==
  ASSUME ArInv, NEW c \in Calls, OpenTmp(c)
  PROVE  ArInv'
<1>1. arCall[c].pc = "open" /\ UNCHANGED flash /\ WorldStays
  BY DEF OpenTmp
<1>2. Order(c).tool = "netconf_backup"
  BY <1>1, AtWork
<1>3. PICK p : p = Tmp(Path(c))
  OBVIOUS
<1>4. Opened(c, p)
  BY <1>3 DEF OpenTmp
<1> QED
  BY <1>1, <1>2, <1>3, <1>4, OpenKeeps

\* The device's answer to an upload is read, or waited for in vain.
LEMMA ReplyKeeps ==
  ASSUME ArInv, NEW c \in Calls, Reply(c)
  PROVE  ArInv'
<1> DEFINE o == arCall[c]
<1>1. o.pc = "sending" /\ Order(c).tool = "backup" /\ WorldStays /\ UNCHANGED <<disk, data, flash>>
  BY DEF Reply, StoreStays
<1>2. CASE ArMoves(c, Ended(c, "timeout")) \/ ArMoves(c, Ended(c, "error"))
  BY <1>1, <1>2, CallEnds
<1>3. CASE o.wire \in {"done", "mute"} /\ ArStays(c, "stat")
  <2>1. PICK r : r = [o EXCEPT !.pc = "stat"]
    OBVIOUS
  <2>2. /\ r.pc = "stat" /\ r.at = o.at /\ r.since = o.since /\ r.box = o.box /\ r.inode = o.inode
        /\ r.wire = o.wire /\ r.got = o.got /\ r.verdict = o.verdict /\ IsCall(r)
    BY <2>1, StepIs
  <2>3. Order(c).tool \in Backups
    BY <1>1 DEF Backups
  <2>4. BackupOK(c, o) /\ CallOK(c, o) /\ Order(c).tool \notin Takers \cup Listers
    BY <2>3, AtWork
  <2>5. BackupOK(c, r)
    BY <1>1, <1>3, <2>2, <2>4 DEF BackupOK
  <2>6. CallOK(c, r) /\ Goes(c, r)
    BY <1>1, <2>2, <2>3, <2>4, <2>5 DEF CallOK, Goes
  <2>7. ArMoves(c, r)
    BY <1>3, <2>1 DEF ArStays
  <2> QED
    BY <1>1, <2>6, <2>7, CallMoves
<1> QED
  BY <1>2, <1>3 DEF Reply

\* The transport breaks under a backup: it is given up, to be tried again or
\* with an error.
LEMMA TransportBreaksKeeps ==
  ASSUME ArInv, NEW c \in Calls, TransportBreaks(c)
  PROVE  ArInv'
<1> DEFINE o == arCall[c]
<1>1. /\ o.pc \in {"upload", "sending"} /\ Order(c).tool = "backup"
      /\ WorldStays /\ UNCHANGED <<disk, data, flash>>
  BY DEF TransportBreaks, StoreStays
<1>2. CASE ArMoves(c, Ended(c, "error"))
  BY <1>1, <1>2, CallEnds
<1>3. CASE ArStays(c, "again")
  <2>1. PICK r : r = [o EXCEPT !.pc = "again"]
    OBVIOUS
  <2>2. /\ r.pc = "again" /\ r.at = o.at /\ r.since = o.since /\ r.box = o.box /\ r.inode = o.inode
        /\ r.wire = o.wire /\ r.got = o.got /\ r.verdict = o.verdict /\ IsCall(r)
    BY <2>1, StepIs
  <2>3. Order(c).tool \in Backups
    BY <1>1 DEF Backups
  <2>4. BackupOK(c, o) /\ CallOK(c, o) /\ Order(c).tool \notin Takers \cup Listers
    BY <2>3, AtWork
  <2>5. BackupOK(c, r)
    BY <1>1, <2>2, <2>4 DEF BackupOK
  <2>6. CallOK(c, r) /\ Goes(c, r)
    BY <1>1, <2>2, <2>3, <2>4, <2>5 DEF CallOK, Goes
  <2>7. ArMoves(c, r)
    BY <1>3, <2>1 DEF ArStays
  <2> QED
    BY <1>1, <2>6, <2>7, CallMoves
<1> QED
  BY <1>2, <1>3 DEF TransportBreaks

\* Its second try begins where the first one did.
LEMMA TryAgainKeeps ==
  ASSUME ArInv, NEW c \in Calls, TryAgain(c)
  PROVE  ArInv'
<1> DEFINE e == arSetting.again[c]
           first == arCall[e]
           r == [arCall[c] EXCEPT !.pc = "save", !.at = first.at, !.since = first.since]
<1>1. /\ arCall[c].pc = "idle" /\ c \in DOMAIN arSetting.again /\ first.pc = "again"
      /\ ArMoves(c, r) /\ WorldStays /\ UNCHANGED <<disk, data, flash>>
  BY DEF TryAgain, StoreStays
<1>2. e \in Calls /\ Order(c).tool = "backup" /\ Order(c).tool \in Backups
  BY <1>1, ArSettingIs DEF ArInv, WorldOK, Calls, Order, Backups
<1>3. /\ first.at \in 1..arNow /\ first.since \in [Boxes -> Nat]
      /\ \A b \in Boxes : first.since[b] <= revision[b]
  <2>1. CallOK(e, first) /\ Order(e).tool \in Backups \cup Takers \cup Listers
    BY <1>2, AtWork, Begun
  <2>2. Order(e).tool \in Backups
    BY <1>1, <2>1 DEF CallOK, TakerOK, ListerOK
  <2> QED
    BY <1>1, <2>1, <2>2 DEF CallOK, BackupOK
<1>4. arCall[c] = NoArCall
  BY <1>1, AtWork DEF CallOK
<1>5. r = Rec("save", first.at, first.since, "none", "none", "none", Nothing, "none", {})
  <2>1. arCall[c] = Rec("idle", 0, <<>>, "none", "none", "none", Nothing, "none", {})
    BY <1>4 DEF NoArCall, Rec
  <2>2. r = Rec("save", first.at, first.since, arCall[c].box, arCall[c].inode, arCall[c].wire,
                arCall[c].got, arCall[c].verdict, arCall[c].shown)
    BY SetPcAtSince, Begun
  <2>3. /\ arCall[c].box = "none" /\ arCall[c].inode = "none" /\ arCall[c].wire = "none"
        /\ arCall[c].got = Nothing /\ arCall[c].verdict = "none" /\ arCall[c].shown = {}
    BY <2>1 DEF Rec
  <2> QED
    BY <2>2, <2>3
<1> HIDE DEF r
<1>6. /\ r.pc = "save" /\ r.at = first.at /\ r.since = first.since /\ r.inode = "none"
      /\ r.wire = "none" /\ r.verdict = "none" /\ IsCall(r)
  BY <1>5 DEF IsCall, Rec
<1> HIDE DEF first
<1>7. BackupOK(c, r)
  BY <1>2, <1>3, <1>6 DEF BackupOK
<1>8. CallOK(c, r)
  BY <1>2, <1>6, <1>7, AtWork DEF CallOK
<1>9. Goes(c, r)
  BY <1>1, <1>4, <1>6 DEF Goes, NoArCall, Saved
<1> QED
  BY <1>1, <1>8, <1>9, CallMoves

\* What a call that shared its name with nobody finds there is its own file.
LEMMA FindsItsOwn ==
  ASSUME ArInv, NEW c \in Calls, arCall[c].inode # "none", ~Shared(c), Path(c) \in DOMAIN disk
  PROVE  disk[Path(c)] = arCall[c].inode
<1>1. PICK p : p = Path(c)
  OBVIOUS
<1>2. PICK e : e = disk[p]
  OBVIOUS
<1>3. PICK i : i = arCall[c].inode
  OBVIOUS
<1>4. Order(c).tool \in Backups /\ arCall[c].pc # "idle"
  BY FileOf
<1>5. e \in Calls /\ e \in ArCallers /\ arCall[e].inode = e /\ Order(e).tool = Order(c).tool /\ Path(e) = Path(c)
  BY <1>1, <1>2, <1>4, AtMyPath
<1>6. i \in Calls /\ arCall[i].inode = i /\ Order(i).tool = Order(c).tool /\ Path(i) = Path(c) /\ i # "none"
  BY <1>3, FileOf
<1>7. e # "none"
  BY <1>5, ArAssumption
<1>8. arCall[e].pc # "idle" /\ arCall[i].pc # "idle"
  BY <1>5, <1>6, <1>7, Begun
<1>9. e = c /\ i = c
  BY <1>5, <1>6, <1>8, NamesMeet
<1> QED
  BY <1>1, <1>2, <1>3, <1>9

\* The stat of the file ends a backup.
LEMMA StatFileKeeps ==
  ASSUME ArInv, NEW c \in Calls, StatFile(c)
  PROVE  ArInv'
<1> DEFINE o == arCall[c]
<1>1. o.pc = "stat" /\ WorldStays /\ UNCHANGED <<disk, data, flash>>
  BY DEF StatFile, StoreStays
<1>2. Order(c).tool \in Backups
  BY <1>1, AtWork
<1>3. BackupOK(c, o) /\ CallOK(c, o) /\ Order(c).tool \notin Takers \cup Listers /\ IsCall(o)
  BY <1>2, AtWork
<1>4. o.inode # "none" /\ o.wire \in {"done", "mute"}
  BY <1>1, <1>3 DEF BackupOK
<1>5. CASE ArMoves(c, Ended(c, "error"))
  BY <1>1, <1>5, CallEnds
<1>6. CASE /\ Path(c) \in DOMAIN disk /\ BigEnough(disk[Path(c)])
           /\ ArMoves(c, [Ended(c, "ok") EXCEPT !.got = data[disk[Path(c)]]])
  <2>1. PICK x : x = data[disk[Path(c)]]
    OBVIOUS
  <2>2. PICK r : r = [Ended(c, "ok") EXCEPT !.got = x]
    OBVIOUS
  <2>3. r = Rec("over", o.at, o.since, o.box, o.inode, o.wire, x, "ok", o.shown)
    BY <1>3, <2>2, SetPcVerdictGot DEF Ended
  <2>4. /\ r.pc = "over" /\ r.at = o.at /\ r.since = o.since /\ r.box = o.box /\ r.inode = o.inode
        /\ r.wire = o.wire /\ r.got = x /\ r.verdict = "ok" /\ IsCall(r)
    BY <2>3 DEF IsCall, Rec
  <2>5. x.size # "short"
    BY <1>6, <2>1 DEF BigEnough
  <2>6. ASSUME ~Shared(c)
        PROVE  x.of = o.box /\ x.rev >= o.since[x.of] /\ (o.wire # "mute" => x.size = "whole")
    <3>1. x = data[o.inode]
      BY <1>4, <1>6, <2>1, <2>6, FindsItsOwn
    <3>2. WireOK(c)
      BY DEF ArInv
    <3> QED
      BY <1>4, <2>6, <3>1, <3>2 DEF WireOK, Current
  <2>7. BackupOK(c, r)
    BY <1>1, <1>3, <1>4, <2>4, <2>5, <2>6 DEF BackupOK
  <2>8. CallOK(c, r) /\ Goes(c, r)
    BY <1>1, <1>2, <1>3, <2>4, <2>7 DEF CallOK, Goes
  <2>9. ArMoves(c, r)
    BY <1>6, <2>1, <2>2
  <2> QED
    BY <1>1, <2>8, <2>9, CallMoves
<1> QED
  BY <1>5, <1>6 DEF StatFile

\* The running configuration has been read and packed.
LEMMA PullConfigKeeps ==
  ASSUME ArInv, NEW c \in Calls, PullConfig(c)
  PROVE  ArInv'
<1> DEFINE o == arCall[c]
<1>1. o.pc = "pull" /\ WorldStays /\ UNCHANGED <<disk, data, flash>>
  BY DEF PullConfig, StoreStays
<1>2. Order(c).tool = "netconf_backup" /\ Order(c).tool \in Backups
  BY <1>1, AtWork DEF Backups
<1>3. BackupOK(c, o) /\ CallOK(c, o) /\ Order(c).tool \notin Takers \cup Listers /\ IsCall(o)
  BY <1>2, AtWork
<1>4. CASE ArMoves(c, Ended(c, "error"))
  BY <1>1, <1>4, CallEnds
<1>5. ASSUME NEW box, box = arBox[Order(c).dev],
             ArMoves(c, [arCall[c] EXCEPT !.pc = "open", !.box = box, !.got = Whole(box, revision[box])])
      PROVE  ArInv'
  <2>1. PICK x : x = Whole(box, revision[box])
    OBVIOUS
  <2>2. PICK r : r = [o EXCEPT !.pc = "open", !.box = box, !.got = x]
    OBVIOUS
  <2>3. r = Rec("open", o.at, o.since, box, o.inode, o.wire, x, o.verdict, o.shown)
    BY <1>3, <2>2, SetPcBoxGot
  <2>4. /\ r.pc = "open" /\ r.at = o.at /\ r.since = o.since /\ r.box = box /\ r.inode = o.inode
        /\ r.wire = o.wire /\ r.got = x /\ r.verdict = o.verdict /\ IsCall(r)
    BY <2>3 DEF IsCall, Rec
  <2>5. box \in Boxes /\ (arSetting.rebinds = 0 => box = arSetting.boxes[Order(c).dev])
    BY <1>5, Begun, ArSettingIs DEF ArInv, WorldOK, Order, Calls, Range
  <2>6. revision[box] \in Nat /\ revision[box] >= o.since[box]
    <3>1. revision[box] \in Nat /\ o.since[box] \in Nat /\ o.since[box] <= revision[box]
      BY <1>1, <1>3, <2>5 DEF BackupOK, ArInv, WorldOK
    <3> QED
      BY <3>1
  <2>7. IsData(x) /\ x.size = "whole" /\ Current(r, x)
    BY <2>1, <2>4, <2>6 DEF IsData, Whole, Current
  <2>8. BackupOK(c, r)
    BY <1>1, <1>2, <1>3, <2>4, <2>5, <2>7 DEF BackupOK
  <2>9. CallOK(c, r) /\ Goes(c, r)
    BY <1>1, <1>2, <1>3, <2>4, <2>8 DEF CallOK, Goes, BackupOK, Saved
  <2>10. ArMoves(c, r)
    BY <1>5, <2>1, <2>2
  <2> QED
    BY <1>1, <2>9, <2>10, CallMoves
<1> QED
  BY <1>4, <1>5 DEF PullConfig

\* A file renamed leaves those of other paths where they are.
LEMMA RenamedIs ==
  ASSUME NEW q, NEW u, q \in DOMAIN disk, disk' = Renamed(disk, q, u)
  PROVE  /\ DOMAIN disk' = (DOMAIN disk \ {q}) \cup {u} /\ disk'[u] = disk[q]
         /\ \A p \in DOMAIN disk \ {q, u} : disk'[p] = disk[p]
<1>1. PICK w : w = Without(disk, q)
  OBVIOUS
<1>2. DOMAIN w = DOMAIN disk \ {q} /\ \A p \in DOMAIN disk \ {q} : w[p] = disk[p]
  BY <1>1 DEF Without, Restrict
<1>3. disk' = Put(w, u, disk[q])
  BY <1>1 DEF Renamed
<1> QED
  BY <1>2, <1>3 DEF Put

\* A file gets another path of the same name, in the place of what was there.
LEMMA RenameKeeps ==
  ASSUME ArInv, Forward, WorldOK', UNCHANGED <<data, flash>>,
         NEW q \in DOMAIN disk, NEW u, disk' = Renamed(disk, q, u), Placed(u), u # q,
         u.store = q.store, u.bucket = q.bucket, u.dev = q.dev, u.at = q.at,
         \A c \in Calls : Onward(c) /\ CallOK(c, arCall[c])' /\ CopyOK(c)'
  PROVE  ArInv'
<1>1. /\ DOMAIN disk' = (DOMAIN disk \ {q}) \cup {u} /\ disk'[u] = disk[q]
      /\ \A p \in DOMAIN disk \ {q, u} : disk'[p] = disk[p]
  BY RenamedIs
<1>2. /\ Calls' = Calls /\ arSetting' = arSetting /\ \A d : Order(d)' = Order(d)
      /\ \A e, p : Mine(e, p) => Mine(e, p)'
      /\ \A d \in Calls : arCall[d].inode # "none" => RootOK(d)'
  BY KeptNames DEF Forward
<1>3. DiskOK'
  <2>1. DiskOK
    BY DEF ArInv
  <2>2. \A p : Placed(p) => Placed(p)'
    BY <1>2 DEF Placed, IsPath
  <2>3. ASSUME NEW p \in DOMAIN disk'
        PROVE  Placed(p)' /\ disk'[p] \in DOMAIN data
    BY <1>1, <2>1, <2>2, <2>3 DEF DiskOK
  <2>4. ASSUME NEW p \in DOMAIN disk', NEW v \in DOMAIN disk', disk'[p] = disk'[v]
        PROVE  p = v
    BY <1>1, <2>1, <2>4 DEF DiskOK
  <2>5. ASSUME NEW p \in DOMAIN disk'
        PROVE  IF disk'[p] \in ArCallers THEN Mine(disk[p], p)' ELSE p.at = 0
    <3>1. PICK e : e = disk'[p]
      OBVIOUS
    <3>2. IF e \in ArCallers THEN Mine(e, p) ELSE p.at = 0
      <4>1. CASE p = u
        <5>1. IF e \in ArCallers THEN Mine(e, q) ELSE q.at = 0
          BY <1>1, <2>1, <3>1, <4>1 DEF DiskOK
        <5> QED
          BY <4>1, <5>1 DEF Mine
      <4>2. CASE p # u
        BY <1>1, <2>1, <2>5, <3>1, <4>2 DEF DiskOK
      <4> QED
        BY <4>1, <4>2
    <3>3. e \in ArCallers => Mine(e, p)'
      BY <1>2, <3>2
    <3> QED
      BY <3>1, <3>2, <3>3 DEF Mine
  <2> QED
    BY <2>3, <2>4, <2>5 DEF DiskOK
<1>4. DataOK'
  <2>1. DataOK
    BY DEF ArInv
  <2>2. ASSUME arSetting.rebinds = 0, NEW p \in DOMAIN disk'
        PROVE  data[disk'[p]].of \in {arSetting.boxes[p.dev], "none"}
    BY <1>1, <2>1, <2>2 DEF DataOK
  <2> QED
    BY <1>2, <2>1, <2>2 DEF DataOK, IsData
<1>5. FlashOK'
  BY OnwardFlash DEF Onward
<1>6. ASSUME NEW d \in Calls
      PROVE  CallOK(d, arCall[d])' /\ RootOK(d)' /\ WireOK(d)' /\ CopyOK(d)' /\ SendOK(d)'
  <2>1. RootOK(d)'
    <3>1. CASE arCall[d].inode = "none"
      BY <3>1 DEF RootOK, Onward
    <3>2. CASE arCall[d].inode # "none"
      BY <1>2, <3>2
    <3> QED
      BY <3>1, <3>2
  <2> QED
    BY <2>1, OnwardWire, OnwardSend
<1> QED
  BY <1>2, <1>3, <1>4, <1>5, <1>6 DEF ArInv

\* The .tmp becomes the archive.
LEMMA RenameTmpKeeps ==
  ASSUME ArInv, NEW c \in Calls, RenameTmp(c)
  PROVE  ArInv'
<1> DEFINE o == arCall[c]
<1>1. o.pc = "rename" /\ WorldStays /\ UNCHANGED <<flash, data>>
  BY DEF RenameTmp
<1>2. Order(c).tool = "netconf_backup" /\ Order(c).tool \in Backups
  BY <1>1, AtWork DEF Backups
<1>3. BackupOK(c, o) /\ CallOK(c, o) /\ Order(c).tool \notin Takers \cup Listers
  BY <1>2, AtWork
<1>4. CASE UNCHANGED disk /\ ArMoves(c, Ended(c, "error"))
  BY <1>1, <1>4, CallEnds
<1>5. CASE /\ Tmp(Path(c)) \in DOMAIN disk /\ disk' = Renamed(disk, Tmp(Path(c)), Path(c))
           /\ ArStays(c, "stat")
  <2>1. PICK r : r = [o EXCEPT !.pc = "stat"]
    OBVIOUS
  <2>2. /\ r.pc = "stat" /\ r.at = o.at /\ r.since = o.since /\ r.box = o.box /\ r.inode = o.inode
        /\ r.wire = o.wire /\ r.got = o.got /\ r.verdict = o.verdict /\ IsCall(r)
    BY <2>1, StepIs
  <2>3. BackupOK(c, r) /\ o.inode # "none" /\ o.verdict # "ok"
    BY <1>1, <1>2, <1>3, <2>2 DEF BackupOK
  <2>4. CallOK(c, r) /\ Goes(c, r)
    BY <1>1, <1>2, <1>3, <2>2, <2>3 DEF CallOK, Goes
  <2>5. ArMoves(c, r)
    BY <1>5, <2>1 DEF ArStays
  <2>6. Forward /\ WorldOK' /\ Calls' = Calls
    BY <1>1, <2>4, <2>5, MovesForward DEF Goes
  <2>7. arCall'[c] = r /\ (\A d \in Calls \ {c} : arCall'[d] = arCall[d]) /\ DOMAIN arCall' = Calls
    BY <1>1, <2>5, OneMoves
  <2>8. PICK p, q : p = Path(c) /\ q = Tmp(Path(c))
    OBVIOUS
  <2>9. disk' = Renamed(disk, q, p) /\ q \in DOMAIN disk
    BY <1>5, <2>8
  <2>10. p # q /\ p.store = q.store /\ p.bucket = q.bucket /\ p.dev = q.dev /\ p.at = q.at
    BY <2>8, PathIs
  <2>11. Placed(p)
    <3>1. Order(c).dev \in DOMAIN arSetting.boxes
      BY ArSettingIs DEF ArInv, WorldOK, Order, Calls
    <3>2. IsPath(p) /\ p.store = StoreOf(Order(c).tool) /\ p.dev = Order(c).dev /\ p.tmp = FALSE
          /\ p.dir = (IF StoreOf(Order(c).tool) = "cli" THEN Order(c).dev ELSE "day")
      BY <2>8, PathIs
    <3> QED
      BY <1>2, <3>1, <3>2 DEF Placed, StoreOf
  <2>12. \A d : Order(d)' = Order(d)
    BY <2>6, KeptNames DEF Forward
  <2>13. ASSUME NEW d \in Calls
         PROVE  Onward(d) /\ CallOK(d, arCall[d])' /\ CopyOK(d)'
    <3>1. CASE d = c
      <4>1. CallOK(c, r)'
        BY <1>1, <2>4, <2>6, StillOK
      <4> QED
        BY <2>2, <2>7, <3>1, <4>1 DEF Onward, CopyOK
    <3>2. CASE d # c
      <4>1. arCall'[d] = arCall[d] /\ Onward(d)
        BY <2>7, <3>2 DEF Onward
      <4>2. CallOK(d, arCall[d])'
        BY <2>6, <4>1, OthersOK
      <4>3. CopyOK(d)'
        <5>1. SUFFICES ASSUME Order(d).tool = "netconf_backup", arCall[d].pc \in {"sending", "rename"}, ~Twin(d)'
                       PROVE  CopyOK(d)'
          BY <2>12, <4>1 DEF CopyOK
        <5>2. arCall[d].pc # "idle" /\ Order(d).tool \in Backups
          BY <5>1 DEF Backups
        <5>3. Path(d) # p
          <6>1. SUFFICES ASSUME Path(d) = p
                         PROVE  Twin(d)
            BY <2>6, <5>1, <5>2, KeptNames DEF Forward
          <6> QED
            BY <1>2, <2>3, <2>7, <2>8, <3>2, <6>1, Begun DEF Twin
        <5>4. Path(d) # q /\ Tmp(Path(d)) # p
          BY <2>8, PathIs
        <5>5. Tmp(Path(d)) # q
          <6>1. SUFFICES ASSUME Tmp(Path(d)) = q
                         PROVE  Path(d) = p
            BY <5>3
          <6>2. Path(c).store = q.store /\ Path(c).bucket = q.bucket /\ Path(c).dev = q.dev /\ Path(c).at = q.at
            BY <2>8, PathIs
          <6>3. Path(d).store = q.store /\ Path(d).bucket = q.bucket /\ Path(d).dev = q.dev /\ Path(d).at = q.at
            BY <6>1, PathIs
          <6> QED
            BY <1>2, <2>8, <5>2, <6>2, <6>3, OnePath
        <5>6. PathStays(Path(d)) /\ PathStays(Tmp(Path(d)))
          <6>1. \A v : v # p /\ v # q => PathStays(v)
            BY <2>9 DEF PathStays, Renamed, Put, Without, Restrict
          <6> QED
            BY <5>3, <5>4, <5>5, <6>1
        <5>7. data' = data
          BY <1>1
        <5> QED
          BY <2>6, <4>1, <5>6, <5>7, OnwardCopy
      <4> QED
        BY <4>1, <4>2, <4>3
    <3> QED
      BY <3>1, <3>2
  <2> QED
    BY <1>1, <2>6, <2>9, <2>10, <2>11, <2>13, RenameKeeps
<1> QED
  BY <1>4, <1>5 DEF RenameTmp

\* A file of the CLI store is moved to another folder by hand.
LEMMA MisplaceKeeps ==
  ASSUME ArInv, Misplace
  PROVE  ArInv'
<1>1. PICK q \in DOMAIN disk, d \in DOMAIN arBox :
        /\ q.store = "cli" /\ [q EXCEPT !.dir = d] \notin DOMAIN disk
        /\ disk' = Renamed(disk, q, [q EXCEPT !.dir = d])
  BY DEF Misplace
<1>2. UNCHANGED <<arSetting, arNow, arBox, revision, flash, data, arCall>>
      /\ budget' = [budget EXCEPT !["moves"] = @ - 1]
  BY DEF Misplace, Spend
<1>3. Placed(q) /\ q \in DOMAIN disk
  BY <1>1 DEF ArInv, DiskOK
<1>4. PICK u : u = [q EXCEPT !.dir = d]
  OBVIOUS
<1>5. u = [store |-> q.store, dir |-> d, bucket |-> q.bucket, dev |-> q.dev, at |-> q.at, tmp |-> q.tmp]
  BY <1>3, <1>4 DEF Placed, IsPath
<1>6. /\ IsPath(u) /\ u.store = q.store /\ u.bucket = q.bucket /\ u.dev = q.dev /\ u.at = q.at /\ u.tmp = q.tmp
      /\ u # q
  BY <1>1, <1>3, <1>4, <1>5 DEF IsPath
<1>7. Placed(u) /\ u.store = "cli"
  BY <1>1, <1>3, <1>6 DEF Placed
<1>8. WorldOK' /\ Calls' = Calls
  <2>1. WorldOK
    BY DEF ArInv
  <2>2. budget'.rebinds = budget.rebinds /\ DOMAIN budget' = DOMAIN budget
    BY <1>2 DEF ArInv, WorldOK
  <2> QED
    BY <1>2, <2>1, <2>2 DEF WorldOK, Boxes, Calls
<1>9. Forward
  <2>1. \A e \in Calls : Keeps(e)
    BY <1>2 DEF Keeps
  <2>2. \A b \in Boxes : revision[b] \in Nat
    BY DEF ArInv, WorldOK
  <2> QED
    BY <1>2, <2>1, <2>2, Begun DEF Forward, ArInv, WorldOK, Calls
<1>10. ASSUME NEW c \in Calls
       PROVE  Onward(c) /\ CallOK(c, arCall[c])' /\ CopyOK(c)'
  <2>1. arCall'[c] = arCall[c] /\ Onward(c)
    BY <1>2 DEF Onward
  <2>2. CallOK(c, arCall[c])'
    BY <1>9, <2>1, OthersOK
  <2>3. CopyOK(c)'
    <3>1. SUFFICES ASSUME Order(c).tool = "netconf_backup"
                   PROVE  CopyOK(c)'
      BY <1>2 DEF CopyOK, Order
    <3>2. Path(c).store = "nc" /\ Tmp(Path(c)).store = "nc"
      BY <3>1, PathIs DEF StoreOf
    <3>3. \A v : v.store = "nc" => PathStays(v)
      <4>1. \A v : v # u /\ v # q => PathStays(v)
        BY <1>1, <1>4 DEF PathStays, Renamed, Put, Without, Restrict
      <4> QED
        BY <1>1, <1>7, <4>1
    <3> QED
      BY <1>2, <1>9, <2>1, <3>2, <3>3, OnwardCopy
  <2> QED
    BY <2>1, <2>2, <2>3
<1> QED
  BY <1>1, <1>2, <1>3, <1>4, <1>6, <1>7, <1>8, <1>9, <1>10, RenameKeeps

\* A restore or a read finds its file.
LEMMA LookUpKeeps ==
  ASSUME ArInv, NEW c \in Calls, LookUp(c)
  PROVE  ArInv'
<1> DEFINE o == arCall[c]
<1>1. o.pc = "idle" /\ Order(c).tool \in Takers /\ WorldStays /\ UNCHANGED <<disk, data, flash>>
  BY DEF LookUp, StoreStays
<1>2. TakerOK(c, o) /\ CallOK(c, o) /\ Order(c).tool \notin Backups \cup Listers /\ IsCall(o)
  BY <1>1, AtWork
<1>3. PICK p \in Nameable(c) :
        ArMoves(c, IF Found(c, p) /\ Pinned(c, p)
                   THEN [arCall[c] EXCEPT !.pc = "take", !.shown = {p}]
                   ELSE Ended(c, "error"))
  BY DEF LookUp
<1>4. CASE ~(Found(c, p) /\ Pinned(c, p))
  <2>1. ArMoves(c, Ended(c, "error"))
    BY <1>3, <1>4
  <2> QED
    BY <1>1, <1>2, <2>1, CallEnds
<1>5. CASE Found(c, p) /\ Pinned(c, p)
  <2>1. PICK r : r = [o EXCEPT !.pc = "take", !.shown = {p}]
    OBVIOUS
  <2>2. r = Rec("take", o.at, o.since, o.box, o.inode, o.wire, o.got, o.verdict, {p})
    <3>1. PICK ps : ps = {p}
      OBVIOUS
    <3> QED
      BY <1>2, <2>1, <3>1, SetPcShown
  <2>3. /\ r.pc = "take" /\ r.at = o.at /\ r.since = o.since /\ r.box = o.box /\ r.inode = o.inode
        /\ r.wire = o.wire /\ r.got = o.got /\ r.verdict = o.verdict /\ r.shown = {p} /\ IsCall(r)
    BY <2>2 DEF IsCall, Rec
  <2>4. Placed(p) /\ p.store = StoreOf(Order(c).tool)
    BY <1>3 DEF Nameable, ArInv, DiskOK
  <2>5. TakerOK(c, r)
    BY <1>1, <1>2, <1>5, <2>3, <2>4 DEF TakerOK
  <2>6. CallOK(c, r) /\ Goes(c, r)
    BY <1>1, <1>2, <2>3, <2>5 DEF CallOK, Goes, Saved, TakerOK
  <2>7. ArMoves(c, r)
    BY <1>3, <1>5, <2>1
  <2> QED
    BY <1>1, <2>6, <2>7, CallMoves
<1> QED
  BY <1>4, <1>5

\* The record of a call that ends with a file or a list.
LEMMA EndsWith ==
  ASSUME ArInv, NEW c \in Calls, NEW x, NEW b
  PROVE  LET o == arCall[c]
         IN /\ [Ended(c, "ok") EXCEPT !.got = x, !.box = b]
                 = Rec("over", o.at, o.since, b, o.inode, o.wire, x, "ok", o.shown)
            /\ [Ended(c, "ok") EXCEPT !.shown = x]
                 = Rec("over", o.at, o.since, o.box, o.inode, o.wire, o.got, "ok", x)
<1> DEFINE o == arCall[c]
<1>1. IsCall(o)
  BY AtWork
<1>2. PICK pc : pc = "over"
  OBVIOUS
<1>3. PICK v : v = "ok"
  OBVIOUS
<1>4. PICK e : e = Ended(c, "ok")
  OBVIOUS
<1>5. e = Rec(pc, o.at, o.since, o.box, o.inode, o.wire, o.got, v, o.shown)
  <2>1. e = [o EXCEPT !.pc = pc, !.verdict = v]
    BY <1>2, <1>3, <1>4 DEF Ended
  <2> QED
    BY <1>1, <2>1, SetPcVerdict
<1>6. [e EXCEPT !.got = x, !.box = b] = Rec(pc, o.at, o.since, b, o.inode, o.wire, x, v, o.shown)
  <2>1. PICK q : q = [e EXCEPT !.got = x]
    OBVIOUS
  <2>2. q = Rec(pc, o.at, o.since, o.box, o.inode, o.wire, x, v, o.shown)
    BY <1>5, <2>1 DEF Rec
  <2>3. [q EXCEPT !.box = b] = Rec(pc, o.at, o.since, b, o.inode, o.wire, x, v, o.shown)
    BY <2>2 DEF Rec
  <2> QED
    BY <2>1, <2>3
<1>7. [e EXCEPT !.shown = x] = Rec(pc, o.at, o.since, o.box, o.inode, o.wire, o.got, v, x)
  BY <1>5 DEF Rec
<1> QED
  BY <1>2, <1>3, <1>4, <1>6, <1>7

\* And takes it.
LEMMA TakeFileKeeps ==
  ASSUME ArInv, NEW c \in Calls, TakeFile(c)
  PROVE  ArInv'
<1> DEFINE o == arCall[c]
<1>1. o.pc = "take" /\ WorldStays /\ UNCHANGED <<disk, data, flash>>
  BY DEF TakeFile, StoreStays
<1>2. TakerOK(c, o) /\ CallOK(c, o) /\ Order(c).tool \notin Backups \cup Listers /\ IsCall(o) /\ Order(c).tool \in Takers
  BY <1>1, AtWork
<1>3. PICK p \in o.shown :
        ArMoves(c, IF p \in DOMAIN disk /\ (p.store = "nc" => Readable(disk[p]))
                   THEN [Ended(c, "ok") EXCEPT !.got = data[disk[p]], !.box = arBox[Owner(c, p)]]
                   ELSE Ended(c, "error"))
  BY DEF TakeFile
<1>4. Placed(p) /\ Pinned(c, p) /\ p.store = StoreOf(Order(c).tool)
  BY <1>1, <1>2 DEF TakerOK
<1>5. CASE ~(p \in DOMAIN disk /\ (p.store = "nc" => Readable(disk[p])))
  <2>1. ArMoves(c, Ended(c, "error"))
    BY <1>3, <1>5
  <2> QED
    BY <1>1, <1>2, <2>1, CallEnds
<1>6. CASE p \in DOMAIN disk /\ (p.store = "nc" => Readable(disk[p]))
  <2>1. PICK x, b : x = data[disk[p]] /\ b = arBox[Owner(c, p)]
    OBVIOUS
  <2>2. PICK r : r = [Ended(c, "ok") EXCEPT !.got = x, !.box = b]
    OBVIOUS
  <2>3. r = Rec("over", o.at, o.since, b, o.inode, o.wire, x, "ok", o.shown)
    BY <2>2, EndsWith
  <2>4. /\ r.pc = "over" /\ r.at = o.at /\ r.since = o.since /\ r.box = b /\ r.inode = o.inode
        /\ r.wire = o.wire /\ r.got = x /\ r.verdict = "ok" /\ r.shown = o.shown /\ IsCall(r)
    BY <2>3 DEF IsCall, Rec
  <2>5. ASSUME arSetting.rebinds = 0
        PROVE  x.of \in {b, "none"}
    <3>1. b = arSetting.boxes[p.dev]
      BY <1>4, <2>1, <2>5 DEF Pinned, ArInv, WorldOK
    <3> QED
      BY <1>6, <2>1, <2>5, <3>1 DEF ArInv, DataOK
  <2>6. p.store = "nc" => x.size = "whole"
    BY <1>6, <2>1 DEF Readable
  <2>7. TakerOK(c, r)
    BY <1>1, <1>2, <1>4, <2>4, <2>5, <2>6 DEF TakerOK
  <2>8. CallOK(c, r) /\ Goes(c, r)
    BY <1>1, <1>2, <2>4, <2>7 DEF CallOK, Goes, Saved, TakerOK, Takers
  <2>9. ArMoves(c, r)
    BY <1>3, <1>6, <2>1, <2>2
  <2> QED
    BY <1>1, <2>8, <2>9, CallMoves
<1> QED
  BY <1>5, <1>6

\* A list ends with what it shows.
LEMMA ListKeeps ==
  ASSUME ArInv, NEW c \in Calls, NEW ps, arCall[c].pc = "idle", Order(c).tool \in Listers,
         \A p \in ps : Found(c, p) /\ Pinned(c, p),
         ArMoves(c, [Ended(c, "ok") EXCEPT !.shown = ps]), StoreStays, WorldStays
  PROVE  ArInv'
<1> DEFINE o == arCall[c]
<1>1. ListerOK(c, o) /\ CallOK(c, o) /\ Order(c).tool \notin Backups \cup Takers /\ IsCall(o)
  BY AtWork
<1>2. PICK r : r = [Ended(c, "ok") EXCEPT !.shown = ps]
  OBVIOUS
<1>3. r = Rec("over", o.at, o.since, o.box, o.inode, o.wire, o.got, "ok", ps)
  BY <1>2, EndsWith
<1>4. /\ r.pc = "over" /\ r.inode = o.inode /\ r.wire = o.wire /\ r.verdict = "ok" /\ r.shown = ps /\ IsCall(r)
  BY <1>3 DEF IsCall, Rec
<1>5. ListerOK(c, r)
  BY <1>1, <1>4 DEF ListerOK
<1>6. CallOK(c, r) /\ Goes(c, r)
  BY <1>1, <1>4, <1>5 DEF CallOK, Goes, Saved, ListerOK
<1>7. ArMoves(c, r)
  BY <1>2
<1> QED
  BY <1>6, <1>7, CallMoves DEF StoreStays

\* The lists of the two stores.
LEMMA ListsKeep ==
  ASSUME ArInv, NEW c \in Calls, ListBackups(c) \/ NetconfListBackups(c)
  PROVE  ArInv'
<1>1. CASE ListBackups(c)
  <2>1. arCall[c].pc = "idle" /\ Order(c).tool = "list" /\ StoreStays /\ WorldStays
        /\ ArMoves(c, [Ended(c, "ok") EXCEPT !.shown = CliListed(Order(c).dev)])
    BY <1>1 DEF ListBackups
  <2>2. PICK ps : ps = CliListed(Order(c).dev)
    OBVIOUS
  <2>3. \A p \in ps : Found(c, p) /\ Pinned(c, p)
    BY <2>1, <2>2 DEF CliListed, Found, Pinned, Owner
  <2> QED
    BY <2>1, <2>2, <2>3, ListKeeps DEF Listers
<1>2. CASE NetconfListBackups(c)
  <2>1. arCall[c].pc = "idle" /\ Order(c).tool = "netconf_list" /\ StoreStays /\ WorldStays
        /\ ArMoves(c, [Ended(c, "ok") EXCEPT !.shown = NcListed(Order(c).dev)])
    BY <1>2 DEF NetconfListBackups
  <2>2. PICK ps : ps = NcListed(Order(c).dev)
    OBVIOUS
  <2>3. \A p \in ps : Found(c, p) /\ Pinned(c, p)
    BY <2>1, <2>2 DEF NcListed, Found, Pinned, Owner
  <2> QED
    BY <2>1, <2>2, <2>3, ListKeeps DEF Listers
<1> QED
  BY <1>1, <1>2

\* The clock, configurations and the map of devices go their way.
LEMMA WorldMoves ==
  ASSUME ArInv, ArTick \/ ChangeConfig \/ Rebind
  PROVE  ArInv'
<1>1. UNCHANGED <<arSetting, flash, disk, data, arCall>>
  BY DEF ArTick, ChangeConfig, Rebind
<1>2. WorldOK
  BY DEF ArInv
<1>3. \A b \in Boxes : revision[b] \in Nat
  BY <1>2 DEF WorldOK
<1>4. /\ WorldOK' /\ Calls' = Calls
      /\ revision' \in [Boxes -> Nat] /\ \A b \in Boxes : revision[b] <= revision'[b]
      /\ arNow' \in Nat /\ arNow <= arNow'
  <2>1. CASE ArTick
    <3>1. UNCHANGED <<arBox, revision>> /\ arNow' = arNow + 1 /\ budget'.rebinds = budget.rebinds
          /\ DOMAIN budget' = DOMAIN budget
      BY <1>2, <2>1 DEF ArTick, Spend, WorldOK
    <3> QED
      BY <1>1, <1>2, <1>3, <3>1 DEF WorldOK, Boxes, Calls
  <2>2. CASE ChangeConfig
    <3>1. UNCHANGED <<arBox, arNow>> /\ budget'.rebinds = budget.rebinds /\ DOMAIN budget' = DOMAIN budget
      BY <1>2, <2>2 DEF ChangeConfig, Spend, WorldOK
    <3>2. PICK b \in Boxes : revision' = [revision EXCEPT ![b] = @ + 1]
      BY <2>2 DEF ChangeConfig, Boxes
    <3>3. revision' \in [Boxes -> Nat] /\ \A x \in Boxes : revision[x] <= revision'[x]
      BY <1>2, <1>3, <3>2 DEF WorldOK
    <3> QED
      BY <1>1, <1>2, <1>3, <3>1, <3>3 DEF WorldOK, Boxes, Calls
  <2>3. CASE Rebind
    <3>1. UNCHANGED <<arNow, revision>> /\ budget.rebinds > 0 /\ budget'.rebinds = budget.rebinds - 1
          /\ DOMAIN budget' = DOMAIN budget
      BY <1>2, <2>3 DEF Rebind, Spend, WorldOK
    <3>2. PICK d \in DOMAIN arBox, b \in Boxes : arBox' = [arBox EXCEPT ![d] = b]
      BY <2>3 DEF Rebind, Boxes
    <3>3. DOMAIN arBox' = DOMAIN arBox /\ Range(arBox') \subseteq Boxes
      BY <1>2, <3>2 DEF WorldOK, Range
    <3>4. budget'.rebinds \in 0..arSetting.rebinds /\ arSetting.rebinds # 0
      BY <1>2, <3>1, ArSettingIs DEF WorldOK
    <3> QED
      BY <1>1, <1>2, <1>3, <3>1, <3>3, <3>4 DEF WorldOK, Boxes, Calls
  <2> QED
    BY <2>1, <2>2, <2>3
<1>5. Forward
  BY <1>1, <1>2, <1>4 DEF Forward, Keeps, WorldOK, Calls
<1>6. \A c \in Calls : Onward(c) /\ CallOK(c, arCall[c])'
  <2>1. ASSUME NEW c \in Calls
        PROVE  Onward(c) /\ CallOK(c, arCall[c])'
    <3>1. arCall'[c] = arCall[c]
      BY <1>1
    <3> QED
      BY <1>5, <3>1, OthersOK DEF Onward
  <2> QED
    BY <2>1
<1> QED
  BY <1>1, <1>4, <1>5, <1>6, CallsMove

(***************************************************************************)
(* Every step                                                               *)
(***************************************************************************)
\* A process is killed.
LEMMA CrashKeeps ==
  ASSUME ArInv, ArCrash
  PROVE  ArInv'
<1>1. PICK pr :
        arCall' = [c \in DOMAIN arCall |->
            IF ArProcess[c] = pr /\ arCall[c].pc \notin {"idle", "over"} THEN Ended(c, "killed")
            ELSE arCall[c]]
  BY DEF ArCrash
<1>2. WorldStays /\ UNCHANGED <<disk, data, flash>>
  BY DEF ArCrash, StoreStays
<1>3. DOMAIN arCall = Calls
  BY DEF ArInv, WorldOK
<1>4. ASSUME NEW c \in Calls
      PROVE  \/ arCall'[c] = arCall[c]
             \/ arCall[c].pc # "idle" /\ arCall'[c] = Ended(c, "killed")
  BY <1>1, <1>3
<1>5. DOMAIN arCall' = Calls
  BY <1>1, <1>3
<1>6. ASSUME NEW c \in Calls
      PROVE  Keeps(c) /\ Onward(c)
  <2>1. CASE arCall'[c] = arCall[c]
    BY <2>1 DEF Keeps, Onward
  <2>2. CASE arCall[c].pc # "idle" /\ arCall'[c] = Ended(c, "killed")
    <3>1. PICK r : r = Ended(c, "killed")
      OBVIOUS
    <3>2. Goes(c, r) /\ r.pc = "over"
      BY <2>2, <3>1, EndedOK
    <3>3. arCall'[c] = r
      BY <2>2, <3>1
    <3> QED
      BY <2>2, <3>2, <3>3 DEF Keeps, Onward, Goes
  <2> QED
    BY <1>4, <2>1, <2>2
<1>7. Forward /\ WorldOK'
  BY <1>2, <1>5, <1>6, WorldStaysOK DEF Forward
<1>8. ASSUME NEW c \in Calls
      PROVE  CallOK(c, arCall[c])'
  <2>1. CASE arCall'[c] = arCall[c]
    BY <1>7, <2>1, OthersOK
  <2>2. CASE arCall[c].pc # "idle" /\ arCall'[c] = Ended(c, "killed")
    <3>1. PICK r : r = Ended(c, "killed")
      OBVIOUS
    <3>2. CallOK(c, r)
      BY <2>2, <3>1, EndedOK
    <3>3. CallOK(c, r)' /\ arCall'[c] = r
      BY <1>7, <2>2, <3>1, <3>2, StillOK
    <3> QED
      BY <3>3
  <2> QED
    BY <1>4, <2>1, <2>2
<1> QED
  BY <1>2, <1>6, <1>7, <1>8, CallsMove

\* The files that are there at first.
LEMMA OldFile ==
  ASSUME NEW s \in ArSettings, NEW p \in OldFiles(s)
  PROVE  /\ IsPath(p) /\ p.dev \in DOMAIN s.boxes /\ ~p.tmp /\ p.tmp \in BOOLEAN /\ p.at = 0
         /\ p.store \in {"cli", "nc"} /\ p.bucket = "root"
         /\ p.dir = IF p.store = "cli" THEN p.dev ELSE "day"
<1>1. PICK t \in Backups, d \in DOMAIN s.boxes : p = PathOf([tool |-> t, dev |-> d, bucket |-> "root"], 0)
  BY DEF OldFiles
<1>2. p = [store |-> StoreOf(t), dir |-> IF StoreOf(t) = "cli" THEN d ELSE "day",
           bucket |-> "root", dev |-> d, at |-> 0, tmp |-> FALSE]
  BY <1>1 DEF PathOf
<1>3. StoreOf(t) \in {"cli", "nc"}
  BY DEF StoreOf
<1> QED
  BY <1>2, <1>3 DEF IsPath

\* No call has begun: nothing is wrong.
LEMMA InitCalls ==
  ASSUME ArInit, NEW c \in Calls
  PROVE  CallOK(c, arCall[c]) /\ RootOK(c) /\ WireOK(c) /\ CopyOK(c) /\ SendOK(c)
<1>1. PICK r : r = arCall[c]
  OBVIOUS
<1>2. r = NoArCall /\ r = Rec("idle", 0, <<>>, "none", "none", "none", Nothing, "none", {})
  BY <1>1 DEF ArInit, Calls, NoArCall, Rec
<1>3. /\ r.pc = "idle" /\ r.inode = "none" /\ r.wire = "none" /\ r.verdict = "none" /\ r.shown = {}
      /\ IsCall(r)
  BY <1>2 DEF Rec, IsCall
<1>4. BackupOK(c, r) /\ TakerOK(c, r) /\ ListerOK(c, r)
  BY <1>3 DEF BackupOK, TakerOK, ListerOK
<1>5. CallOK(c, r)
  BY <1>2, <1>3, <1>4 DEF CallOK
<1> QED
  BY <1>1, <1>3, <1>5 DEF RootOK, WireOK, CopyOK, SendOK

\* At first all this holds.
LEMMA ArInvInit == ArInit => ArInv
<1> SUFFICES ASSUME ArInit
             PROVE  ArInv
  OBVIOUS
<1>1. PICK s \in ArSettings : s = arSetting
  BY DEF ArInit
<1>2. /\ DOMAIN s.orders = Calls /\ DOMAIN arCall = Calls /\ arBox = s.boxes
      /\ revision = [b \in Range(s.boxes) |-> 1] /\ s.rebinds \in Nat
      /\ budget = [ticks |-> s.ticks, changes |-> s.changes, rebinds |-> s.rebinds, moves |-> s.moves]
  BY <1>1, ArSettingIs DEF ArInit, Calls
<1>3. WorldOK
  <2>1. budget.rebinds = s.rebinds /\ "rebinds" \in DOMAIN budget
    BY <1>2
  <2>2. s.rebinds \in 0..s.rebinds
    BY <1>2
  <2> QED
    BY <1>1, <1>2, <2>1, <2>2 DEF WorldOK, Boxes, ArInit
<1>4. DOMAIN disk = OldFiles(s) /\ \A p \in OldFiles(s) : disk[p] = <<p.store, p.dev>>
  BY <1>1 DEF ArInit
<1>5. ASSUME NEW p \in DOMAIN disk
      PROVE  Placed(p) /\ p.at = 0 /\ disk[p] \notin ArCallers /\ disk[p] \in DOMAIN data
             /\ data[disk[p]] = Whole(s.boxes[p.dev], 0)
  <2>1. p \in OldFiles(s) /\ disk[p] = <<p.store, p.dev>>
    BY <1>4
  <2>2. Placed(p) /\ p.at = 0 /\ p.dev \in DOMAIN s.boxes /\ p.store \in {"cli", "nc"}
    BY <1>1, <2>1, OldFile DEF Placed
  <2>3. disk[p] \notin ArCallers
    BY <2>1, <2>2, ArSettingIs
  <2>4. disk[p] \in Range(disk)
    BY DEF Range
  <2>5. disk[p] \in DOMAIN data /\ data[disk[p]] = Whole(arBox[disk[p][2]], 0)
    BY <2>3, <2>4 DEF ArInit
  <2> QED
    BY <1>2, <2>1, <2>2, <2>3, <2>5
<1>6. DiskOK
  <2>1. ASSUME NEW p \in DOMAIN disk, NEW q \in DOMAIN disk, disk[p] = disk[q]
        PROVE  p = q
    <3>1. p.store = q.store /\ p.dev = q.dev
      BY <1>4, <2>1
    <3>2. /\ IsPath(p) /\ ~p.tmp /\ p.tmp \in BOOLEAN /\ p.at = 0 /\ p.bucket = "root"
          /\ p.dir = IF p.store = "cli" THEN p.dev ELSE "day"
      BY <1>4, OldFile
    <3>3. /\ IsPath(q) /\ ~q.tmp /\ q.tmp \in BOOLEAN /\ q.at = 0 /\ q.bucket = "root"
          /\ q.dir = IF q.store = "cli" THEN q.dev ELSE "day"
      BY <1>4, OldFile
    <3>4. p.tmp = q.tmp
      BY <3>2, <3>3
    <3>5. p.dir = q.dir /\ p.bucket = q.bucket /\ p.at = q.at
      BY <3>1, <3>2, <3>3
    <3> QED
      BY <3>1, <3>2, <3>3, <3>4, <3>5 DEF IsPath
  <2> QED
    BY <1>5, <2>1 DEF DiskOK
<1>7. DataOK
  <2>1. DOMAIN data = Range(disk) \cup ArCallers
    BY DEF ArInit
  <2>2. ASSUME NEW i \in DOMAIN data
        PROVE  IsData(data[i]) /\ (i \notin ArCallers => data[i].size = "whole")
    <3>1. data[i] = IF i \in ArCallers THEN Nothing ELSE Whole(arBox[i[2]], 0)
      BY <2>1, <2>2 DEF ArInit
    <3> QED
      BY <3>1 DEF Nothing, Whole, IsData
  <2>3. ASSUME NEW p \in DOMAIN disk
        PROVE  data[disk[p]].of \in {arSetting.boxes[p.dev], "none"}
    <3>1. data[disk[p]] = Whole(s.boxes[p.dev], 0)
      BY <1>5
    <3>2. data[disk[p]].of = s.boxes[p.dev]
      BY <3>1 DEF Whole
    <3> QED
      BY <1>1, <3>2
  <2> QED
    BY <2>1, <2>2, <2>3 DEF DataOK
<1>8. FlashOK
  <2>1. DOMAIN flash = {}
    BY DEF ArInit
  <2> QED
    BY <2>1 DEF FlashOK
<1> QED
  BY <1>3, <1>6, <1>7, <1>8, InitCalls DEF ArInv

\* A call's step keeps all this.
LEMMA StepKeeps ==
  ASSUME ArInv, NEW c \in Calls, ArStep(c)
  PROVE  ArInv'
<1>1. CASE MakeName(c) \/ TakeLock(c) \/ SaveOnBox(c) \/ Upload(c)
  BY <1>1, MakeNameKeeps, TakeLockKeeps, SaveOnBoxKeeps, UploadKeeps
<1>2. CASE Transfer(c) \/ Reply(c) \/ StatFile(c)
  BY <1>2, TransferKeeps, ReplyKeeps, StatFileKeeps
<1>3. CASE PullConfig(c) \/ OpenTmp(c) \/ WriteTmp(c) \/ RenameTmp(c)
  BY <1>3, PullConfigKeeps, OpenTmpKeeps, WriteTmpKeeps, RenameTmpKeeps
<1>4. CASE LookUp(c) \/ TakeFile(c) \/ ListBackups(c) \/ NetconfListBackups(c)
  BY <1>4, LookUpKeeps, TakeFileKeeps, ListsKeep
<1>5. CASE TransportBreaks(c) \/ TryAgain(c)
  BY <1>5, TransportBreaksKeeps, TryAgainKeeps
<1> QED
  BY <1>1, <1>2, <1>3, <1>4, <1>5 DEF ArStep

\* So does every step.
LEMMA ArInvNext == ArInv /\ [ArNext]_arVars => ArInv'
<1> SUFFICES ASSUME ArInv, [ArNext]_arVars
             PROVE  ArInv'
  OBVIOUS
<1>1. CASE ArNext
  <2>1. DOMAIN arCall = Calls
    BY DEF ArInv, WorldOK
  <2> QED
    BY <1>1, <2>1, StepKeeps, WorldMoves, MisplaceKeeps, CrashKeeps DEF ArNext
<1>2. CASE UNCHANGED arVars
  <2>1. /\ arSetting' = arSetting /\ arNow' = arNow /\ arBox' = arBox /\ revision' = revision
        /\ flash' = flash /\ disk' = disk /\ data' = data /\ arCall' = arCall /\ budget' = budget
    BY <1>2 DEF arVars
  <2>2. \A c : Order(c)' = Order(c) /\ Path(c)' = Path(c) /\ OnFlash(c)' = OnFlash(c)
    BY <2>1 DEF Order, Path, OnFlash
  <2>3. \A c : Shared(c)' = Shared(c)
    BY <2>1, <2>2 DEF Shared
  <2>4. \A c : Twin(c)' = Twin(c)
    BY <2>1, <2>2 DEF Twin
  <2>5. WorldOK' /\ DataOK' /\ DiskOK'
    BY <2>1, <2>2 DEF ArInv, WorldOK, DataOK, DiskOK, Boxes, Calls, Mine, Placed
  <2>6. FlashOK'
    BY <2>1, <2>2, <2>3 DEF ArInv, FlashOK, Saved, Calls
  <2>7. WorldStays /\ UNCHANGED <<disk, data, flash>> /\ DOMAIN arCall' = Calls
    BY <2>1 DEF WorldStays, ArInv, WorldOK
  <2>8. ASSUME NEW c \in Calls
        PROVE  Keeps(c) /\ Onward(c) /\ arCall'[c] = arCall[c]
    BY <2>1 DEF Keeps, Onward
  <2>9. Forward
    BY <2>7, <2>8, WorldStaysOK DEF Forward
  <2> QED
    BY <2>5, <2>7, <2>8, <2>9, OthersOK, CallsMove
<1> QED
  BY <1>1, <1>2

(***************************************************************************)
(* What the invariant says                                                  *)
(***************************************************************************)
\* Type correctness is one part of the invariant.
LEMMA ArInvTypes == ArInv => ArTypeOK
<1> SUFFICES ASSUME ArInv
             PROVE  ArTypeOK
  OBVIOUS
<1>1. arNow \in Nat /\ \A i \in DOMAIN data : data[i].size \in {"short", "part", "whole"}
  BY DEF ArInv, WorldOK, DataOK, IsData
<1>2. Range(disk) \subseteq DOMAIN data
  BY DEF ArInv, DiskOK, Range
<1>3. ASSUME NEW c \in DOMAIN arCall
      PROVE  /\ arCall[c].pc \in {"idle", "lock", "save", "upload", "sending", "again", "stat", "pull",
                                  "open", "rename", "take", "over"}
             /\ arCall[c].wire \in {"none", "on", "done", "break", "mute"}
             /\ arCall[c].verdict \in {"none", "ok", "error", "timeout", "connect_error", "killed"}
  <2>1. c \in Calls
    BY DEF ArInv, WorldOK
  <2>2. CallOK(c, arCall[c]) /\ Order(c).tool \in Backups \cup Takers \cup Listers
    BY <2>1, AtWork, Begun
  <2>3. Order(c).tool \in Backups \/ Order(c).tool \in Takers \/ Order(c).tool \in Listers
    BY <2>2
  <2> QED
    BY <2>2, <2>3 DEF CallOK, BackupOK, TakerOK, ListerOK
<1> QED
  BY <1>1, <1>2, <1>3 DEF ArTypeOK

\* The soundness of backups, restores and lists is another.
LEMMA ArInvSound == ArInv => BackupsAreSound
<1> SUFFICES ASSUME ArInv
             PROVE  BackupsAreSound
  OBVIOUS
<1>1. DOMAIN arCall = Calls
  BY DEF ArInv, WorldOK
<1>2. OkIsWhole
  BY <1>1, AtWork DEF OkIsWhole, BackupOK
<1>3. TakenIsItsOwn
  BY <1>1, AtWork DEF TakenIsItsOwn, TakerOK
<1>4. ListedIsTakeable
  BY <1>1, AtWork DEF ListedIsTakeable, ListerOK
<1> QED
  BY <1>2, <1>3, <1>4 DEF BackupsAreSound

\* Who takes a file takes what is on the disk, and no other call moves.
LEMMA TakeIs ==
  ASSUME ArInv, ArNext, NEW c \in Calls, arCall[c].pc = "take", arCall'[c].verdict = "ok"
  PROVE  TakeFile(c)
<1>1. /\ CallOK(c, arCall[c]) /\ IsCall(arCall[c]) /\ Order(c).tool \in Takers /\ TakerOK(c, arCall[c])
      /\ DOMAIN arCall = Calls
  BY AtWork DEF ArInv, WorldOK
<1>2. arCall[c].verdict # "ok" /\ arCall[c].wire = "none" /\ arCall[c].pc = "take"
  BY <1>1 DEF TakerOK
<1>3. ASSUME NEW d \in Calls, ArStep(d), d # c
      PROVE  FALSE
  <2>1. PICK r : ArMoves(d, r)
    BY <1>3 DEF ArStep, MakeName, TakeLock, SaveOnBox, Upload, Transfer, Reply, TransportBreaks, TryAgain, StatFile, PullConfig,
         OpenTmp, WriteTmp, RenameTmp, LookUp, TakeFile, ListBackups, NetconfListBackups, Opened, ArStays
  <2>2. arCall'[c] = arCall[c]
    BY <1>1, <1>3, <2>1 DEF ArMoves
  <2> QED
    BY <1>2, <2>2
<1>4. ASSUME ArTick \/ ChangeConfig \/ Rebind \/ Misplace
      PROVE  FALSE
  BY <1>2, <1>4 DEF ArTick, ChangeConfig, Rebind, Misplace
<1>5. ASSUME ArCrash
      PROVE  FALSE
  <2>1. arCall'[c] = arCall[c] \/ arCall'[c] = Ended(c, "killed")
    BY <1>1, <1>5 DEF ArCrash
  <2>2. PICK r : r = Ended(c, "killed")
    OBVIOUS
  <2>3. r.verdict = "killed"
    BY <1>1, <2>2, EndedOK, Kinds
  <2> QED
    BY <1>2, <2>1, <2>2, <2>3
<1>6. ArStep(c)
  BY <1>1, <1>3, <1>4, <1>5 DEF ArNext
<1> QED
  BY <1>2, <1>6, <1>1, Kinds DEF ArStep, MakeName, TakeLock, SaveOnBox, Upload, Transfer, Reply, TransportBreaks, TryAgain, StatFile,
       PullConfig, OpenTmp, WriteTmp, RenameTmp, LookUp, ListBackups, NetconfListBackups

\* What a call that ends with a file has taken.
LEMMA TakenIs ==
  ASSUME ArInv, NEW c \in Calls, NEW x, NEW b
  PROVE  [Ended(c, "ok") EXCEPT !.got = x, !.box = b].got = x
<1>1. PICK r : r = [Ended(c, "ok") EXCEPT !.got = x, !.box = b]
  OBVIOUS
<1>2. r = Rec("over", arCall[c].at, arCall[c].since, b, arCall[c].inode, arCall[c].wire, x, "ok",
              arCall[c].shown)
  BY <1>1, EndsWith
<1> QED
  BY <1>1, <1>2 DEF Rec

\* A file that a restore takes torn is of a backup that is not answered ok.
LEMMA TornStep == ArInv /\ ArNext => TornIsNotDone
<1> SUFFICES ASSUME ArInv, ArNext, NEW c \in DOMAIN arCall,
                    arCall[c].pc = "take", arCall'[c].verdict = "ok", arCall'[c].got.size # "whole",
                    NEW p \in arCall[c].shown
             PROVE  \E d \in DOMAIN arCall :
                      /\ Order(d).tool = "backup" /\ arCall[d].inode = disk[p]
                      /\ arCall[d].verdict = "ok" => Shared(d) \/ arCall[d].wire = "mute"
  BY DEF TornIsNotDone
<1> DEFINE o == arCall[c]
<1>1. c \in Calls /\ DOMAIN arCall = Calls
  BY DEF ArInv, WorldOK
<1>2. TakerOK(c, o) /\ IsCall(o) /\ Order(c).tool \in Takers /\ o.shown = {p}
      /\ p.store = StoreOf(Order(c).tool) /\ Placed(p)
  BY <1>1, AtWork DEF TakerOK
<1>3. TakeFile(c)
  BY <1>1, TakeIs
<1>4. ArMoves(c, IF p \in DOMAIN disk /\ (p.store = "nc" => Readable(disk[p]))
                 THEN [Ended(c, "ok") EXCEPT !.got = data[disk[p]], !.box = arBox[Owner(c, p)]]
                 ELSE Ended(c, "error"))
  BY <1>2, <1>3 DEF TakeFile
<1>5. p \in DOMAIN disk /\ (p.store = "nc" => Readable(disk[p]))
  <2>1. SUFFICES ASSUME ~(p \in DOMAIN disk /\ (p.store = "nc" => Readable(disk[p])))
                 PROVE  FALSE
    OBVIOUS
  <2>2. PICK r : r = Ended(c, "error")
    OBVIOUS
  <2>3. r.verdict = "error"
    BY <1>1, <1>2, <2>2, EndedOK, Kinds
  <2>4. ArMoves(c, r)
    BY <1>4, <2>1, <2>2
  <2> QED
    BY <1>1, <2>3, <2>4 DEF ArMoves
<1>6. o'.got = data[disk[p]]
  <2>1. PICK x, b : x = data[disk[p]] /\ b = arBox[Owner(c, p)]
    OBVIOUS
  <2>2. PICK r : r = [Ended(c, "ok") EXCEPT !.got = x, !.box = b]
    OBVIOUS
  <2>3. r.got = x
    BY <1>1, <2>2, TakenIs
  <2>4. ArMoves(c, r)
    BY <1>4, <1>5, <2>1, <2>2
  <2> QED
    BY <1>1, <2>1, <2>3, <2>4 DEF ArMoves
<1>7. PICK e : e = disk[p]
  OBVIOUS
<1>8. data[e].size # "whole" /\ p.store = "cli" /\ e \in DOMAIN data
  <2>1. data[e].size # "whole"
    BY <1>6, <1>7
  <2>2. p.store # "nc"
    BY <1>5, <1>7, <2>1 DEF Readable
  <2> QED
    BY <1>2, <1>5, <1>7, <2>1, <2>2 DEF ArInv, DiskOK, Placed
<1>9. Mine(e, p)
  BY <1>5, <1>7, <1>8 DEF ArInv, DiskOK, DataOK
<1>10. e \in Calls /\ arCall[e].inode = e /\ e # "none"
  BY <1>9, ArAssumption, Begun DEF Mine
<1>11. Order(e).tool = "backup"
  <2>1. Order(e).tool \in Backups
    BY <1>10, Begun
  <2>2. StoreOf(Order(e).tool) = "cli"
    BY <1>8, <1>9, PathIs DEF Mine
  <2> QED
    BY <2>1, <2>2 DEF Backups, StoreOf
<1>12. ASSUME arCall[e].verdict = "ok", ~Shared(e), arCall[e].wire # "mute"
       PROVE  FALSE
  <2>1. BackupOK(e, arCall[e])
    BY <1>10, <1>11, AtWork DEF Backups
  <2>2. arCall[e].wire = "done"
    BY <1>12, <2>1 DEF BackupOK
  <2>3. data[arCall[e].inode].size = "whole"
    BY <1>10, <1>12, <2>2 DEF ArInv, WireOK
  <2> QED
    BY <1>8, <1>10, <2>3
<1> QED
  BY <1>1, <1>7, <1>10, <1>11, <1>12

\* What a step that opens or writes the file i leaves of the one at p.
LEMMA GoodStays ==
  ASSUME NEW p \in DOMAIN disk, NEW i, NEW x, data[disk[p]].size = "whole", disk[p] # i,
         disk[p] \in DOMAIN data,
         p \in DOMAIN disk', disk'[p] = disk[p],
         data' = data \/ data' = [data EXCEPT ![i] = x]
  PROVE  p \in DOMAIN disk' /\ data'[disk'[p]].size = "whole"
<1>1. data'[disk[p]] = data[disk[p]]
  OBVIOUS
<1> QED
  BY <1>1

\* What a step does to a good file of the NETCONF store.
GoodAt(p) ==
  \/ p \in DOMAIN disk' /\ data'[disk'[p]].size = "whole"
  \/ \E c \in WritersOf(p) : Twin(c)

\* The path of a file that a NETCONF backup made is the one it renames to.
LEMMA GoodPath ==
  ASSUME ArInv, NEW c \in Calls, arCall[c].inode # "none", Order(c).tool = "netconf_backup",
         NEW p \in DOMAIN disk, p.store = "nc", ~p.tmp, disk[p] = arCall[c].inode
  PROVE  p = Path(c)
<1>1. PICK i : i = arCall[c].inode
  OBVIOUS
<1>2. i \in ArCallers /\ Path(i) = Path(c)
  BY <1>1, FileOf
<1>3. Mine(i, p) /\ Placed(p)
  BY <1>1, <1>2 DEF ArInv, DiskOK
<1>4. PICK q : q = Path(c)
  OBVIOUS
<1>5. IsPath(q) /\ q.store = "nc" /\ q.dir = "day" /\ q.tmp = FALSE
  BY <1>4, PathIs DEF StoreOf
<1>6. IsPath(p) /\ p.dir = "day" /\ p.tmp = FALSE /\ p.bucket = q.bucket /\ p.dev = q.dev /\ p.at = q.at
  BY <1>2, <1>3, <1>4 DEF Mine, Placed
<1>7. p = q
  BY <1>5, <1>6 DEF IsPath
<1> QED
  BY <1>4, <1>7

\* Opening a file to write it.
LEMMA GoodOpen ==
  ASSUME ArInv, NEW c \in Calls, Upload(c) \/ OpenTmp(c),
         NEW p \in DOMAIN disk, p.store = "nc", ~p.tmp, data[disk[p]].size = "whole"
  PROVE  GoodAt(p)
<1>1. WorldStays
  BY DEF Upload, OpenTmp
<1>2. CASE UNCHANGED <<disk, data>>
  BY <1>2 DEF GoodAt
<1>3. ASSUME NEW q, Opened(c, q), q # p,
             \/ Order(c).tool = "backup" /\ arCall[c].pc = "upload" /\ q = Path(c)
             \/ Order(c).tool = "netconf_backup" /\ arCall[c].pc = "open" /\ q = Tmp(Path(c))
      PROVE  GoodAt(p)
  <2>1. PICK i : OpensAt(c, q, i) /\ arCall[c].inode = "none"
    BY <1>1, <1>3, OpenIs
  <2>2. OnlyAt(c, q, i)
    BY <2>1, OthersFiles
  <2>3. p \in DOMAIN disk' /\ disk'[p] = disk[p] /\ disk[p] # i
    BY <1>3, <2>2 DEF OnlyAt
  <2>4. data' = [data EXCEPT ![i] = Nothing]
    BY <2>1 DEF OpensAt
  <2> QED
    BY <2>3, <2>4, GoodStays DEF GoodAt, ArInv, DiskOK
<1>4. CASE Upload(c)
  <2>1. arCall[c].pc = "upload" /\ Order(c).tool = "backup"
    BY <1>4, AtWork DEF Upload
  <2>2. Path(c).store = "cli"
    BY <2>1, PathIs DEF StoreOf
  <2> QED
    BY <1>2, <1>3, <1>4, <2>1, <2>2 DEF Upload
<1>5. CASE OpenTmp(c)
  <2>1. arCall[c].pc = "open" /\ Order(c).tool = "netconf_backup"
    BY <1>5, AtWork DEF OpenTmp
  <2>2. Tmp(Path(c)).tmp = TRUE
    BY PathIs
  <2> QED
    BY <1>3, <1>5, <2>1, <2>2 DEF OpenTmp
<1> QED
  BY <1>4, <1>5

\* Writing one.
LEMMA GoodWrite ==
  ASSUME ArInv, NEW c \in Calls, Transfer(c) \/ WriteTmp(c),
         NEW p \in DOMAIN disk, p.store = "nc", ~p.tmp, data[disk[p]].size = "whole"
  PROVE  GoodAt(p)
<1>1. disk' = disk
  BY DEF Transfer, WriteTmp
<1>2. PICK i : i = arCall[c].inode
  OBVIOUS
<1>3. \E x : data' = [data EXCEPT ![i] = x]
  BY <1>2 DEF Transfer, WriteTmp
<1>4. CASE disk[p] # i
  BY <1>1, <1>3, <1>4, GoodStays DEF GoodAt, ArInv, DiskOK
<1>5. CASE disk[p] = i
  <2>1. i # "none"
    <3>1. Order(c).tool \in Backups
      BY DEF Transfer, WriteTmp, Backups
    <3>2. BackupOK(c, arCall[c])
      BY <3>1, AtWork
    <3> QED
      BY <1>2, <3>2 DEF BackupOK, Transfer, WriteTmp
  <2>2. /\ i \in ArCallers /\ Order(i).tool = Order(c).tool /\ Path(i) = Path(c)
    BY <1>2, <2>1, FileOf
  <2>3. Mine(i, p)
    BY <1>5, <2>2 DEF ArInv, DiskOK
  <2>4. Path(c).store = "nc"
    BY <2>2, <2>3 DEF Mine
  <2>5. Order(c).tool = "netconf_backup" /\ WriteTmp(c)
    BY <2>4, PathIs DEF StoreOf, Transfer, WriteTmp
  <2>6. arCall[c].pc = "sending"
    BY <2>5 DEF WriteTmp
  <2>7. p = Path(c)
    BY <1>2, <1>5, <2>1, <2>5, GoodPath
  <2>8. Twin(c)
    BY <1>2, <1>5, <2>5, <2>6, <2>7 DEF ArInv, CopyOK
  <2>9. c \in WritersOf(p)
    BY <2>5, <2>6, <2>7, Begun DEF WritersOf
  <2> QED
    BY <2>8, <2>9 DEF GoodAt
<1> QED
  BY <1>4, <1>5

\* Renaming one.
LEMMA GoodRename ==
  ASSUME ArInv, NEW c \in Calls, RenameTmp(c),
         NEW p \in DOMAIN disk, p.store = "nc", ~p.tmp, data[disk[p]].size = "whole"
  PROVE  GoodAt(p)
<1>1. data' = data /\ arCall[c].pc = "rename"
  BY DEF RenameTmp
<1>2. CASE disk' = disk
  BY <1>1, <1>2 DEF GoodAt
<1>3. CASE Tmp(Path(c)) \in DOMAIN disk /\ disk' = Renamed(disk, Tmp(Path(c)), Path(c))
  <2>1. PICK q, u : q = Tmp(Path(c)) /\ u = Path(c)
    OBVIOUS
  <2>2. /\ DOMAIN disk' = (DOMAIN disk \ {q}) \cup {u} /\ disk'[u] = disk[q] /\ q \in DOMAIN disk
        /\ \A v \in DOMAIN disk \ {q, u} : disk'[v] = disk[v]
    <3>1. q \in DOMAIN disk /\ disk' = Renamed(disk, q, u)
      BY <1>3, <2>1
    <3> QED
      BY <3>1, RenamedIs
  <2>3. p # q
    BY <2>1, PathIs
  <2>4. CASE p # u
    BY <1>1, <2>2, <2>3, <2>4 DEF GoodAt
  <2>5. CASE p = u
    <3>1. Order(c).tool = "netconf_backup"
      BY <1>1, AtWork
    <3>2. c \in WritersOf(p)
      BY <1>1, <2>1, <2>5, <3>1, Begun DEF WritersOf
    <3>3. CASE Twin(c)
      BY <3>2, <3>3 DEF GoodAt
    <3>4. CASE ~Twin(c)
      <4>1. disk[q] = arCall[c].inode /\ data[arCall[c].inode].size = "whole"
        BY <1>1, <2>1, <2>2, <3>1, <3>4 DEF ArInv, CopyOK
      <4> QED
        BY <1>1, <2>2, <2>5, <4>1 DEF GoodAt
    <3> QED
      BY <3>3, <3>4
  <2> QED
    BY <2>4, <2>5
<1> QED
  BY <1>2, <1>3 DEF RenameTmp

\* No step spoils a good archive, but one of two backups of a second.
LEMMA GoodStep == ArInv /\ ArNext => GoodCopyStays
<1> SUFFICES ASSUME ArInv, ArNext, NEW p \in DOMAIN disk, p.store # "cli", ~p.tmp,
                    data[disk[p]].size = "whole"
             PROVE  GoodAt(p)
  BY DEF GoodCopyStays, GoodAt
<1>1. p.store = "nc"
  BY DEF ArInv, DiskOK, Placed
<1>2. DOMAIN arCall = Calls
  BY DEF ArInv, WorldOK
<1>3. CASE UNCHANGED <<disk, data>>
  BY <1>3 DEF GoodAt
<1>4. ASSUME NEW c \in Calls, ArStep(c)
      PROVE  GoodAt(p)
  <2>1. CASE Upload(c) \/ OpenTmp(c)
    BY <1>1, <2>1, GoodOpen
  <2>2. CASE Transfer(c) \/ WriteTmp(c)
    BY <1>1, <2>2, GoodWrite
  <2>3. CASE RenameTmp(c)
    BY <1>1, <2>3, GoodRename
  <2> QED
    BY <1>3, <1>4, <2>1, <2>2, <2>3 DEF ArStep, MakeName, TakeLock, SaveOnBox, Reply, TransportBreaks, TryAgain, StatFile, PullConfig,
         LookUp, TakeFile, ListBackups, NetconfListBackups, StoreStays
<1>5. CASE Misplace
  <2>0. PICK q \in DOMAIN disk, d \in DOMAIN arBox :
          q.store = "cli" /\ [q EXCEPT !.dir = d] \notin DOMAIN disk /\ disk' = Renamed(disk, q, [q EXCEPT !.dir = d])
    BY <1>5 DEF Misplace
  <2> DEFINE u == [q EXCEPT !.dir = d]
  <2>1. q.store = "cli" /\ u \notin DOMAIN disk /\ disk' = Renamed(disk, q, u)
    BY <2>0
  <2> HIDE DEF u
  <2>2. p # q /\ p # u
    BY <1>1, <2>1
  <2>3. /\ DOMAIN disk' = (DOMAIN disk \ {q}) \cup {u}
        /\ \A v \in DOMAIN disk \ {q, u} : disk'[v] = disk[v]
    BY <2>1, RenamedIs
  <2> QED
    BY <1>5, <2>2, <2>3 DEF GoodAt, Misplace
<1>6. CASE ArTick \/ ChangeConfig \/ Rebind \/ ArCrash
  BY <1>3, <1>6 DEF ArTick, ChangeConfig, Rebind, ArCrash, StoreStays
<1> QED
  BY <1>2, <1>4, <1>5, <1>6 DEF ArNext

(***************************************************************************)
(* The theorems                                                             *)
(***************************************************************************)
\* The invariant of the stores: whatever calls do, in one process or several,
\* and whatever fails, a file on disk is known by the call that made it, and
\* every call knows as much of it as its answer needs (backup_store.py).
THEOREM ArInvariance == ArSpec => []ArInv
<1> QED
  BY ArInvInit, ArInvNext, PTL DEF ArSpec

\* Every variable keeps its type.
THEOREM ArTypeCorrect == ArSpec => []ArTypeOK
<1> QED
  BY ArInvariance, ArInvTypes, PTL

\* A backup answered ok is whole, current and of its own box; a restore takes
\* what is of its own alias; a list shows nothing a restore would refuse.
THEOREM BackupsSound == ArSpec => []BackupsAreSound
<1> QED
  BY ArInvariance, ArInvSound, PTL

\* A good archive is not replaced by a torn one, and a torn file that a CLI
\* restore takes is not one a backup was answered ok for.
THEOREM ArchivesKeep == ArSpec => ArchivesHold
<1>1. ArInv /\ [ArNext]_arVars => [GoodCopyStays /\ TornIsNotDone]_arVars
  BY GoodStep, TornStep
<1> QED
  BY <1>1, ArInvariance, PTL DEF ArSpec, ArchivesHold
=============================================================================

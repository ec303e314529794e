------------------------------- MODULE Archives -------------------------------
(***************************************************************************)
(* The two stores of configuration backups on the local disk and the calls  *)
(* that fill and read them: qactl/dnos/cli/tools/backup.py over             *)
(* cli/core/backup_store.py, and qactl/dnos/nc/tools/backup.py over         *)
(* nc/core/backup_store.py.                                                 *)
(*                                                                         *)
(* A file is named after the alias and the second of the call.  A CLI       *)
(* backup makes the device save its configuration and send it, over SFTP,   *)
(* to the file itself, under a lock of the process; a NETCONF backup reads  *)
(* the configuration and writes a .tmp it then renames, under no lock.  The *)
(* commits of a restore are in ConfigCandidate and NetconfCandidate: here   *)
(* it ends when it has taken the file.                                      *)
(***************************************************************************)
EXTENDS Naturals, Maps

CONSTANTS
  ArCallers,   \* the calls
  ArProcess,   \* the process each call is made in
  ArSettings   \* what a run lets happen, see ArSettingsOK

Backups == {"backup", "netconf_backup"}
Takers == {"restore", "read", "netconf_restore", "netconf_diff", "netconf_read"}
Listers == {"list", "netconf_list"}
StoreOf(tool) == IF tool \in {"backup", "restore", "read", "list"} THEN "cli" ELSE "nc"

ArFaults == {"offline", "refuse", "break", "mute", "hang", "full", "crash", "drop"}

\* A setting: what each call is (its tool, alias and sub-bucket), which box
\* every alias leads to, the faults, and (bounds) how often the clock ticks, a
\* configuration changes, an alias is moved to another box, and a file is
\* moved by hand.  A backup whose transport breaks has a second try, which is
\* a call of its own here: `again` tells whose.
ArSettingsOK == \A s \in ArSettings :
  /\ \A c \in DOMAIN s.orders :
       s.orders[c].tool \in Backups \cup Takers \cup Listers /\ s.orders[c].dev \in DOMAIN s.boxes
  /\ DOMAIN s.orders \subseteq ArCallers /\ s.faults \subseteq ArFaults
  /\ {s.ticks, s.changes, s.rebinds, s.moves} \subseteq Nat
  /\ \A d \in DOMAIN s.again :
       /\ d \in DOMAIN s.orders /\ s.again[d] \in DOMAIN s.orders \ DOMAIN s.again
       /\ s.orders[d] = s.orders[s.again[d]] /\ s.orders[d].tool = "backup"
       /\ ArProcess[d] = ArProcess[s.again[d]]
  /\ "drop" \in s.faults =>
       \A c \in DOMAIN s.orders : s.orders[c].tool = "backup" => c \in DOMAIN s.again \cup Range(s.again)

\* A file that a call makes is known by the call, and any other by a pair.
ASSUME ArAssumption ==
  /\ ArSettingsOK /\ ArProcess \in [ArCallers -> Range(ArProcess)]
  /\ "none" \notin ArCallers
  /\ \A s \in ArSettings : ArCallers \cap ({"cli", "nc"} \X DOMAIN s.boxes) = {}

VARIABLES
  arSetting,  \* which of ArSettings this behaviour runs under
  arNow,      \* the second the clock shows
  arBox,      \* of each alias: the box it leads to
  revision,   \* of each box: how often its running configuration has changed
  flash,      \* what is in /config of the boxes: by box and name, a revision
  disk,       \* the directory tree: of each path, its inode
  data,       \* of each inode: what is written in it
  arCall,     \* of each call: see ArTypeOK
  budget      \* what is left of the bounds of the setting

arVars == <<arSetting, arNow, arBox, revision, flash, disk, data, arCall, budget>>

Nothing == [of |-> "none", rev |-> 0, size |-> "short"]
Whole(box, rev) == [of |-> box, rev |-> rev, size |-> "whole"]

\* Where a backup goes: cli/<alias>/[<bucket>/]<alias>__<second>.md, and
\* <bucket>/<alias>__<second>.tar.gz, where the bucket is the day.
PathOf(order, at) ==
  [store |-> StoreOf(order.tool), dir |-> IF StoreOf(order.tool) = "cli" THEN order.dev ELSE "day",
   bucket |-> order.bucket, dev |-> order.dev, at |-> at, tmp |-> FALSE]
Tmp(p) == [p EXCEPT !.tmp = TRUE]

Order(c) == arSetting.orders[c]
Path(c) == PathOf(Order(c), arCall[c].at)

NoArCall == [pc |-> "idle", at |-> 0, since |-> <<>>, box |-> "none", inode |-> "none",
             wire |-> "none", got |-> Nothing, verdict |-> "none", shown |-> {}]

\* One file of every alias and store exists, saved in second 0.
OldFiles(s) ==
  {PathOf([tool |-> t, dev |-> d, bucket |-> "root"], 0) : t \in Backups, d \in DOMAIN s.boxes}

ArInit ==
  /\ arSetting \in ArSettings
  /\ arNow = 1 /\ flash = [k \in {} |-> 0]
  /\ arBox = arSetting.boxes
  /\ revision = [b \in Range(arBox) |-> 1]
  /\ disk = [p \in OldFiles(arSetting) |-> <<p.store, p.dev>>]
  /\ data = [i \in Range(disk) \cup ArCallers |->
               IF i \in ArCallers THEN Nothing ELSE Whole(arBox[i[2]], 0)]
  /\ arCall = [c \in DOMAIN arSetting.orders |-> NoArCall]
  /\ budget = [ticks |-> arSetting.ticks, changes |-> arSetting.changes,
               rebinds |-> arSetting.rebinds, moves |-> arSetting.moves]

Fault(f) == f \in arSetting.faults
Ended(c, v) == [arCall[c] EXCEPT !.pc = "over", !.verdict = v]
ArMoves(c, next) == arCall' = [arCall EXCEPT ![c] = next]
ArStays(c, pc) == ArMoves(c, [arCall[c] EXCEPT !.pc = pc])
StoreStays == UNCHANGED <<disk, data, flash>>
WorldStays == UNCHANGED <<arSetting, arNow, arBox, revision, budget>>

(***************************************************************************)
(* Backups                                                                  *)
(***************************************************************************)
\* The arguments are checked, the name is made of the second, the directory
\* exists; what the running configuration is from here on is current.
MakeName(c) ==
  /\ arCall[c].pc = "idle" /\ Order(c).tool \in Backups /\ c \notin DOMAIN arSetting.again
  /\ ArMoves(c, [arCall[c] EXCEPT !.pc = IF Order(c).tool = "backup" THEN "lock" ELSE "pull",
                   !.at = arNow, !.since = revision])
  /\ StoreStays /\ WorldStays

InLock(c) == Order(c).tool = "backup" /\
  \/ arCall[c].pc \in {"save", "upload", "sending", "stat"}
  \/ arCall[c].pc = "again" /\ \E d \in DOMAIN arSetting.again : arSetting.again[d] = c /\ arCall[d].pc = "idle"

TakeLock(c) ==
  /\ arCall[c].pc = "lock"
  /\ \A d \in DOMAIN arCall :
       ~(InLock(d) /\ ArProcess[d] = ArProcess[c] /\ Order(d).dev = Order(c).dev)
  /\ ArStays(c, "save")
  /\ StoreStays /\ WorldStays

\* configure; save; exit: what save says is not looked at.
SaveOnBox(c) ==
  /\ arCall[c].pc = "save"
  /\ \/ Fault("offline") /\ ArMoves(c, Ended(c, "connect_error")) /\ UNCHANGED flash
     \/ LET box == arBox[Order(c).dev] IN
        /\ ArMoves(c, [arCall[c] EXCEPT !.pc = "upload", !.box = box])
        /\ \/ flash' = Put(flash, <<box, Order(c).dev, arCall[c].at>>, revision[box])
           \/ Fault("refuse") /\ UNCHANGED flash
  /\ UNCHANGED <<disk, data>> /\ WorldStays

OnFlash(c) == <<arCall[c].box, Order(c).dev, arCall[c].at>>

\* The inode a path is opened on for writing, which empties it.
Opened(c, p) ==
  LET i == IF p \in DOMAIN disk THEN disk[p] ELSE c IN
  /\ disk' = Put(disk, p, i)
  /\ data' = [data EXCEPT ![i] = Nothing]
  /\ ArMoves(c, [arCall[c] EXCEPT !.inode = i, !.wire = "on", !.pc = "sending"])

\* request file upload: the device says so when there is no such file, or
\* when it cannot log in.
Upload(c) ==
  /\ arCall[c].pc = "upload"
  /\ \/ /\ OnFlash(c) \notin DOMAIN flash \/ Fault("refuse")
        /\ ArMoves(c, Ended(c, "error")) /\ UNCHANGED <<disk, data>>
     \/ OnFlash(c) \in DOMAIN flash /\ Opened(c, Path(c))
  /\ UNCHANGED flash /\ WorldStays

\* The transfer, which is the device's, whether or not the call still waits:
\* it ends, or breaks with words or without them.  Two transfers into one
\* inode may leave any mixture.
Transfer(c) ==
  /\ arCall[c].wire = "on" /\ Order(c).tool = "backup"
  /\ LET new == Whole(arCall[c].box, flash[OnFlash(c)])
         alone == \A d \in DOMAIN arCall \ {c} :
                    arCall[d].inode = arCall[c].inode =>
                      arCall[d].wire # "on" /\ ArProcess[d] = ArProcess[c] IN
     \/ /\ ArMoves(c, [arCall[c] EXCEPT !.wire = "done"])
        /\ \E size \in IF alone THEN {"whole"} ELSE {"whole", "part"} :
             data' = [data EXCEPT ![arCall[c].inode] = [new EXCEPT !.size = size]]
     \/ \E how \in {"break", "mute"} \cap arSetting.faults, size \in {"short", "part"} :
          /\ ArMoves(c, [arCall[c] EXCEPT !.wire = how])
          /\ data' = [data EXCEPT ![arCall[c].inode] = [new EXCEPT !.size = size]]
  /\ UNCHANGED <<flash, disk>> /\ WorldStays

Reply(c) ==
  /\ arCall[c].pc = "sending" /\ Order(c).tool = "backup"
  /\ \/ arCall[c].wire = "on" /\ Fault("hang") /\ ArMoves(c, Ended(c, "timeout"))
     \/ arCall[c].wire = "break" /\ ArMoves(c, Ended(c, "error"))
     \/ arCall[c].wire \in {"done", "mute"} /\ ArStays(c, "stat")
  /\ StoreStays /\ WorldStays

\* run_sequence_pw: when the transport breaks under it the first try is given
\* up, whatever the device still sends for it, and all of it done once more; a
\* second break is an error.  (One that breaks in the save has saved, or not.)
TransportBreaks(c) ==
  /\ Fault("drop") /\ Order(c).tool = "backup" /\ arCall[c].pc \in {"upload", "sending"}
  /\ IF c \in DOMAIN arSetting.again THEN ArMoves(c, Ended(c, "error")) ELSE ArStays(c, "again")
  /\ StoreStays /\ WorldStays

TryAgain(c) ==
  /\ arCall[c].pc = "idle" /\ c \in DOMAIN arSetting.again
  /\ LET first == arCall[arSetting.again[c]] IN
     /\ first.pc = "again"
     /\ ArMoves(c, [arCall[c] EXCEPT !.pc = "save", !.at = first.at, !.since = first.since])
  /\ StoreStays /\ WorldStays

BigEnough(i) == data[i].size # "short"

\* What the stat of the final path makes of it.
StatFile(c) ==
  /\ arCall[c].pc = "stat"
  /\ LET p == Path(c) IN
     ArMoves(c, IF p \in DOMAIN disk /\ BigEnough(disk[p])
                THEN [Ended(c, "ok") EXCEPT !.got = data[disk[p]]]
                ELSE Ended(c, "error"))
  /\ StoreStays /\ WorldStays

\* netconf_backup: get-config, split and pack in memory; then the .tmp is
\* opened, written at once, and renamed.
PullConfig(c) ==
  /\ arCall[c].pc = "pull"
  /\ \/ Fault("offline") /\ ArMoves(c, Ended(c, "error"))
     \/ LET box == arBox[Order(c).dev] IN
        ArMoves(c, [arCall[c] EXCEPT !.pc = "open", !.box = box, !.got = Whole(box, revision[box])])
  /\ StoreStays /\ WorldStays

\* Fault: the archive is written where it stays.
OpenTmp_InPlace(c) ==
  /\ arCall[c].pc = "open"
  /\ Opened(c, Path(c))
  /\ UNCHANGED flash /\ WorldStays

OpenTmp(c) ==
  /\ arCall[c].pc = "open"
  /\ Opened(c, Tmp(Path(c)))
  /\ UNCHANGED flash /\ WorldStays

WriteTmp(c) ==
  /\ arCall[c].pc = "sending" /\ Order(c).tool = "netconf_backup"
  /\ \/ /\ data' = [data EXCEPT ![arCall[c].inode] = arCall[c].got]
        /\ ArMoves(c, [arCall[c] EXCEPT !.pc = "rename", !.wire = "done"])
     \/ /\ Fault("full") /\ ArMoves(c, [Ended(c, "error") EXCEPT !.wire = "break"])
        /\ \E size \in {"short", "part"} :
             data' = [data EXCEPT ![arCall[c].inode] = [arCall[c].got EXCEPT !.size = size]]
  /\ UNCHANGED <<flash, disk>> /\ WorldStays

\* Another call of the same second may have renamed the .tmp already.
RenameTmp(c) ==
  /\ arCall[c].pc = "rename"
  /\ LET p == Path(c) IN
     IF Tmp(p) \in DOMAIN disk
     THEN /\ disk' = Renamed(disk, Tmp(p), p)
          /\ ArStays(c, "stat")
     ELSE UNCHANGED disk /\ ArMoves(c, Ended(c, "error"))
  /\ UNCHANGED <<flash, data>> /\ WorldStays

(***************************************************************************)
(* Restores, reads and lists                                                *)
(***************************************************************************)
\* A caller names a file of the store (a path below the root, with a
\* canonical name) and the alias it is to go to.
Nameable(c) == {p \in DOMAIN disk : p.store = StoreOf(Order(c).tool) /\ ~p.tmp}

\* The file is where the caller says: in the CLI store, in the alias's folder.
Found(c, p) == p.store = "cli" => p.dir = Order(c).dev

\* stat.device != device: refused; netconf_read_backup is told no device.
Owner(c, p) == IF Order(c).tool = "netconf_read" THEN p.dev ELSE Order(c).dev

\* Fault: the device of the name is not compared.
Pinned_Unchecked(c, p) == TRUE

Pinned(c, p) == p.dev = Owner(c, p)

\* The stat: the NETCONF store refuses a small file.
LookUp(c) ==
  /\ arCall[c].pc = "idle" /\ Order(c).tool \in Takers
  /\ \E p \in Nameable(c) :
       ArMoves(c, IF Found(c, p) /\ Pinned(c, p)
                  THEN [arCall[c] EXCEPT !.pc = "take", !.shown = {p}]
                  ELSE Ended(c, "error"))
  /\ StoreStays /\ WorldStays

\* The file is read: a torn archive does not unpack, a text is a text.
Readable(i) == BigEnough(i) /\ data[i].size = "whole"

TakeFile(c) ==
  /\ arCall[c].pc = "take"
  /\ \E p \in arCall[c].shown :
       ArMoves(c, IF p \in DOMAIN disk /\ (p.store = "nc" => Readable(disk[p]))
                  THEN [Ended(c, "ok") EXCEPT !.got = data[disk[p]], !.box = arBox[Owner(c, p)]]
                  ELSE Ended(c, "error"))
  /\ StoreStays /\ WorldStays

\* What a list shows of an alias: a stray name in a CLI folder is left out
\* (and, as its name is canonical, is no orphan either).
CliListed(d) == {p \in DOMAIN disk : p.store = "cli" /\ p.dir = d /\ ~p.tmp /\ p.dev = d}
NcListed(d) == {p \in DOMAIN disk : p.store = "nc" /\ ~p.tmp /\ p.dev = d}

ListBackups(c) ==
  /\ arCall[c].pc = "idle" /\ Order(c).tool = "list"
  /\ ArMoves(c, [Ended(c, "ok") EXCEPT !.shown = CliListed(Order(c).dev)])
  /\ StoreStays /\ WorldStays

NetconfListBackups(c) ==
  /\ arCall[c].pc = "idle" /\ Order(c).tool = "netconf_list"
  /\ ArMoves(c, [Ended(c, "ok") EXCEPT !.shown = NcListed(Order(c).dev)])
  /\ StoreStays /\ WorldStays

(***************************************************************************)
(* The world                                                                *)
(***************************************************************************)
Spend(what) == budget[what] > 0 /\ budget' = [budget EXCEPT ![what] = @ - 1]

ArTick == Spend("ticks") /\ arNow' = arNow + 1 /\ UNCHANGED <<arSetting, arBox, revision, flash, disk, data, arCall>>

ChangeConfig ==
  /\ Spend("changes") /\ \E b \in DOMAIN revision : revision' = [revision EXCEPT ![b] = @ + 1]
  /\ UNCHANGED <<arSetting, arNow, arBox, flash, disk, data, arCall>>

\* The map of devices gives an alias to another box.
Rebind ==
  /\ Spend("rebinds")
  /\ \E d \in DOMAIN arBox, b \in DOMAIN revision : arBox' = [arBox EXCEPT ![d] = b]
  /\ UNCHANGED <<arSetting, arNow, revision, flash, disk, data, arCall>>

\* mv, by hand, of a file into another alias's folder.
Misplace ==
  /\ Spend("moves")
  /\ \E p \in DOMAIN disk, d \in DOMAIN arBox :
       /\ p.store = "cli" /\ [p EXCEPT !.dir = d] \notin DOMAIN disk
       /\ disk' = Renamed(disk, p, [p EXCEPT !.dir = d])
  /\ UNCHANGED <<arSetting, arNow, arBox, revision, flash, data, arCall>>

\* A process is killed with all its calls; the device goes on sending.
ArCrash ==
  /\ Fault("crash")
  /\ \E pr \in Range(ArProcess) :
       /\ \E c \in DOMAIN arCall : ArProcess[c] = pr /\ arCall[c].pc \notin {"idle", "over"}
       /\ arCall' = [c \in DOMAIN arCall |->
            IF ArProcess[c] = pr /\ arCall[c].pc \notin {"idle", "over"} THEN Ended(c, "killed")
            ELSE arCall[c]]
  /\ StoreStays /\ WorldStays

ArStep(c) ==
  \/ MakeName(c) \/ TakeLock(c) \/ SaveOnBox(c) \/ Upload(c) \/ Transfer(c) \/ Reply(c)
  \/ TransportBreaks(c) \/ TryAgain(c) \/ StatFile(c)
  \/ PullConfig(c) \/ OpenTmp(c) \/ WriteTmp(c) \/ RenameTmp(c)
  \/ LookUp(c) \/ TakeFile(c) \/ ListBackups(c) \/ NetconfListBackups(c)

ArNext ==
  \/ \E c \in DOMAIN arCall : ArStep(c)
  \/ ArTick \/ ChangeConfig \/ Rebind \/ Misplace \/ ArCrash

ArSpec == ArInit /\ [][ArNext]_arVars

(***************************************************************************)
(* Properties                                                               *)
(***************************************************************************)
\* The types of the variables.
ArTypeOK ==
  /\ arNow \in Nat
  /\ \A i \in DOMAIN data : data[i].size \in {"short", "part", "whole"}
  /\ Range(disk) \subseteq DOMAIN data
  /\ \A c \in DOMAIN arCall :
       /\ arCall[c].pc \in {"idle", "lock", "save", "upload", "sending", "again", "stat", "pull",
                            "open", "rename", "take", "over"}
       /\ arCall[c].wire \in {"none", "on", "done", "break", "mute"}
       /\ arCall[c].verdict \in {"none", "ok", "error", "timeout", "connect_error", "killed"}

\* Another call had the same name for its file: by the same path, or in
\* /config of the device, which has no buckets.  A first try that was given
\* up is another call: the device may still be sending for it.
Shared(c) == \E d \in DOMAIN arCall \ {c} :
  /\ Order(d).tool = Order(c).tool /\ Order(d).dev = Order(c).dev
  /\ Order(c).tool = "netconf_backup" => Order(d).bucket = Order(c).bucket
  /\ arCall[d].pc # "idle" /\ arCall[d].at = arCall[c].at

\* A backup that is answered ok, by either protocol, is the whole of a
\* configuration that was running on the alias's own box during the call,
\* unless another call, or a first try of its own, had its name, or the device
\* kept quiet about a transfer that broke, when it is at least not empty.
OkIsWhole == \A c \in DOMAIN arCall :
  Order(c).tool \in Backups /\ arCall[c].verdict = "ok" =>
    LET got == arCall[c].got IN
    /\ got.size # "short"
    /\ ~Shared(c) =>
         /\ got.of = arCall[c].box /\ got.rev >= arCall[c].since[got.of]
         /\ arCall[c].wire # "mute" => got.size = "whole"

\* What a restore or a read takes is a configuration of the very box the
\* alias leads to, unless the alias was moved, and a NETCONF one takes nothing
\* that is torn.
TakenIsItsOwn == \A c \in DOMAIN arCall :
  Order(c).tool \in Takers /\ arCall[c].verdict = "ok" =>
    /\ arSetting.rebinds = 0 => arCall[c].got.of \in {arCall[c].box, "none"}
    /\ StoreOf(Order(c).tool) = "nc" => arCall[c].got.size = "whole"

\* A list offers nothing that a restore for that alias would refuse.
ListedIsTakeable == \A c \in DOMAIN arCall :
  Order(c).tool \in Listers => \A p \in arCall[c].shown : Found(c, p) /\ Pinned(c, p)

\* A CLI restore or read takes a torn file only when the backup that made it
\* has not been answered ok by then: it still runs, or was told it failed, or
\* one of the excuses of OkIsWhole holds.
TornIsNotDone == \A c \in DOMAIN arCall :
  arCall[c].pc = "take" /\ arCall'[c].verdict = "ok" /\ arCall'[c].got.size # "whole" =>
    \A p \in arCall[c].shown : \E d \in DOMAIN arCall :
      /\ Order(d).tool = "backup" /\ arCall[d].inode = disk[p]
      /\ arCall[d].verdict = "ok" => Shared(d) \/ arCall[d].wire = "mute"

\* A NETCONF backup never puts a half-written file where a good one was
\* (backup_store.py:473), unless another call of the second has opened the
\* same .tmp: it may write into it, or have renamed it.
WritersOf(p) ==
  {c \in DOMAIN arCall : Order(c).tool = "netconf_backup" /\ Path(c) = p /\ arCall[c].pc \in {"sending", "rename"}}
Twin(c) == \E d \in DOMAIN arCall \ {c} :
  Order(d).tool = "netconf_backup" /\ Path(d) = Path(c) /\ arCall[d].inode # "none"
GoodCopyStays ==
  \A p \in DOMAIN disk \ {q \in DOMAIN disk : q.store = "cli" \/ q.tmp} :
     data[disk[p]].size = "whole" =>
        \/ p \in DOMAIN disk' /\ data'[disk'[p]].size = "whole"
        \/ \E c \in WritersOf(p) : Twin(c)

\* A good archive stays, and a torn one that is taken was promised by nobody.
ArchivesHold == [][GoodCopyStays /\ TornIsNotDone]_arVars

\* A backup is what it says and a restore gets what belongs to its device.
BackupsAreSound == OkIsWhole /\ TakenIsItsOwn /\ ListedIsTakeable
=============================================================================

------------------------------ MODULE MC_Stores ------------------------------
(* What the run of MC_Registry lets happen to the backup stores, Archives;   *)
(* to the templates, Templates; over RESTCONF, Restconf; and over gNMI,      *)
(* Gnmi.  The setting named Idle of each has no calls.                       *)
EXTENDS Stores, Restconf, Gnmi, TLC

CONSTANTS b1, b2, f1, f2, f3, j1, j2, j3, h1, h2, r1, r2, r3, k1, k2

\* Two boxes; two calls of one process and one of another.
ArOrder(t, d) == [tool |-> t, dev |-> d, bucket |-> "root"]
Archived(orders, faults, t, ch, rb, mv) ==
  [orders |-> orders, boxes |-> ("a" :> b1) @@ ("b" :> b2), faults |-> faults,
   ticks |-> t, changes |-> ch, rebinds |-> rb, moves |-> mv, again |-> <<>>]
InProcess == (f1 :> "one") @@ (f2 :> "one") @@ (f3 :> "other")
EveryArFault == {"offline", "refuse", "break", "mute", "hang", "full"}
ArIdle == Archived(<<>>, {}, 0, 0, 0, 0)
\* Two backups of a process, with every failure; two of two processes, into
\* one bucket and into two; two NETCONF backups and a read; a backup and a
\* restore or a list, with crashes; a backup that may be tried twice beside
\* a restore.
ArEverySetting ==
  {ArIdle, Archived((f1 :> ArOrder("backup", "a")) @@ (f2 :> ArOrder("backup", "a")), EveryArFault, 1, 1, 0, 0),
   Archived((f1 :> ArOrder("backup", "a")) @@ (f3 :> ArOrder("backup", "a")), {}, 0, 1, 1, 0),
   Archived((f1 :> ArOrder("backup", "a")) @@ (f3 :> [ArOrder("backup", "a") EXCEPT !.bucket = "daily"]), {"refuse"}, 1, 1, 0, 0),
   Archived((f1 :> ArOrder("netconf_backup", "a")) @@ (f3 :> ArOrder("netconf_backup", "a"))
              @@ (f2 :> ArOrder("netconf_read", "a")), {"offline"}, 0, 1, 0, 0),
   Archived((f1 :> ArOrder("netconf_backup", "a")) @@ (f3 :> ArOrder("netconf_restore", "b")), {"crash", "full"}, 1, 1, 1, 0)}
  \cup {Archived((f1 :> ArOrder("backup", "a")) @@ (f3 :> ArOrder(t, d)), {"break", "hang", "crash"}, 1, 1, 0, 1) :
         t \in {"restore", "list"}, d \in {"a", "b"}}
  \cup {Archived((f1 :> ArOrder("netconf_backup", "a")) @@ (f3 :> ArOrder(t, "b")), {}, 1, 1, 0, 0) :
         t \in {"netconf_diff", "netconf_read", "netconf_list", "read"}}
  \cup {[Archived((f1 :> ArOrder("backup", "a")) @@ (f2 :> ArOrder("backup", "a")) @@ (f3 :> ArOrder("restore", "a")),
                  f, 0, 1, 0, 0) EXCEPT !.again = f2 :> f1] : f \in {{"drop", "refuse", "hang"}, {"drop", "crash"}}}

\* A template with a loop, one without, one that is no template, and one
\* that is an empty text.
TpJob(t) == [tool |-> t, name |-> "bgp", new |-> "isis", over |-> FALSE, body |-> "loop", vars |-> "none"]
Rendered(v) == [TpJob("render") EXCEPT !.vars = v]
Saved(o, b) == [TpJob("save") EXCEPT !.over = o, !.body = b]
Templated(jobs, files, faults, t) == [jobs |-> jobs, templates |-> files, faults |-> faults, ticks |-> t]
Bgp(body) == "bgp" :> body
TpIdle == Templated(<<>>, <<>>, {}, 0)
\* Two calls at one name; a render with a script, its failures, and what is
\* deployed of it; two renders within a second; an editor's hand.
TpEverySetting ==
  {TpIdle} \cup
  {Templated((j1 :> Saved(o, "loop")) @@ (j2 :> j), f, {}, 0) :
      o \in BOOLEAN, f \in {<<>>, Bgp("plain")},
      j \in {Saved(FALSE, "bad"), Saved(FALSE, "plain"), Saved(TRUE, "plain"), TpJob("delete"), TpJob("rename"),
             TpJob("get"), Rendered("none"), [Saved(FALSE, "loop") EXCEPT !.name = "isis"]}}
  \cup {Templated((j1 :> TpJob("rename")) @@ (j2 :> j), Bgp("loop"), {}, 0) :
      j \in {[Saved(FALSE, "loop") EXCEPT !.name = "isis"], TpJob("rename"), TpJob("delete")}}
  \cup {Templated((j1 :> TpJob("delete")) @@ (j2 :> TpJob("delete")), Bgp("loop"), {}, 0)}
  \cup {Templated((j1 :> Rendered("script")) @@ (j2 :> TpJob(t)), Bgp(b),
                  {"script fails", "script hangs", "long output", "full"}, 0) :
      t \in {"deploy", "delete"}, b \in {"loop", "nothing"}}
  \cup {Templated((j1 :> Rendered("script")) @@ (j2 :> Rendered("script")), Bgp(b), {}, 1) : b \in {"loop", "plain"}}
  \cup {Templated((j1 :> Rendered("script")) @@ (j2 :> Rendered("yaml")) @@ (j3 :> TpJob("deploy")), Bgp("loop"), {}, 0),
        Templated((j1 :> Rendered("yaml")) @@ (j2 :> TpJob("delete")), Bgp("loop"), {"editor"}, 0)}

\* Two chassis, one of which has two names, and two controllers.
RcOrder(t, d) == [tool |-> t, ep |-> "odl1", name |-> "none", dev |-> d, verify |-> TRUE, persist |-> TRUE,
                  confirm |-> TRUE, payload |-> "leaves"]
Adding(d, ep, n) == [RcOrder("add", d) EXCEPT !.ep = ep, !.name = n]
Removing(ep, n) == [RcOrder("remove", "none") EXCEPT !.ep = ep, !.name = n]
Using(t, d, ep) == [RcOrder(t, d) EXCEPT !.ep = ep]
MountOf(ep, n, d) == [ep |-> ep, name |-> n, dev |-> d]
Controllers(orders, mounts, faults, swaps, old) ==
  [orders |-> orders, mounts |-> mounts, faults |-> faults, swaps |-> swaps,
   device |-> ("h" :> h1) @@ ("hh" :> h1) @@ ("k" :> h2),
   address |-> (h1 :> "ip1") @@ (h2 :> "ip2"),
   cached |-> IF old THEN (h1 :> "ip2") @@ (h2 :> "ip2") ELSE (h1 :> "ip1") @@ (h2 :> "ip2"),
   controllers |-> {"odl1", "odl2"}]
OneEach == {MountOf("odl1", "M", "h"), MountOf("odl2", "M", "k")}
RcIdle == Controllers(<<>>, {}, {}, 0, FALSE)
\* A mount is added and another removed while the device is used; a mount is
\* replaced, with failures; nothing is mounted yet; an add, a remove and a
\* status; an add beside a remove or an add, of the same mount or another;
\* payloads that do and do not fit.
RcEverySetting ==
  {RcIdle} \cup
  {Controllers((r1 :> Adding("hh", "odl1", "N")) @@ (r2 :> Using(t, "h", ep)) @@ (r3 :> Removing("odl1", "M")),
               OneEach, {}, 0, FALSE) : t \in RcWrites \cup {"get"}, ep \in {"none", "odl1", "odl2"}}
  \cup {Controllers((r1 :> Adding("k", "odl1", "M")) @@ (r2 :> [Using(t, "h", "none") EXCEPT !.confirm = ok]),
                    OneEach, f, 0, FALSE) :
        t \in {"put", "keys"}, ok \in BOOLEAN, f \in {{"lose", "reject", "drop", "unverified"}, {"crash"}}}
  \cup {Controllers((r1 :> [Adding("h", "odl1", "M") EXCEPT !.verify = v]) @@ (r2 :> Using("patch", "h", "odl1")),
                    {}, {"drop"}, w, old) : v \in BOOLEAN, w \in 0..1, old \in BOOLEAN}
  \cup {Controllers((r1 :> [Removing("odl1", "M") EXCEPT !.persist = p]) @@ (r2 :> Adding("k", "odl1", "N"))
                    @@ (r3 :> [Using("status", "none", "odl1") EXCEPT !.name = n]),
                    OneEach, f, 0, FALSE) : p \in BOOLEAN, n \in {"M", "hh"}, f \in {{}, {"lose", "reject"}}}
  \cup {Controllers((r1 :> Adding("h", "odl1", n)) @@ (r2 :> o) @@ (r3 :> Using("put", "h", "none")),
                    m, {}, 0, FALSE) :
        n \in {"M", "N"}, o \in {Removing("odl1", "N"), Adding("hh", "odl2", "N"), Adding("k", "odl1", "N")}, m \in {{}, OneEach}}
  \cup {Controllers((r1 :> Removing("odl9", "M")) @@ (r2 :> Adding("k", "odl9", "N")), OneEach, {}, 0, FALSE)}
  \cup {Controllers(r1 :> [Using("patch", "hh", "none") EXCEPT !.payload = p], OneEach, {}, 1, FALSE) :
        p \in {"leaves and an empty container", "a leaf"}}

\* A stream: updates before the sync_response, then an update and a delete.
GnOrder(t) == [tool |-> t, dev |-> "d1", paths |-> <<"p", "q">>, verify |-> TRUE, confirm |-> TRUE, cap |-> 0]
Note(ups, dels) == [kind |-> "note", updates |-> ups, deletes |-> dels]
Signal(k) == [kind |-> k, updates |-> <<>>, deletes |-> <<>>]
Telemetry == <<Note(<<"u1", "u2">>, <<>>), Signal("junk"), Signal("sync"), Note(<<"u3">>, <<"x1">>)>>
Asked(orders, bad, faults, edits, swaps, old) ==
  [orders |-> orders, bad |-> bad, faults |-> faults, edits |-> edits, swaps |-> swaps,
   address |-> ("d1" :> "ip1") @@ ("d2" :> "ip2"),
   cached |-> ("d1" :> IF old THEN "ip2" ELSE "ip1") @@ ("d2" :> "ip2"),
   script |-> IF bad = {"p"} THEN <<>> ELSE Telemetry]
GnIdle == Asked(<<>>, {}, {}, 0, 0, FALSE)
\* Every read beside a set, with a path that is refused, failures and moving
\* addresses; a subscription with every cap; unverified addresses.
GnEverySetting ==
  {GnIdle} \cup
  {Asked((k1 :> GnOrder(t)) @@ (k2 :> [GnOrder("set") EXCEPT !.confirm = ok]), bad, f, 1, w, FALSE) :
     t \in GnReads, ok \in BOOLEAN, bad \in {{}, {"q"}}, f \in {{}, {"unverified", "lose"}}, w \in 0..1}
  \cup {Asked((k1 :> [GnOrder("subscribe") EXCEPT !.cap = n]) @@ (k2 :> GnOrder("set")), bad, f, 0, 0, FALSE) :
     n \in {0, 1, 3, 4}, bad \in {{}, {"p"}}, f \in {{}, {"drop"}}}
  \cup {Asked((k1 :> [GnOrder(t) EXCEPT !.verify = FALSE]) @@ (k2 :> [GnOrder(t) EXCEPT !.paths = <<>>]), {}, {}, 0, 0, old) :
     t \in {"get", "set", "capabilities"}, old \in BOOLEAN}
=============================================================================

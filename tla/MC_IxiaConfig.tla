---------------------------- MODULE MC_IxiaConfig ----------------------------
(* IxiaConfig for three calls on one topology; the operators below are       *)
(* constants' values, chosen in the configurations.                          *)
EXTENDS IxiaConfig, TLC

CONSTANTS kim, lou, mia

\* One topology: a device group with a stack of every protocol, a second one
\* without; what the second letter is 2 of, is to be created.
IxTree ==
  [n \in {"t1", "t2", "x1", "x2"} |-> {}] @@ [n \in {"d1", "d2"} |-> {"t1"}]
  @@ [n \in {"e1", "g1"} |-> {"t1", "d1"}] @@ [n \in {"e2", "g2"} |-> {"t1", "d2"}]
  @@ ("i1" :> {"t1", "d1", "e1"}) @@ ("i2" :> {"t1", "d1", "e1"})
  @@ [n \in {"p1", "p2", "b1", "b2"} |-> {"t1", "d1", "e1", "i1"}]
  @@ [n \in {"v1", "v2"} |-> {"t1", "d1", "e1", "i1", "p1"}]
IxNodeNames == DOMAIN IxTree
IxLoadedNodes == {"t1", "d1", "d2", "e1", "i1", "p1", "v1", "b1", "g1", "x1"}
IxPairs(kind, pair) == [n \in pair |-> kind]
IxKinds ==
  IxPairs("topology", {"t1", "t2"}) @@ IxPairs("dg", {"d1", "d2"}) @@ IxPairs("item", {"x1", "x2"})
  @@ IxPairs("ethernet", {"e1", "e2"}) @@ IxPairs("ipv4", {"i1", "i2"})
  @@ IxPairs("peer", {"p1", "p2"}) @@ IxPairs("vrf", {"v1", "v2"})
  @@ IxPairs("bfd", {"b1", "b2"}) @@ IxPairs("netgroup", {"g1", "g2"})

IxOp(o, n) == [op |-> o, node |-> n, by |-> "ours", on |-> FALSE, lines |-> {}]
Elsewhere(o) == [o EXCEPT !.by = "theirs"]
Forced(o) == [o EXCEPT !.on = TRUE]
OnSession(o) == IxOp(o, "session")
IxRoute(o, on, ls) == [op |-> o, node |-> "g1", by |-> "ours", on |-> on, lines |-> ls]

Creates == {IxOp("create", n) : n \in {"t2", "e2", "i2", "p2", "v2", "b2", "g2", "x2"}}
Deletes == {IxOp("delete", n) : n \in {"t1", "d2", "e1", "i1", "p1", "v1", "b1", "g1", "x1"}}
Runs == {IxOp(o, n) : o \in {"start", "stop"}, n \in {"session", "t1", "d1"}}
Others == {OnSession(o) : o \in {"assign", "connect", "release", "new", "load", "wait"}}
          \cup {Forced(OnSession("assign"))}

Trio(a, b, c) == (kim :> a) @@ (lou :> b) @@ (mia :> c)
IxNone == Trio(OnSession("idle"), OnSession("idle"), OnSession("idle"))

\* Every edit against edits, starts and stops of another process; every
\* other tool against an edit, a start, a load and an assignment; three
\* route actions, in one process and in two; an apply and a start between;
\* and a device group that is created, deleted and wired to.
IxEverySetting ==
  {IxNone}
  \cup {Trio(a, Elsewhere(b), OnSession("idle")) : a \in Creates \cup Deletes,
          b \in {IxOp("create", "g2"), IxOp("delete", "e1"), IxOp("delete", "d2"),
                 IxOp("start", "t1"), IxOp("stop", "d1")}}
  \cup {Trio(a, Elsewhere(b), OnSession("idle")) : a \in Runs \cup Others,
          b \in {IxOp("create", "g2"), IxOp("start", "d1"), OnSession("load"), OnSession("assign")}}
  \cup {Trio(IxRoute("route", FALSE, {1}), [IxRoute("route", FALSE, {2}) EXCEPT !.by = p],
             Elsewhere(IxRoute("stage", TRUE, {1}))) : p \in {"ours", "theirs"}}
  \cup {Trio(IxRoute("route", FALSE, {1}), OnSession("apply"), Elsewhere(IxOp("start", "d1"))),
        Trio(IxRoute("stage", FALSE, {1}), OnSession("changes"), Elsewhere(IxOp("start", "d1"))),
        Trio(OnSession("release"), OnSession("assign"), Elsewhere(OnSession("assign"))),
        Trio(IxOp("create", "d2"), IxOp("delete", "d2"), Elsewhere(IxOp("create", "g2")))}
=============================================================================

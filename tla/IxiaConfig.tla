------------------------------ MODULE IxiaConfig ------------------------------
(***************************************************************************)
(* The configuration of one IxNetwork session, as the tools of qactl ixia   *)
(* change it (qactl/ixia/tools/build.py, stack.py, bfd.py, run.py,          *)
(* routes.py, ports.py, config.py): a tree of topologies, device groups and *)
(* the protocol stacks in them.                                             *)
(*                                                                         *)
(* Every REST call is a step of its own.  A tool holds the write lock of    *)
(* its process around its edits; the session is shared with other           *)
(* processes, which have locks of their own.                                *)
(***************************************************************************)
EXTENDS Naturals, FiniteSets

CONSTANTS
  IxCalls,     \* the tool calls of a behaviour
  IxSettings,  \* what they may be: [call -> [op, node, by, on]]
  IxNodes, IxKind, IxAbove,  \* the tree that can be: kinds, and all nodes above each
  IxLoaded,    \* the nodes of the loaded configuration
  IxLines,     \* the route lines of a network group
  MaxIxFaults  \* bound: REST calls that fail, interrupts and kills

Leaves == {"ethernet", "ipv4", "peer", "vrf", "bfd", "netgroup"}
Kinds == Leaves \cup {"topology", "dg", "item"}

\* Everything but a traffic item is a topology or below one.
ASSUME IxiaAssumption ==
  /\ "none" \notin IxCalls /\ \A s \in IxSettings, c \in IxCalls : s[c].on \in BOOLEAN
  /\ IxKind \in [IxNodes -> Kinds] /\ "session" \notin IxNodes
  /\ IxAbove \in [IxNodes -> SUBSET IxNodes] /\ IxLoaded \subseteq IxNodes
  /\ \A n \in IxNodes : IxKind[n] # "item" =>
       \E t \in IxAbove[n] \cup {n} : IxKind[t] = "topology"
  /\ \A n \in IxLoaded : IxAbove[n] \subseteq IxLoaded
  /\ MaxIxFaults \in Nat

VARIABLES
  ixOf,    \* of each call: what it does, to which node, in which process
  ixAt,    \* of each call: where it stands, see IxTypeOK
  tree,    \* of each node: "absent", "half" (posted, not yet patched) or "built"
  dgUp,    \* the device groups whose protocols run
  meant,   \* those somebody started, and nobody stopped, or failed to restart
  fresh,   \* those with edits that the test engine has not taken over
  engine,  \* the engine applies changes, and with which mask
  port,    \* the ports: "released", "booting" or "up"
  mask, wire, listed,  \* the active lines as configured and as advertised; the mask's pattern
  author,  \* of each line, the route action that wrote it last
  ixFaults

treeVars == <<tree, dgUp, meant, fresh>>
lineVars == <<mask, wire, listed, author>>
ixVars == <<ixOf, ixAt, treeVars, engine, port, lineVars, ixFaults>>

NoAuthor == "none"
NoMask == [l \in IxLines |-> FALSE]

Of == [kind \in Kinds |-> {n \in IxNodes : IxKind[n] = kind}]
Present(n) == tree[n] # "absent"
Below == [n \in IxNodes |-> {k \in IxNodes : k = n \/ n \in IxAbove[k]}]
Resolves(n) == \A a \in IxAbove[n] : Present(a)
DgsIn(n) == {d \in Of["dg"] : Present(d) /\ (n = "session" \/ d \in Below[n])}
DgsOver == [n \in IxNodes |-> {d \in Of["dg"] : n \in Below[d]}]
Topo == [n \in IxNodes |-> IF IxKind[n] = "item" THEN n
                           ELSE CHOOSE t \in Of["topology"] : n \in Below[t]]

IxInit ==
  /\ ixOf \in IxSettings
  /\ ixAt = [c \in IxCalls |-> [pc |-> "new", bounced |-> FALSE, verdict |-> "ok",
                               seen |-> NoMask, pattern |-> FALSE, stale |-> FALSE,
                               warned |-> FALSE, spoiled |-> FALSE]]
  /\ tree = [n \in IxNodes |-> IF n \in IxLoaded THEN "built" ELSE "absent"]
  /\ dgUp \in {{}, DgsIn("session")} /\ meant = dgUp /\ fresh = {}
  /\ engine = [busy |-> FALSE, mask |-> NoMask, fresh |-> {}]
  /\ port \in {"booting", "up"}
  /\ mask = [l \in IxLines |-> TRUE] /\ wire = mask /\ listed = FALSE
  /\ author = [l \in IxLines |-> NoAuthor]
  /\ ixFaults = 0

-----------------------------------------------------------------------------
Locked == {"stop", "post", "patch", "rollback", "remove", "restart", "write", "push", "pushed"}
Over == {"ok", "error", "warning", "interrupted", "killed"}

\* write_lock: one lock per process.
LockFree(c) == \A k \in IxCalls : ixOf[k].by = ixOf[c].by => ixAt[k].pc \notin Locked

Enter(c, op, kind) ==
  /\ ixAt[c].pc = "new" /\ ixOf[c].op = op /\ LockFree(c)
  /\ ixOf[c].node \in Of[kind]

Goto(c, pc) == ixAt' = [ixAt EXCEPT ![c].pc = pc]
Fault == ixFaults < MaxIxFaults /\ ixFaults' = ixFaults + 1

\* An edit: engine and other calls' knowledge of what is applied are behind.
Edited(n) == fresh' = fresh \cup DgsOver[n]
EditAt(c, at) ==
  ixAt' = [k \in IxCalls |-> IF k = c THEN at ELSE [ixAt[k] EXCEPT !.stale = TRUE]]

\* _topology_is_running: "mixed" counts as running.
TopologyRuns(t) == dgUp \cap DgsIn(t) # {}

\* Fault: only a call that went well restarts what it stopped.
Leaving_Ok(c, verdict) ==
  [ixAt[c] EXCEPT !.pc = IF ixAt[c].bounced /\ verdict = "ok" THEN "restart" ELSE verdict,
                  !.verdict = verdict]

\* The finally of _bounce_if_running stands before the end of a call.
Leaving(c, verdict) ==
  [ixAt[c] EXCEPT !.pc = IF ixAt[c].bounced THEN "restart" ELSE verdict, !.verdict = verdict]

\* _bounce_if_running up to its Stop, with the names resolved before.
Bounce(c, next) ==
  LET n == ixOf[c].node IN
  /\ IF ~Resolves(n) \/ (ixOf[c].op = "delete" /\ ~Present(n)) THEN Goto(c, "error")
     ELSE Goto(c, IF TopologyRuns(Topo[n]) THEN "stop" ELSE next)
  /\ UNCHANGED <<ixOf, treeVars, engine, port, lineVars, ixFaults>>

\* The Stop of a bounce, outside its try.  delete_topology has no restart.
StopFirst(c) ==
  LET t == Topo[ixOf[c].node] IN
  /\ ixAt[c].pc = "stop"
  /\ \/ /\ dgUp' = dgUp \ DgsIn(t)
        /\ ixAt' = [ixAt EXCEPT ![c].pc = IF ixOf[c].op = "create" THEN "post" ELSE "remove",
                                ![c].bounced = ixOf[c].node # t]
        /\ meant' = IF ixOf[c].node = t THEN meant \ DgsIn(t) ELSE meant
        /\ UNCHANGED ixFaults
     \/ Fault /\ Goto(c, "error") /\ UNCHANGED <<dgUp, meant>>
  /\ UNCHANGED <<ixOf, tree, fresh, engine, port, lineVars>>

\* What a Start brings up: nothing while the ports are not up, and a device
\* group with edits to be applied may be left out without a word.
Starting(dgs, up) ==
  /\ up \subseteq dgs
  /\ IF port = "up" THEN dgs \ fresh \subseteq up ELSE up = {}
  /\ dgUp' = dgUp \cup up /\ fresh' = fresh \ up

\* The Start of a bounce, in its finally.
Restart(c) ==
  LET dgs == DgsIn(Topo[ixOf[c].node]) IN
  /\ ixAt[c].pc = "restart"
  /\ \/ /\ Present(Topo[ixOf[c].node])
        /\ \E up \in SUBSET dgs : Starting(dgs, up) /\ meant' = meant \ (dgs \ dgUp')
        /\ Goto(c, ixAt[c].verdict) /\ UNCHANGED ixFaults
     \/ /\ IF Present(Topo[ixOf[c].node]) THEN Fault ELSE UNCHANGED ixFaults
        /\ meant' = meant \ (dgs \ dgUp)
        /\ Goto(c, "error") /\ UNCHANGED <<dgUp, fresh>>
  /\ UNCHANGED <<ixOf, tree, engine, port, lineVars>>

-----------------------------------------------------------------------------
(* Creating.                                                               *)

\* The POST of a node; what fails after it is rolled back.
Post(c, state, next, failed) ==
  LET n == ixOf[c].node IN
  /\ \/ /\ Resolves(n) /\ ~Present(n)
        /\ tree' = [tree EXCEPT ![n] = state] /\ Edited(n)
        /\ EditAt(c, [ixAt[c] EXCEPT !.pc = next]) /\ UNCHANGED ixFaults
     \/ /\ IF Resolves(n) /\ ~Present(n) THEN Fault ELSE UNCHANGED ixFaults
        /\ ixAt' = [ixAt EXCEPT ![c] = failed] /\ UNCHANGED <<tree, fresh>>
  /\ UNCHANGED <<ixOf, dgUp, meant, engine, port, lineVars>>

Failed(c) == [ixAt[c] EXCEPT !.pc = "error"]

CreateTopology(c) == Enter(c, "create", "topology") /\ Post(c, "built", "ok", Failed(c))
CreateDeviceGroup(c) == Enter(c, "create", "dg") /\ Post(c, "built", "ok", Failed(c))
CreateEthernet(c) == Enter(c, "create", "ethernet") /\ Post(c, "half", "patch", Failed(c))
CreateIpv4(c) == Enter(c, "create", "ipv4") /\ Post(c, "half", "patch", Failed(c))
CreateBgpPeer(c) == Enter(c, "create", "peer") /\ Post(c, "half", "patch", Failed(c))
CreateBgpVrf(c) == Enter(c, "create", "vrf") /\ Post(c, "half", "patch", Failed(c))
CreateBfd(c) == Enter(c, "create", "bfd") /\ Post(c, "half", "patch", Failed(c))
CreateTrafficItem(c) == Enter(c, "create", "item") /\ Post(c, "half", "patch", Failed(c))

\* A network group is posted and wired to its peer on a stopped topology.
CreateNetworkGroup(c) == Enter(c, "create", "netgroup") /\ Bounce(c, "post")
PostGroup(c) == ixAt[c].pc = "post" /\ Post(c, "half", "patch", Leaving(c, "error"))

\* The connector of a network group is refused while the topology runs.
Refusing(n) == ~Present(n) \/ (IxKind[n] = "netgroup" /\ TopologyRuns(Topo[n]))

\* Fault: what a failed patch leaves stays.
PatchFails_Stays(c) == ixAt' = [ixAt EXCEPT ![c] = Leaving(c, "error")]

\* A traffic item is not rolled back.
PatchFails(c) ==
  IF IxKind[ixOf[c].node] = "item"
  THEN ixAt' = [ixAt EXCEPT ![c].pc = "error", ![c].spoiled = TRUE]
  ELSE Goto(c, "rollback")

\* The patches of a new node, of which any may be refused.
Patch(c) ==
  LET n == ixOf[c].node IN
  /\ ixAt[c].pc = "patch"
  /\ \/ /\ ~Refusing(n)
        /\ tree' = [tree EXCEPT ![n] = "built"] /\ Edited(n)
        /\ EditAt(c, Leaving(c, "ok")) /\ UNCHANGED ixFaults
     \/ /\ IF Refusing(n) THEN UNCHANGED ixFaults ELSE Fault
        /\ PatchFails(c) /\ UNCHANGED <<tree, fresh>>
  /\ UNCHANGED <<ixOf, dgUp, meant, engine, port, lineVars>>

\* Nodes disappear, with everything below them.
Gone(n) ==
  /\ tree' = [k \in IxNodes |-> IF k \in Below[n] THEN "absent" ELSE tree[k]]
  /\ dgUp' = dgUp \ Below[n] /\ meant' = meant \ Below[n]
  /\ fresh' = (fresh \cup DgsOver[n]) \ Below[n]

\* The rollback; it too may be refused, above all while the topology runs,
\* and the call keeps that to itself.
TakeBack(c) ==
  LET n == ixOf[c].node IN
  /\ ixAt[c].pc = "rollback"
  /\ \/ Gone(n) /\ EditAt(c, Leaving(c, "error")) /\ UNCHANGED ixFaults
     \/ /\ IF ~Present(n) \/ TopologyRuns(Topo[n]) THEN UNCHANGED ixFaults ELSE Fault
        /\ ixAt' = [ixAt EXCEPT ![c] = [Leaving(c, "error") EXCEPT !.spoiled = TRUE]]
        /\ UNCHANGED treeVars
  /\ UNCHANGED <<ixOf, engine, port, lineVars>>

-----------------------------------------------------------------------------
(* Deleting.                                                               *)

Delete(c, kind) == Enter(c, "delete", kind) /\ Bounce(c, "remove")

DeleteTopology(c) == Delete(c, "topology")
DeleteDeviceGroup(c) == Delete(c, "dg")
DeleteNetworkGroup(c) == Delete(c, "netgroup")
DeleteEthernet(c) == Delete(c, "ethernet")
DeleteIpv4(c) == Delete(c, "ipv4")
DeleteBgpPeer(c) == Delete(c, "peer")
DeleteBgpVrf(c) == Delete(c, "vrf")
DeleteBfd(c) == Delete(c, "bfd")
DeleteTrafficItem(c) ==
  /\ Enter(c, "delete", "item")
  /\ Goto(c, IF Present(ixOf[c].node) THEN "remove" ELSE "error")
  /\ UNCHANGED <<ixOf, treeVars, engine, port, lineVars, ixFaults>>

\* Refused while the topology runs, which somebody may have started again.
RemoveNode(c) ==
  LET n == ixOf[c].node
      refused == ~Present(n) \/ (IxKind[n] # "item" /\ TopologyRuns(Topo[n])) IN
  /\ ixAt[c].pc = "remove"
  /\ \/ ~refused /\ Gone(n) /\ EditAt(c, Leaving(c, "ok")) /\ UNCHANGED ixFaults
     \/ /\ IF refused THEN UNCHANGED ixFaults ELSE Fault
        /\ ixAt' = [ixAt EXCEPT ![c] = Leaving(c, "error")] /\ UNCHANGED treeVars
  /\ UNCHANGED <<ixOf, engine, port, lineVars>>

\* A configuration takes the place of the old one: everything is stopped.
Replaced(nodes, ports, c, next) ==
  /\ ixAt[c].pc = "new" /\ LockFree(c)
  /\ \/ /\ tree' = [n \in IxNodes |-> IF n \in nodes THEN "built" ELSE "absent"]
        /\ dgUp' = {} /\ meant' = {} /\ fresh' = {} /\ port' = ports
        /\ mask' = [l \in IxLines |-> TRUE] /\ wire' = mask' /\ listed' = FALSE
        /\ author' = [l \in IxLines |-> NoAuthor]
        /\ engine' = [busy |-> FALSE, mask |-> NoMask, fresh |-> {}]
        /\ EditAt(c, [ixAt[c] EXCEPT !.pc = next]) /\ UNCHANGED ixFaults
     \/ Fault /\ Goto(c, "error") /\ UNCHANGED <<treeVars, port, lineVars, engine>>
  /\ UNCHANGED ixOf

NewConfig(c) == ixOf[c].op = "new" /\ Replaced({}, "released", c, "ok")

\* The ports of a loaded configuration boot; the load waits for them after
\* it has given the lock back.
LoadConfig(c) == ixOf[c].op = "load" /\ Replaced(IxLoaded, "booting", c, "vports")

-----------------------------------------------------------------------------
(* Starting and stopping.                                                  *)

\* assign_port reads the owner before it takes the lock, and refuses a port
\* that has one unless it is forced; the session's own user is an owner too.
AssignPort(c) ==
  /\ ixAt[c].pc = "new" /\ ixOf[c].op = "assign"
  /\ Goto(c, IF port = "released" \/ ixOf[c].on THEN "take" ELSE "error")
  /\ UNCHANGED <<ixOf, treeVars, engine, port, lineVars, ixFaults>>

TakePort(c) ==
  /\ ixAt[c].pc = "take" /\ LockFree(c)
  /\ IF port = "released" \/ ixOf[c].on THEN port' = "booting" /\ Goto(c, "vports")
     ELSE Goto(c, "error") /\ UNCHANGED port
  /\ UNCHANGED <<ixOf, treeVars, engine, lineVars, ixFaults>>

ConnectPort(c) ==
  /\ ixAt[c].pc = "new" /\ ixOf[c].op = "connect" /\ LockFree(c)
  /\ port' = (IF port = "up" THEN "up" ELSE "booting") /\ Goto(c, "vports")
  /\ UNCHANGED <<ixOf, treeVars, engine, lineVars, ixFaults>>

ReleasePort(c) ==
  /\ ixAt[c].pc = "new" /\ ixOf[c].op = "release" /\ LockFree(c)
  /\ port' = "released" /\ Goto(c, "ok")
  /\ UNCHANGED <<ixOf, treeVars, engine, lineVars, ixFaults>>

BootPort ==
  /\ port = "booting" /\ port' = "up"
  /\ UNCHANGED <<ixOf, ixAt, treeVars, engine, lineVars, ixFaults>>

\* session wait-vports.
WaitVports(c) ==
  /\ ixAt[c].pc = "new" /\ ixOf[c].op = "wait" /\ Goto(c, "vports")
  /\ UNCHANGED <<ixOf, treeVars, engine, port, lineVars, ixFaults>>

\* wait_for_vports_ready, after a load or an assignment: in time or not.
VportsWaited(c) ==
  /\ ixAt[c].pc = "vports"
  /\ Goto(c, IF port = "up" THEN "ok" ELSE "warning")
  /\ UNCHANGED <<ixOf, treeVars, engine, port, lineVars, ixFaults>>

\* The preflight of a start: the target, then the ports.
Preflight(c) ==
  /\ ixAt[c].pc = "new" /\ ixOf[c].op = "start"
  /\ Goto(c, IF (ixOf[c].node # "session" => Present(ixOf[c].node)) /\ port = "up"
             THEN "apply" ELSE "error")
  /\ UNCHANGED <<ixOf, treeVars, engine, port, lineVars, ixFaults>>

Pending == fresh # {} \/ mask # wire

\* applyOnTheFlyState, read first; the lock is not held.
ApplyFirst(c) ==
  /\ ixAt[c].pc = "apply"
  /\ IF engine.busy \/ ~Pending
     THEN ixAt' = [ixAt EXCEPT ![c].pc = "start", ![c].stale = engine.busy]
     ELSE Goto(c, "applying")
  /\ UNCHANGED <<ixOf, treeVars, engine, port, lineVars, ixFaults>>

Applying == engine' = [busy |-> TRUE, mask |-> mask, fresh |-> fresh]

\* applyonthefly before a start: refused while another one goes on, which adds
\* a warning to the envelope and leaves its status alone.
PushFirst(c) ==
  /\ ixAt[c].pc = "applying"
  /\ IF engine.busy
     THEN /\ ixAt' = [ixAt EXCEPT ![c].pc = "start", ![c].stale = TRUE, ![c].warned = TRUE]
          /\ UNCHANGED engine
     ELSE Applying /\ ixAt' = [ixAt EXCEPT ![c].pc = "applied", ![c].stale = FALSE]
  /\ UNCHANGED <<ixOf, treeVars, port, lineVars, ixFaults>>

\* Fault: the state is not polled.
ApplyWaited_Not(c) ==
  /\ ixAt[c].pc = "applied" /\ Goto(c, "start")
  /\ UNCHANGED <<ixOf, treeVars, engine, port, lineVars, ixFaults>>

\* Polled until nothing is left to apply, or the deadline, which adds a warning.
ApplyWaited(c) ==
  /\ ixAt[c].pc = "applied"
  /\ \/ ~engine.busy /\ ~Pending /\ Goto(c, "start")
     \/ /\ engine.busy \/ Pending
        /\ ixAt' = [ixAt EXCEPT ![c].pc = "start", ![c].warned = TRUE]
  /\ UNCHANGED <<ixOf, treeVars, engine, port, lineVars, ixFaults>>

\* The engine has taken the changes over.
EngineDone ==
  /\ engine.busy /\ engine' = [engine EXCEPT !.busy = FALSE]
  /\ wire' = engine.mask /\ fresh' = fresh \ engine.fresh
  /\ UNCHANGED <<ixOf, ixAt, tree, dgUp, meant, port, mask, listed, author, ixFaults>>

StartGroups(c, kinds) ==
  LET n == ixOf[c].node  dgs == DgsIn(n)
      refused == n # "session" /\ ~Present(n) IN
  /\ ixAt[c].pc = "start" /\ LockFree(c)
  /\ n \in kinds
  /\ \/ /\ ~refused
        /\ \E up \in SUBSET dgs : Starting(dgs, up) /\ meant' = meant \cup up
        /\ Goto(c, ixAt[c].verdict) /\ UNCHANGED ixFaults
     \/ /\ IF refused THEN UNCHANGED ixFaults ELSE Fault
        /\ Goto(c, "error") /\ UNCHANGED <<dgUp, meant, fresh>>
  /\ UNCHANGED <<ixOf, tree, engine, port, lineVars>>

StartAll(c) == StartGroups(c, {"session"})
StartTopology(c) == StartGroups(c, Of["topology"])
StartDg(c) == StartGroups(c, Of["dg"])

StopGroups(c, kinds) ==
  LET n == ixOf[c].node  dgs == DgsIn(n) IN
  /\ ixAt[c].pc = "new" /\ ixOf[c].op = "stop" /\ LockFree(c)
  /\ n \in kinds
  /\ IF n # "session" /\ ~Present(n)
     THEN Goto(c, "error") /\ UNCHANGED <<dgUp, meant>>
     ELSE dgUp' = dgUp \ dgs /\ meant' = meant \ dgs /\ Goto(c, "ok")
  /\ UNCHANGED <<ixOf, tree, fresh, engine, port, lineVars, ixFaults>>

StopAll(c) == StopGroups(c, {"session"})
StopTopology(c) == StopGroups(c, Of["topology"])
StopDg(c) == StopGroups(c, Of["dg"])

-----------------------------------------------------------------------------
(* Routes: the lines of a network group are advertised or withdrawn.       *)

\* route_action reads the whole mask and its pattern.
ReadLines(c) ==
  /\ Enter(c, "route", "netgroup") \/ Enter(c, "stage", "netgroup")
  /\ IF Present(ixOf[c].node)
     THEN ixAt' = [ixAt EXCEPT ![c].pc = "write", ![c].seen = mask, ![c].pattern = listed,
                               ![c].stale = FALSE]
     ELSE Goto(c, "error")
  /\ UNCHANGED <<ixOf, treeVars, engine, port, lineVars, ixFaults>>

\* Fault: lines that are not targeted are written as advertised.
NewLines_All(c) == [l \in IxLines |-> l \notin ixOf[c].lines \/ ixOf[c].on]

NewLines(c) == [l \in IxLines |-> IF l \in ixOf[c].lines THEN ixOf[c].on ELSE ixAt[c].seen[l]]

\* The line's last author is of another process, and something was edited
\* since the mask was read.
Foreign(c, l) == ixAt[c].stale /\ author[l] # NoAuthor /\ ixOf[author[l]].by # ixOf[c].by

\* The whole mask is written: into the list that is there, or as a new one,
\* which the server refuses when there is one.  A line another process wrote
\* meanwhile has lost what it said, and its author.  A staged one is not
\* pushed.
WriteLines(c) ==
  LET refused == ~Present(ixOf[c].node) \/ ixAt[c].pattern # listed IN
  /\ ixAt[c].pc = "write"
  /\ \/ /\ ~refused
        /\ mask' = NewLines(c) /\ listed' = TRUE
        /\ author' = [l \in IxLines |->
              IF l \in ixOf[c].lines THEN c ELSE IF Foreign(c, l) THEN NoAuthor ELSE author[l]]
        /\ EditAt(c, [ixAt[c] EXCEPT !.pc = IF ixOf[c].op = "route" THEN "push" ELSE "ok"])
        /\ UNCHANGED ixFaults
     \/ /\ IF refused THEN UNCHANGED ixFaults ELSE Fault
        /\ Goto(c, "error") /\ UNCHANGED <<mask, listed, author>>
  /\ UNCHANGED <<ixOf, treeVars, engine, port, wire>>

\* applyonthefly, unasked; the server refuses a second one at a time.
PushLines(c) ==
  /\ ixAt[c].pc = "push"
  /\ IF engine.busy THEN Goto(c, "error") /\ UNCHANGED engine
     ELSE Applying /\ ixAt' = [ixAt EXCEPT ![c].pc = "pushed", ![c].stale = FALSE]
  /\ UNCHANGED <<ixOf, treeVars, port, lineVars, ixFaults>>

LinesPushed(c) ==
  /\ ixAt[c].pc = "pushed"
  /\ Goto(c, IF engine.busy \/ Pending THEN "warning" ELSE "ok")
  /\ UNCHANGED <<ixOf, treeVars, engine, port, lineVars, ixFaults>>

\* route_apply_pending pushes what others have written.
ApplyPending(c) ==
  /\ ixAt[c].pc = "new" /\ ixOf[c].op = "apply" /\ LockFree(c)
  /\ Goto(c, "push")
  /\ UNCHANGED <<ixOf, treeVars, engine, port, lineVars, ixFaults>>

\* apply_changes too, when there is something and nobody is at it.
ApplyChanges(c) ==
  /\ ixAt[c].pc = "new" /\ ixOf[c].op = "changes" /\ LockFree(c)
  /\ Goto(c, IF engine.busy \/ ~Pending THEN "ok" ELSE "push")
  /\ UNCHANGED <<ixOf, treeVars, engine, port, lineVars, ixFaults>>

-----------------------------------------------------------------------------
(* Interrupts and kills.                                                   *)

\* Ctrl-C passes the rollback by, not the finally of a bounce; the Stop of a
\* bounce is before its try.
Interrupt(c) ==
  LET down == ixAt[c].pc = "stop" IN
  /\ Fault /\ ixAt[c].pc \notin Over \cup {"new", "restart"}
  /\ ixAt' = [ixAt EXCEPT ![c] = [Leaving(c, "interrupted") EXCEPT !.spoiled = TRUE]]
  /\ \/ UNCHANGED <<dgUp, meant>>
     \/ /\ down /\ dgUp' = dgUp \ DgsIn(Topo[ixOf[c].node])
        /\ meant' = meant \ DgsIn(Topo[ixOf[c].node])
  /\ UNCHANGED <<ixOf, tree, fresh, engine, port, lineVars>>

\* A killed process restarts nothing.
KillIx(c) ==
  LET lost == IF ixAt[c].bounced THEN DgsIn(Topo[ixOf[c].node]) \ dgUp ELSE {} IN
  /\ Fault /\ ixAt[c].pc \notin Over \cup {"new"}
  /\ ixAt' = [ixAt EXCEPT ![c].pc = "killed", ![c].spoiled = TRUE]
  /\ meant' = meant \ lost
  /\ UNCHANGED <<ixOf, tree, dgUp, fresh, engine, port, lineVars>>

Create(c) ==
  \/ CreateTopology(c) \/ CreateDeviceGroup(c) \/ CreateEthernet(c) \/ CreateIpv4(c)
  \/ CreateBgpPeer(c) \/ CreateBgpVrf(c) \/ CreateBfd(c) \/ CreateNetworkGroup(c)
  \/ CreateTrafficItem(c)

Deletion(c) ==
  \/ DeleteTopology(c) \/ DeleteDeviceGroup(c) \/ DeleteNetworkGroup(c) \/ DeleteEthernet(c)
  \/ DeleteIpv4(c) \/ DeleteBgpPeer(c) \/ DeleteBgpVrf(c) \/ DeleteBfd(c) \/ DeleteTrafficItem(c)

\* What a call that has begun goes on with.
IxStep(c) ==
  \/ StopFirst(c) \/ PostGroup(c) \/ Patch(c) \/ TakeBack(c) \/ RemoveNode(c) \/ Restart(c)
  \/ TakePort(c) \/ VportsWaited(c) \/ ApplyFirst(c) \/ PushFirst(c) \/ ApplyWaited(c)
  \/ StartAll(c) \/ StartTopology(c) \/ StartDg(c)
  \/ WriteLines(c) \/ PushLines(c) \/ LinesPushed(c)

IxNext ==
  \/ \E c \in IxCalls :
       \/ Create(c) \/ Deletion(c) \/ NewConfig(c) \/ LoadConfig(c)
       \/ AssignPort(c) \/ ConnectPort(c) \/ ReleasePort(c)
       \/ Preflight(c) \/ StopAll(c) \/ StopTopology(c) \/ StopDg(c)
       \/ ReadLines(c) \/ ApplyPending(c) \/ ApplyChanges(c) \/ WaitVports(c)
       \/ IxStep(c) \/ Interrupt(c) \/ KillIx(c)
  \/ BootPort \/ EngineDone

IxSpec == IxInit /\ [][IxNext]_ixVars

IxFairness == WF_ixVars(\E c \in IxCalls : IxStep(c))

-----------------------------------------------------------------------------
\* The types of the variables.
IxTypeOK ==
  /\ tree \in [IxNodes -> {"absent", "half", "built"}]
  /\ meant \subseteq Of["dg"] /\ dgUp \subseteq Of["dg"] /\ fresh \subseteq Of["dg"]
  /\ \A c \in IxCalls : ixAt[c].pc \in
       Over \cup Locked \cup {"new", "apply", "applying", "applied", "start", "take", "vports"}
  /\ mask \in [IxLines -> BOOLEAN] /\ wire \in [IxLines -> BOOLEAN]

\* A node that is posted and not patched belongs to a call that still works on
\* it: a call that fails takes it back ("so the topology doesn't accumulate
\* half-built zombies", build.py:519), whatever other processes do to the tree
\* meanwhile.  Exceptions: a refused rollback, Ctrl-C, a kill, a traffic item.
HalfBuiltIsOwned ==
  \A n \in IxNodes : tree[n] = "half" =>
    \E c \in IxCalls : /\ ixOf[c].op = "create" /\ ixOf[c].node = n
                       /\ \/ ixAt[c].pc \in {"patch", "rollback"}
                          \/ ixAt[c].spoiled

\* A device group that somebody started, and nobody stopped, runs, unless a
\* call that has stopped it for an edit is still to start it: also when the
\* edit fails, and when the bounces of several processes overlap.
RunningComesBack ==
  \A d \in meant \ dgUp : \E c \in IxCalls :
    ixAt[c].bounced /\ ixAt[c].pc \notin Over /\ d \in Below[Topo[ixOf[c].node]]

\* A start that says ok has brought up what it was to start, unless its own
\* apply was refused or late (the envelope then has a warning, and its status
\* is ok, not "warning" as run.py:67-69 says), or somebody edited the tree or an apply of somebody else was under way
\* after it had looked: these leave a start without effect and without a word.
StartBringsUp ==
  [][\A c \in IxCalls :
       ixAt[c].pc = "start" /\ ixAt'[c].pc = "ok" /\ port = "up" /\ ~(ixAt[c].stale \/ ixAt[c].warned)
         => DgsIn(ixOf[c].node) \subseteq dgUp']_ixVars

\* Each route line is configured as the last action upon it said, whatever
\* actions upon other lines were made since, of threads of the same process
\* or after it had finished; and what is answered as applied is on the wire.
RoutesHold ==
  /\ \A l \in IxLines : author[l] # NoAuthor => mask[l] = ixOf[author[l]].on
  /\ \A c \in IxCalls : \A l \in IxLines :
       ixAt[c].pc = "ok" /\ ixOf[c].op = "route" /\ author[l] = c => wire[l] = mask[l]

\* What an edit of an IxNetwork session breaks on its way is mended by the
\* same call, whatever fails in it and whatever other processes do meanwhile:
\* a node that is posted and not patched is taken back, and the device groups
\* it stopped for the edit are started again.
EditsCleanUp == HalfBuiltIsOwned /\ RunningComesBack

\* The tree and the route lines of an IxNetwork session are as the tools say.
SessionHolds == EditsCleanUp /\ RoutesHold

IxQuiet == \A c \in IxCalls : ixAt[c].pc \in Over \cup {"new"}
=============================================================================

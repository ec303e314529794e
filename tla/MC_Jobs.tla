------------------------------- MODULE MC_Jobs -------------------------------
(* Work that outlives the call that starts it: tar loads and pre-checks     *)
(* with their envelopes, TarLoadJobs; tech-supports with the registry of    *)
(* each process, TechSupport; the runs of `qactl orc`, Orchestrator; the     *)
(* captures of one device at the same time, Capture; the builds of Jenkins,  *)
(* Builds; and what the loads do to the box, Staging.  A behaviour exercises *)
(* one of the six, `part`; the others do nothing.                            *)
EXTENDS MC_TarLoadJobs, MC_Staging, TechSupport, Orchestrator, Capture, Builds

CONSTANTS s1, s2, c1, c2, c3, u1, u2

\* Two tech-supports of different processes, and the names that hold one
\* another: _bgp_ is in ts_core_bgp_x_HH_MM_SS_DD-MM-YYYY.tar.
InProcesses == (s1 :> "server") @@ (s2 :> "cli")
LongerHoldsShorter == {<<"bgp", "bgp">>, <<"core_bgp_x", "core_bgp_x">>, <<"bgp", "core_bgp_x">>}

\* Every shape of a run.
OneAfterAnother == <<"first", "second">>
AllRuns == [detach : BOOLEAN, build : BOOLEAN]

\* Three captures: some at the sink of one NCP, some of one name.
As(mode, path) == [mode |-> mode, path |-> path]
AtOneNcp ==
  {(c1 :> As("datapath", "p1")) @@ (c2 :> As("datapath", p)) @@ (c3 :> As("cdnos", "p3")) : p \in {"p1", "p2"}}
OfOneName == {(c1 :> As("routing", "p1")) @@ (c2 :> As("routing", "p1")) @@ (c3 :> As("routing", "p2"))}
CaptureSettings == AtOneNcp \cup OfOneName

\* Two calls: a trigger of each kind and what is done with its item and its
\* build, the second of Jenkins, while others trigger and stop builds.
BdOrder(t) ==
  [tool |-> t, gate |-> "--yes", wait |-> FALSE, notify |-> TRUE, own |-> FALSE, inherit |-> FALSE,
   extra |-> FALSE, flag |-> "yes", by |-> "nothing", of |-> 0]
Attached(t, by, n) == [BdOrder(t) EXCEPT !.by = by, !.of = n]
Waiting(o) == [o EXCEPT !.wait = TRUE]
Building(orders, faults, n, l) == [orders |-> orders, faults |-> faults, others |-> n, links |-> l]
BdIdle == Building(<<>>, {}, 0, 0)
BdEverySetting ==
  {BdIdle} \cup
  {Building((u1 :> a) @@ (u2 :> b), {}, 0, 0) :
     a \in {BdOrder("trigger"), Waiting(BdOrder("trigger_raw"))},
     b \in {Attached("stop", "item", 1), Attached("stop", "number", 2), Waiting(BdOrder("trigger"))}}
  \cup {Building(u1 :> Waiting(BdOrder("trigger")), {}, 1, 0), Building(u1 :> BdOrder("artifacts"), {"http"}, 1, 2)}
  \cup {Building(u1 :> o, f, 0, 0) :
     o \in {[Waiting(BdOrder("trigger")) EXCEPT !.inherit = TRUE, !.extra = e] : e \in BOOLEAN}
            \cup {[BdOrder("trigger") EXCEPT !.own = e] : e \in BOOLEAN} \cup {BdOrder("trigger_raw")}
            \cup {Waiting([BdOrder("trigger") EXCEPT !.notify = FALSE])},
     f \in {{"http", "refuse", "lose", "no location", "no spawn"}, {"mute", "unsure"}}}
  \cup {Building((u1 :> BdOrder("trigger_raw")) @@ (u2 :> b), {"http", "refuse", "lose"}, 0, 1) :
     b \in {Attached("stop", "item", 1), Attached("stop", "number", 2), Attached("artifacts", "number", 2)}}
  \cup {Building(u1 :> Attached("watch", by, n), {}, 1, 0) : by \in {"item", "number"}, n \in {1, 2}}
  \cup {Building(u1 :> o, {}, 0, 0) :
     o \in {[a EXCEPT !.gate = g] : a \in {BdOrder("trigger"), Attached("stop", "number", 1)},
                                    g \in {"asked, yes", "asked, no", "not asked"}}
            \cup {BdOrder("watch"), BdOrder("stop")}}

VARIABLE part

jobVars == <<vars, tsVars, orcVars, capVars, bdVars, sgVars, part>>

JobsInit ==
  /\ part \in {"tarload", "techsupport", "orc", "capture", "builds", "staging"}
  /\ Init /\ TsInit /\ OrcInit /\ CapInit
  /\ BdInit /\ (part = "builds" <=> bdSetting # BdIdle)
  /\ SgInit /\ (part = "staging" <=> sgOf # SgIdle)
  /\ part # "orc" => ~order.detach /\ ~order.build
  /\ part # "capture" => capOf \in OfOneName

\* A step of one part leaves the others alone.
Only(p) ==
  /\ part = p /\ UNCHANGED part
  /\ p # "tarload" => UNCHANGED vars
  /\ p # "techsupport" => UNCHANGED tsVars
  /\ p # "orc" => UNCHANGED orcVars
  /\ p # "capture" => UNCHANGED capVars
  /\ p # "builds" => UNCHANGED bdVars
  /\ p # "staging" => UNCHANGED sgVars

JobsNext ==
  \/ Only("tarload") /\ Next
  \/ Only("techsupport") /\ TsNext
  \/ Only("orc") /\ OrcNext
  \/ Only("capture") /\ CapNext
  \/ Only("builds") /\ BdNext
  \/ Only("staging") /\ SgNext
  \/ part # "tarload" /\ UNCHANGED jobVars

\* The captures are there in every part, and go on in theirs only.
JobsFairness ==
  /\ TarLoadFairness /\ TsFairness /\ OrcFairness /\ BdFairness /\ SgFairness
  /\ WF_jobVars(Only("capture") /\ \E c \in Caps : CapStep(c))

JobsSpec == JobsInit /\ [][JobsNext]_jobVars /\ JobsFairness

\* The types of the variables.
TypesOK == TypeOK /\ TsTypeOK /\ OrcTypeOK /\ CapTypeOK /\ BdTypeOK /\ SgTypeOK

\* The loads of a server: one at a time and visible from the first to the
\* last; a done one is staged, and its pre-check is its own.
LoadsAreSound ==
  ServerOneLoad /\ LiveIsVisible /\ DoneIsStaged /\ StagedAsTold /\ VerdictIsOurs

CapturesEnd == part = "capture" => CapQuiet

\* Every kickoff gives the slot of the device back and every job comes to an
\* end: whatever a command, a poll, a download or a build answers, and also
\* when the process that works on it, or its parent, is killed.
EveryJobEnds == []<>(slot = None /\ TsQuiet /\ OrcQuiet /\ CapturesEnd /\ BdQuiet /\ SgQuiet)
=============================================================================

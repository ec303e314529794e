----------------------------- MODULE MC_Registry -----------------------------
(* The files and gates that qactl processes share with nothing but locks    *)
(* between them: the map of devices, DeviceMap; the memory of the event     *)
(* collector, EventSpool; the gNMI pacing, RateGate; the backups, Archives; *)
(* the templates, Templates; and the two protocols that need nothing else,  *)
(* RESTCONF and gNMI.  A behaviour exercises one of them, `part`; the       *)
(* others do nothing.                                                       *)
EXTENDS MC_DeviceMap, EventSpool, RateGate, MC_Stores

DeviceEdits == NamesOrAddresses \cup {Setting(OneDevice, {}, 0, 0)}

CONSTANTS t1, t2, t3, d1, d2, e1, e2, e3

\* Two threads of one process and one of another; two events of d1 that
\* alert, the first of which may be read after the second, and one of d2
\* that does not.
Threads == (t1 :> "one") @@ (t2 :> "one") @@ (t3 :> "other")
InTurn == <<d1, d2>>
EventOn == (e1 :> d1) @@ (e2 :> d1) @@ (e3 :> d2)
EventAt == (e1 :> 1) @@ (e2 :> 2) @@ (e3 :> 2)

Spooled(threads, f, r, n, back, flips) ==
  [tickers |-> threads, faults |-> f, resets |-> r, ticks |-> n, setbacks |-> back, flips |-> flips]
NoTicks == Spooled({}, {}, FALSE, 0, 0, 0)

\* Two threads and a crash; two processes; every fault; a link and a crash.
SpoolPlans ==
  {NoTicks, Spooled({t1, t2}, {"crash"}, FALSE, 2, 1, 0), Spooled({t1, t3}, {}, FALSE, 2, 0, 0),
   Spooled({t1}, SpoolFaults, TRUE, 2, 1, 0), Spooled({t1}, {"crash"}, FALSE, 2, 1, 1)}

VARIABLE part

registryVars == <<mapVars, eventVars, gateVars, arVars, tpVars, rcVars, gnVars, part>>

Parts == {"map", "spool", "gate", "archives", "templates", "restconf", "gnmi"}

RegistryInit ==
  /\ part \in Parts
  /\ MapInit /\ (part = "map" <=> setting.ops # {})
  /\ EventInit /\ (part = "spool" <=> plan # NoTicks)
  /\ GateInit
  /\ ArInit /\ (part = "archives" <=> arSetting # ArIdle)
  /\ TpInit /\ (part = "templates" <=> tpSetting # TpIdle)
  /\ RcInit /\ (part = "restconf" <=> rcSetting # RcIdle)
  /\ GnInit /\ (part = "gnmi" <=> gnSetting # GnIdle)

\* A step of one part leaves the others alone.
Only(p) ==
  /\ part = p /\ UNCHANGED part
  /\ p # "map" => UNCHANGED mapVars
  /\ p # "spool" => UNCHANGED eventVars
  /\ p # "gate" => UNCHANGED gateVars
  /\ p # "archives" => UNCHANGED arVars
  /\ p # "templates" => UNCHANGED tpVars
  /\ p # "restconf" => UNCHANGED rcVars
  /\ p # "gnmi" => UNCHANGED gnVars

RegistryNext ==
  \/ Only("map") /\ MapNext
  \/ Only("spool") /\ EventNext
  \/ Only("gate") /\ GateNext
  \/ Only("archives") /\ ArNext
  \/ Only("templates") /\ TpNext
  \/ Only("restconf") /\ RcNext
  \/ Only("gnmi") /\ GnNext
  \/ part # "map" /\ UNCHANGED registryVars

RegistrySpec == RegistryInit /\ [][RegistryNext]_registryVars /\ MapFairness

\* The types of the variables.
TypesOK ==
  /\ MapTypeOK /\ EventTypeOK /\ ArTypeOK
  /\ TpTypeOK /\ RcTypeOK /\ GnTypeOK
=============================================================================

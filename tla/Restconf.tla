------------------------------- MODULE Restconf -------------------------------
(***************************************************************************)
(* RESTCONF over the ODL controllers: a controller mounts a device, that is *)
(* holds a NETCONF session to the address it was given, and a local file    *)
(* says which mount serves which device.  The tools mount add, status and   *)
(* remove of qactl/dnos/rc/tools/mount.py over core/odl_mount.py, the reads *)
(* and writes of tools/rw.py, and the file of core/registry.py.             *)
(*                                                                         *)
(* Every tool is one process that takes no lock.  The file is read whole,   *)
(* changed and written in place, which empties it first.                    *)
(***************************************************************************)
EXTENDS Naturals, FiniteSets, Functions

CONSTANTS
  RcCallers,   \* the calls
  RcSettings   \* what a run lets happen, see RcSettingsOK

RcFaults == {"lose", "reject", "drop", "unverified", "crash"}
RcWrites == {"put", "patch", "post", "delete"}
RcTools == {"add", "status", "remove", "get", "keys"} \cup RcWrites

\* A setting: what each call is; the chassis every name means, itself its own
\* name if it is one; the address the device map holds for a chassis, and the
\* one it has and no other; the controllers; which mounts exist, on which
\* controller and under which name, and are in the file; the faults; and a
\* bound on how often two chassis swap their addresses.
RcSettingsOK == \A s \in RcSettings :
  /\ DOMAIN s.orders \subseteq RcCallers /\ s.faults \subseteq RcFaults /\ s.swaps \in Nat
  /\ \A c \in DOMAIN s.orders :
       s.orders[c].tool \in RcTools /\ (s.orders[c].tool \in {"add", "remove"} => s.orders[c].name # "none")
  /\ "none" \notin s.controllers \cup DOMAIN s.address /\ IsInjective(s.address)
  /\ \A x \in DOMAIN s.device :
       /\ s.device[x] \in DOMAIN s.address
       /\ s.device[x] \in DOMAIN s.device => s.device[s.device[x]] = s.device[x]
  /\ \A m \in s.mounts : m.ep \in s.controllers /\ m.name # "none" /\ m.dev \in DOMAIN s.device
  /\ \A m, n \in s.mounts : m.ep = n.ep /\ m.name = n.name => m = n

ASSUME RcAssumption == RcSettingsOK

VARIABLES
  rcSetting,  \* which of RcSettings this behaviour runs under
  boxAddress,    \* of each chassis: the address it has
  odl,        \* the mounts on the controllers, see RcTypeOK
  endpoints,  \* the local file: its entries, and whether it is cut
  applied,    \* where each call's write was carried out
  rcCall,     \* of each call, see RcTypeOK
  overlap     \* history: a call read the file while another was changing it, or
              \* removed a mount that another had found connected and not yet filed

rcVars == <<rcSetting, boxAddress, odl, endpoints, applied, rcCall, overlap>>

Ask(c) == rcSetting.orders[c]
\* canonical_device: an unknown name stands for itself.
Meant(name) == IF name \in DOMAIN rcSetting.device THEN rcSetting.device[name] ELSE name
BoxesAt(addr) == {b \in DOMAIN boxAddress : boxAddress[b] = addr}

\* A mount on a controller: where it is told to connect, and the chassis its
\* session is with.
Node(ep, name, host, with, state) == [ep |-> ep, name |-> name, host |-> host, with |-> with, state |-> state]
Entry(ep, name, dev) == [ep |-> ep, name |-> name, dev |-> dev]
NodesAt(ep, name) == {n \in odl : n.ep = ep /\ n.name = name}

RcInit ==
  /\ rcSetting \in RcSettings
  /\ boxAddress = rcSetting.address
  /\ odl = {Node(m.ep, m.name, boxAddress[rcSetting.device[m.dev]], rcSetting.device[m.dev], "connected") :
              m \in rcSetting.mounts}
  /\ endpoints = [mounts |-> {Entry(m.ep, m.name, rcSetting.device[m.dev]) : m \in rcSetting.mounts},
                  cut |-> FALSE]
  /\ applied = [c \in DOMAIN rcSetting.orders |-> {}]
  /\ rcCall = [c \in DOMAIN rcSetting.orders |->
       [pc |-> "idle", ep |-> "none", name |-> "none", host |-> "none", doc |-> {},
        verdict |-> "none", saw |-> "none", bare |-> FALSE]]
  /\ overlap = FALSE

RcFault(f) == f \in rcSetting.faults
RcEnds(c, v) == rcCall' = [rcCall EXCEPT ![c].pc = "over", ![c].verdict = v]
RcGoes(c, pc) == rcCall' = [rcCall EXCEPT ![c].pc = pc]
LabStays == UNCHANGED <<rcSetting, boxAddress>>
FileStays == UNCHANGED <<endpoints, overlap>>
BoxesStay == UNCHANGED <<odl, applied>>

\* load_endpoints of a file that is being written raises.
Loads(c, next) == IF endpoints.cut THEN RcEnds(c, "raised") ELSE next

(***************************************************************************)
(* mount add                                                                *)
(***************************************************************************)
\* The endpoint must be a controller, the device known, and its address
\* confirmed by the chassis itself; --no-verify-mgmt0 takes the cached one.
AddStart(c) ==
  /\ rcCall[c].pc = "idle" /\ Ask(c).tool = "add"
  /\ Loads(c,
       IF Ask(c).ep \notin rcSetting.controllers \/ Ask(c).dev \notin DOMAIN rcSetting.device
       THEN RcEnds(c, "error")
       ELSE \/ rcCall' = [rcCall EXCEPT ![c].pc = "mount", ![c].ep = Ask(c).ep, ![c].name = Ask(c).name,
                 ![c].host = IF Ask(c).verify THEN boxAddress[Meant(Ask(c).dev)]
                             ELSE rcSetting.cached[Meant(Ask(c).dev)]]
            \/ Ask(c).verify /\ RcFault("unverified") /\ RcEnds(c, "error"))
  /\ BoxesStay /\ FileStays /\ LabStays

\* PUT creates the mount or replaces what an older one is told; the session
\* of an older one lives until the controller has noticed.
Mounted(c) ==
  LET old == NodesAt(rcCall[c].ep, rcCall[c].name) IN
  (odl \ old) \cup
    (IF old = {} THEN {Node(rcCall[c].ep, rcCall[c].name, rcCall[c].host, "none", "connecting")}
     ELSE {[n EXCEPT !.host = rcCall[c].host] : n \in old})

PutMount(c) ==
  /\ rcCall[c].pc = "mount"
  /\ \/ odl' = Mounted(c) /\ RcGoes(c, "wait")
     \/ RcFault("lose") /\ odl' \in {odl, Mounted(c)} /\ RcEnds(c, "error")
     \/ RcFault("reject") /\ UNCHANGED odl /\ RcEnds(c, "error")
  /\ UNCHANGED applied /\ FileStays /\ LabStays

\* connected and unable-to-connect end the wait, as does its timeout; a poll
\* that is lost or finds nothing is one more poll.
IsConnected(c) == \E n \in NodesAt(rcCall[c].ep, rcCall[c].name) : n.state = "connected"

WaitConnected(c) ==
  /\ rcCall[c].pc = "wait"
  /\ \/ /\ IsConnected(c)
        /\ IF Ask(c).persist THEN RcGoes(c, "load") ELSE RcEnds(c, "ok")
     \/ ~IsConnected(c) /\ RcEnds(c, "error")
  /\ BoxesStay /\ FileStays /\ LabStays

(***************************************************************************)
(* mount remove, and the change of the file both make                       *)
(***************************************************************************)
\* The entry goes whether or not the controller has removed its mount.
RemoveGoes(c, v) ==
  rcCall' = [rcCall EXCEPT ![c].pc = IF Ask(c).persist THEN "load" ELSE "over",
                           ![c].ep = Ask(c).ep, ![c].name = Ask(c).name, ![c].verdict = v]

\* An add has found this mount connected and has not written it to the file.
Filing(c, ep, name) ==
  Ask(c).tool = "add" /\ rcCall[c].pc \in {"load", "open", "save"} /\ rcCall[c].ep = ep /\ rcCall[c].name = name

DeleteMount(c) ==
  /\ rcCall[c].pc = "idle" /\ Ask(c).tool = "remove"
  /\ LET gone == odl \ NodesAt(Ask(c).ep, Ask(c).name) IN
     \/ (endpoints.cut \/ Ask(c).ep \notin rcSetting.controllers) /\ Loads(c, RcEnds(c, "error")) /\ UNCHANGED odl
     \/ /\ ~endpoints.cut /\ Ask(c).ep \in rcSetting.controllers
        /\ \/ odl' = gone /\ RemoveGoes(c, IF Ask(c).persist THEN "none" ELSE "ok")
           \/ RcFault("lose") /\ odl' \in {odl, gone} /\ RemoveGoes(c, "error")
           \/ RcFault("reject") /\ UNCHANGED odl /\ RemoveGoes(c, "error")
  /\ overlap' = (overlap \/ (odl' # odl /\ \E d \in DOMAIN rcCall : Filing(d, Ask(c).ep, Ask(c).name)))
  /\ UNCHANGED <<applied, endpoints>> /\ LabStays

Changing(c) == rcCall[c].pc \in {"open", "save"}

LoadFile(c) ==
  /\ rcCall[c].pc = "load"
  /\ Loads(c,
       LET mine == {e \in endpoints.mounts : e.ep = rcCall[c].ep /\ e.name = rcCall[c].name}
           entry == Entry(rcCall[c].ep, rcCall[c].name, Meant(Ask(c).dev)) IN
       IF Ask(c).tool = "remove" /\ mine = {}
       THEN RcEnds(c, IF rcCall[c].verdict = "none" THEN "ok" ELSE rcCall[c].verdict)
       ELSE rcCall' = [rcCall EXCEPT ![c].pc = "open", ![c].doc =
              (endpoints.mounts \ mine) \cup (IF Ask(c).tool = "add" THEN {entry} ELSE {})])
  /\ overlap' = (overlap \/ \E d \in DOMAIN rcCall \ {c} : Changing(d))
  /\ BoxesStay /\ UNCHANGED endpoints /\ LabStays

OpenFile(c) ==
  /\ rcCall[c].pc = "open"
  /\ endpoints' = [mounts |-> {}, cut |-> TRUE]
  /\ RcGoes(c, "save")
  /\ BoxesStay /\ UNCHANGED overlap /\ LabStays

SaveFile(c) ==
  /\ rcCall[c].pc = "save"
  /\ endpoints' = [mounts |-> rcCall[c].doc, cut |-> FALSE]
  /\ RcEnds(c, IF rcCall[c].verdict = "none" THEN "ok" ELSE rcCall[c].verdict)
  /\ BoxesStay /\ UNCHANGED overlap /\ LabStays

(***************************************************************************)
(* Reads and writes                                                         *)
(***************************************************************************)
EntriesOf(name) == {e \in endpoints.mounts : Meant(e.dev) = Meant(name)}

\* Fault: an endpoint given by the caller overrides the entry's.
Resolved_AnyEndpoint(c) ==
  LET found == IF Ask(c).dev = "none" THEN {} ELSE EntriesOf(Ask(c).dev) IN
  {[ep |-> IF Ask(c).ep # "none" THEN Ask(c).ep ELSE e.ep,
    name |-> IF Ask(c).name # "none" THEN Ask(c).name ELSE e.name] : e \in found}
  \cup IF found = {} THEN {[ep |-> Ask(c).ep, name |-> Ask(c).name]} ELSE {}

\* The first entry of the file for the device; an endpoint that is another
\* one than the entry's is refused.  A device with no entry and an endpoint
\* is the endpoint itself: no mount is in the URL.
Resolved(c) ==
  LET found == IF Ask(c).dev = "none" THEN {} ELSE EntriesOf(Ask(c).dev)
      given == Ask(c).ep # "none"
      Fit(e) == given => e.ep = Ask(c).ep
      Pick(e) == [ep |-> e.ep, name |-> IF Ask(c).name # "none" THEN Ask(c).name ELSE e.name] IN
  IF found # {} THEN {IF Fit(e) THEN Pick(e) ELSE [ep |-> "none", name |-> "none"] : e \in found}
  ELSE {[ep |-> Ask(c).ep, name |-> Ask(c).name]}

\* PATCH on such a controller is rewritten, leaf by leaf; a payload without a
\* single wrapper around leaves is refused.
Sendable(c) == Ask(c).tool = "patch" => Ask(c).payload \in {"leaves", "leaves and an empty container"}

Resolve(c) ==
  /\ rcCall[c].pc = "idle" /\ Ask(c).tool \in RcWrites \cup {"get", "keys"}
  /\ Loads(c, \E r \in Resolved(c) :
       IF r.ep = "none" \/ ~Sendable(c) THEN RcEnds(c, "error")
       ELSE IF Ask(c).tool \in RcWrites /\ ~Ask(c).confirm THEN RcEnds(c, "dry_run")
       ELSE rcCall' = [rcCall EXCEPT ![c].pc = "send", ![c].ep = r.ep, ![c].name = r.name,
                         ![c].bare = (r.name = "none")])
  /\ BoxesStay /\ FileStays /\ LabStays

\* Where a request goes: to the chassis of the mount's session, if there is
\* one, or to the controller's own data.
Reaches(c) ==
  IF rcCall[c].bare THEN {"controller"}
  ELSE {n.with : n \in {n \in NodesAt(rcCall[c].ep, rcCall[c].name) : n.state = "connected"}}

SendWrite(c) ==
  /\ rcCall[c].pc = "send" /\ Ask(c).tool \in RcWrites
  /\ LET done == [applied EXCEPT ![c] = @ \cup Reaches(c)] IN
     \/ Reaches(c) # {} /\ applied' = done /\ RcEnds(c, "ok")
     \/ Reaches(c) = {} /\ UNCHANGED applied /\ RcEnds(c, "error")
     \/ RcFault("lose") /\ applied' \in {applied, done} /\ RcEnds(c, "error")
     \/ RcFault("reject") /\ UNCHANGED applied /\ RcEnds(c, "error")
  /\ UNCHANGED odl /\ FileStays /\ LabStays

Answered(c) ==
  \E b \in Reaches(c) : rcCall' = [rcCall EXCEPT ![c].pc = "over", ![c].verdict = "ok", ![c].saw = b]

SendRead(c) ==
  /\ rcCall[c].pc = "send" /\ Ask(c).tool = "get"
  /\ Answered(c) \/ ((Reaches(c) = {} \/ RcFault("lose")) /\ RcEnds(c, "error"))
  /\ BoxesStay /\ FileStays /\ LabStays

\* restconf_enumerate_keys, which also fails when the answer has no list.
SendKeys(c) ==
  /\ rcCall[c].pc = "send" /\ Ask(c).tool = "keys"
  /\ Answered(c) \/ RcEnds(c, "error")
  /\ BoxesStay /\ FileStays /\ LabStays

\* mount status of a mount name, or of the device that name may be.
MountsOn(ep, name) == {e.name : e \in {e \in EntriesOf(name) : e.ep = ep}}

StatusOf(c) ==
  /\ rcCall[c].pc = "idle" /\ Ask(c).tool = "status"
  /\ Loads(c,
       LET here == {e \in endpoints.mounts : e.ep = Ask(c).ep}
           names == IF \E e \in here : e.name = Ask(c).name THEN {Ask(c).name}
                    ELSE MountsOn(Ask(c).ep, Ask(c).name) IN
       \E name \in IF names = {} THEN {Ask(c).name} ELSE names :
         LET n == NodesAt(Ask(c).ep, name) IN
         RcEnds(c, IF Ask(c).ep \in rcSetting.controllers /\ n # {} /\ ~RcFault("lose") THEN "ok" ELSE "error"))
  /\ BoxesStay /\ FileStays /\ LabStays

(***************************************************************************)
(* The controllers, the chassis and crashes                                 *)
(***************************************************************************)
\* A controller connects a mount to who has the address it was told, or fails.
NodeConnects(n) ==
  /\ n \in odl /\ (n.state = "connecting" \/ ~\E b \in BoxesAt(n.host) : b = n.with)
  /\ odl' = (odl \ {n}) \cup
       IF BoxesAt(n.host) = {} THEN {[n EXCEPT !.state = "unable", !.with = "none"]}
       ELSE {[n EXCEPT !.state = "connected", !.with = b] : b \in BoxesAt(n.host)}
  /\ UNCHANGED <<applied, rcCall>> /\ FileStays /\ LabStays

NodeDrops(n) ==
  /\ RcFault("drop") /\ n \in odl /\ n.state = "connected"
  /\ odl' = (odl \ {n}) \cup {[n EXCEPT !.state = "connecting", !.with = "none"]}
  /\ UNCHANGED <<applied, rcCall>> /\ FileStays /\ LabStays

\* Two chassis swap their addresses; sessions end up with who has the address.
Swap ==
  /\ rcSetting.swaps > 0 /\ boxAddress = rcSetting.address
  /\ \E m, n \in DOMAIN boxAddress :
       m # n /\ boxAddress' = [boxAddress EXCEPT ![m] = boxAddress[n], ![n] = boxAddress[m]]
  /\ UNCHANGED <<rcSetting, odl, applied, rcCall>> /\ FileStays

RcCrash(c) ==
  /\ RcFault("crash") /\ rcCall[c].pc \notin {"idle", "over"}
  /\ RcEnds(c, "killed")
  /\ BoxesStay /\ FileStays /\ LabStays

RcStep(c) ==
  \/ AddStart(c) \/ PutMount(c) \/ WaitConnected(c) \/ DeleteMount(c)
  \/ LoadFile(c) \/ OpenFile(c) \/ SaveFile(c)
  \/ Resolve(c) \/ SendWrite(c) \/ SendRead(c) \/ SendKeys(c) \/ StatusOf(c) \/ RcCrash(c)

RcNext ==
  (\E c \in DOMAIN rcCall : RcStep(c)) \/ (\E n \in odl : NodeConnects(n) \/ NodeDrops(n)) \/ Swap

RcSpec == RcInit /\ [][RcNext]_rcVars

(***************************************************************************)
(* Properties                                                               *)
(***************************************************************************)
\* The types of the variables.
RcTypeOK ==
  /\ overlap \in BOOLEAN
  /\ \A n \in odl : n.state \in {"connecting", "connected", "unable"} /\ (n.state = "connected" => n.with # "none")
  /\ \A m, n \in odl : m.ep = n.ep /\ m.name = n.name => m = n
  /\ \A c \in DOMAIN rcCall :
       /\ rcCall[c].pc \in {"idle", "mount", "wait", "load", "open", "save", "send", "over"}
       /\ rcCall[c].verdict \in {"none", "ok", "error", "raised", "dry_run", "killed"}

\* Every chassis kept its address and every mount was verified when added.
AddressesFirm ==
  rcSetting.swaps = 0 /\ \A c \in DOMAIN rcCall : Ask(c).tool = "add" => Ask(c).verify
\* No one gives a mount the name of another chassis's: the default name, the
\* device's own, never is.
NamesFirm == \A c \in DOMAIN rcCall : Ask(c).tool = "add" =>
  /\ \A m \in rcSetting.mounts : m.ep = Ask(c).ep /\ m.name = Ask(c).name => Meant(m.dev) = Meant(Ask(c).dev)
  /\ \A d \in DOMAIN rcCall :
       Ask(d).tool = "add" /\ Ask(d).ep = Ask(c).ep /\ Ask(d).name = Ask(c).name => Meant(Ask(d).dev) = Meant(Ask(c).dev)

\* A write or a read for a device reaches that device and no other, as long
\* as addresses are firm and the caller names no mount of its own; or the
\* controller itself, when the caller names it and the file has no mount of
\* the device.  A write is carried out at most once, and a dry run never.
OwnBox(c) == {Meant(Ask(c).dev)} \cup (IF Ask(c).ep # "none" THEN {"controller"} ELSE {})
RequestsReachTheirBox == \A c \in DOMAIN rcCall :
  Ask(c).tool \in RcWrites \cup {"get", "keys"} =>
    /\ Cardinality(applied[c]) <= 1
    /\ rcCall[c].verdict \in {"dry_run", "raised"} => applied[c] = {}
    /\ rcCall[c].verdict = "ok" /\ Ask(c).tool \in RcWrites => applied[c] # {}
    /\ AddressesFirm /\ NamesFirm /\ Ask(c).dev # "none" /\ Ask(c).name = "none" =>
         applied[c] \subseteq OwnBox(c) /\ rcCall[c].saw \in OwnBox(c) \cup {"none"}

\* Once nobody is changing anything, with no failure and no two calls at the
\* file or at a mount at a time, the file names mounts that the controllers
\* have, but for one whose remove was told to leave the file alone; and every
\* mount whose add was answered ok and that no one removed is in it.
Quiet == \A c \in DOMAIN rcCall : rcCall[c].pc \in {"idle", "over"}
Removes(c, ep, name) == Ask(c).tool = "remove" /\ rcCall[c].ep = ep /\ rcCall[c].name = name
InFile(mounts, ep, name) == \E e \in mounts : e.ep = ep /\ e.name = name
FileTellsTheMounts ==
  Quiet /\ rcSetting.faults \subseteq {"drop"} /\ ~overlap /\ ~endpoints.cut =>
    /\ \A e \in endpoints.mounts :
         NodesAt(e.ep, e.name) # {} \/ \E c \in DOMAIN rcCall : Removes(c, e.ep, e.name) /\ ~Ask(c).persist
    /\ \A c \in DOMAIN rcCall :
         Ask(c).tool = "add" /\ rcCall[c].verdict = "ok" /\ Ask(c).persist =>
           \/ InFile(endpoints.mounts, rcCall[c].ep, rcCall[c].name)
           \/ \E d \in DOMAIN rcCall : Removes(d, rcCall[c].ep, rcCall[c].name)

\* The two of RESTCONF.
MountsHold == RequestsReachTheirBox /\ FileTellsTheMounts
=============================================================================

------------------------------ MODULE DeviceMap ------------------------------
(***************************************************************************)
(* The map of registered devices that every qactl process on a host shares  *)
(* (qactl/dnos/core/devices.py), the calls that edit it (manage_device of   *)
(* cli/tools/devices.py, mgmt0 verification of cli/core/mgmt0_verify.py),   *)
(* and the table of SSH hosts each process keeps of it (cli/core/session.py *)
(* and the lookup of core/session_daemon.py).                               *)
(*                                                                         *)
(* Every write is one read-modify-write under the file lock.  What a call   *)
(* decides on is read before it, without the lock, and a probe of the       *)
(* device takes seconds: other processes edit the map in between.           *)
(***************************************************************************)
EXTENDS Naturals, Maps

CONSTANTS
  Procs,          \* processes that edit the map
  Watcher,        \* a long-lived process: the daemon, an MCP server
  Names, Chassis, Hosts, Addrs, None,
  HostsOf,        \* the SSH hosts (NCC serials) of each chassis
  SystemName,     \* the name configured on each chassis
  Nicks,          \* aliases that may be given with add
  Settings        \* what a run lets happen, see SettingsOK

Entries == [sns : SUBSET Hosts, aliases : SUBSET Names,
            sid : Chassis \cup {None}, mgmt0 : Addrs \cup {None}]

IsMap(m) == DOMAIN m \subseteq Names /\ \A n \in DOMAIN m : m[n] \in Entries

Owners(m, n) == {k \in DOMAIN m : n \in m[k].aliases}

\* A name is a canonical key or a secondary alias of one device, never both
\* and never of two: "passing a nickname to update_device would fork a ghost
\* canonical entry" (session.py:152).
OneDevicePerName(m) ==
  \A n \in Names : /\ n \in DOMAIN m => Owners(m, n) = {}
                   /\ \A k, l \in Owners(m, n) : k = l

\* The hosts of a device are hosts of one chassis, the one whose system id it
\* has ("cli-mcp will not register two distinct chassis", devices.py:338); a
\* device without hosts has none.
OneChassisPerDevice(m) ==
  \A n \in DOMAIN m :
    /\ \E c \in Chassis : m[n].sns \subseteq HostsOf[c] /\ m[n].sid \in {None, c}
    /\ m[n].sns = {} => m[n].sid = None

\* A setting: the map and the addresses at the start, the calls made, and as
\* bounds how many of them edit the map and how often addresses move.
SettingsOK ==
  \A s \in Settings : /\ IsMap(s.map) /\ OneDevicePerName(s.map) /\ OneChassisPerDevice(s.map)
                       /\ s.address \in [Chassis -> Addrs] /\ IsInjective(s.address)
                       /\ s.ops \subseteq {"add", "foreign", "refresh", "check", "rename",
                                       "alias", "unalias", "remove", "verify", "connect"}
                       /\ s.edits \in Nat /\ s.moves \in Nat

ASSUME DeviceMapAssumption ==
  /\ HostsOf \in [Chassis -> (SUBSET Hosts) \ {{}}]
  /\ \A h \in Hosts : \E c \in Chassis : h \in HostsOf[c]
  /\ \A c, d \in Chassis : c # d => HostsOf[c] \cap HostsOf[d] = {}
  /\ SystemName \in [Chassis -> Names]
  /\ SettingsOK /\ Nicks \subseteq Names
  /\ None \notin Chassis \cup Addrs \cup Names \cup Hosts

ChassisOf(h) == CHOOSE c \in Chassis : h \in HostsOf[c]

VARIABLES
  setting,   \* which of Settings this behaviour runs under
  devices,   \* the map on disk: canonical name -> entry
  hosts,     \* DEVICE_HOSTS of each process: canonical name -> SSH hosts
  call,      \* what each process is doing
  address,   \* the management address each chassis has now
  memo,      \* device names whose verified address a process remembers
  edits, moves,
  blind,     \* history: a call wrote on something else than it had read
  writers    \* history: the processes that wrote the map so far

mapVars == <<setting, devices, hosts, call, address, memo, edits, moves, blind, writers>>

-----------------------------------------------------------------------------
(* Reading and writing a map.                                              *)

EmptyEntry == [sns |-> {}, aliases |-> {}, sid |-> None, mgmt0 |-> None]

Known(m, n) == n \in DOMAIN m \/ Owners(m, n) # {}

\* A canonical key wins over a secondary alias.
Canonical(m, n) ==
  IF n \in DOMAIN m \/ Owners(m, n) = {} THEN n ELSE CHOOSE k \in Owners(m, n) : TRUE

EntryOf(m, n) == IF Known(m, n) THEN m[Canonical(m, n)] ELSE EmptyEntry

\* Fault: the entry is written anew instead of updated.
RawEntry_Anew(m, n) == EmptyEntry

\* The entry with exactly this key, made if missing, and what sets it.
RawEntry(m, n) == IF n \in DOMAIN m THEN m[n] ELSE EmptyEntry
UpdateDevice(m, n, entry) == Put(m, n, entry)

RemoveDevice(m, n) == Without(m, n)

\* Fault: a name may become an alias of a second device.
AliasAllowed_Shared(m, a, n) == n \in DOMAIN m /\ a \notin DOMAIN m

AliasAllowed(m, a, n) ==
  n \in DOMAIN m /\ a \notin DOMAIN m /\ Owners(m, a) \subseteq {n}

AddAlias(m, a, n) == UpdateDevice(m, n, [m[n] EXCEPT !.aliases = @ \cup {a}])

RemoveAlias(m, a) ==
  LET k == CHOOSE k \in Owners(m, a) : TRUE
  IN UpdateDevice(m, k, [m[k] EXCEPT !.aliases = @ \ {a}])

RenameAllowed(m, old, new) ==
  /\ old \in DOMAIN m /\ new \notin DOMAIN m
  /\ Owners(m, new) \subseteq {old}

RenameDevice(m, old, new, keep) ==
  LET aliases == (m[old].aliases \ {new}) \cup IF keep THEN {old} ELSE {}
  IN UpdateDevice(RemoveDevice(m, old), new, [m[old] EXCEPT !.aliases = aliases])

\* _load_device_hosts: a device without SSH hosts is not in the table.
HostTable(m) == [n \in {k \in DOMAIN m : m[k].sns # {}} |-> m[n].sns]

\* Fault: a device without hosts keeps a row.
RefreshRow_KeepsEmpty(table, m, n) == Put(table, n, EntryOf(m, Canonical(m, n)).sns)

\* _refresh_alias_in_cache: one row of the table.
RefreshRow(table, m, n) ==
  LET c == Canonical(m, n)
      sns == EntryOf(m, c).sns
      rest == Restrict(table, DOMAIN table \ {c, n})
  IN IF sns = {} THEN rest ELSE Put(rest, c, sns)

\* What a call relies on when it writes the entry of n.
Basis(m, n) == IF n \in DOMAIN m THEN <<m[n].sns, m[n].sid>> ELSE <<>>

-----------------------------------------------------------------------------
NoCall == [op |-> "none", at |-> "idle"]

MapInit ==
  /\ setting \in Settings
  /\ devices = setting.map
  /\ hosts = [p \in Procs \cup {Watcher} |-> HostTable(setting.map)]
  /\ call = [p \in Procs |-> NoCall]
  /\ address = setting.address
  /\ memo = [p \in Procs |-> {}]
  /\ edits = 0 /\ moves = 0
  /\ blind = FALSE /\ writers = {}

Become(p, record) == call' = [call EXCEPT ![p] = record]

\* A call begins: it reads the map, and probes the device if it has to.
Begin(p, record) ==
  /\ call[p].at = "idle" /\ record.op \in setting.ops /\ edits < setting.edits
  /\ edits' = edits + 1
  /\ Become(p, record)
  /\ UNCHANGED <<setting, devices, hosts, address, memo, moves, blind, writers>>

\* Process p writes map m and goes on with `record`.
Write(p, m, unseen, record) ==
  /\ devices' = m
  /\ blind' = (blind \/ unseen)
  /\ writers' = IF m = devices THEN writers ELSE writers \cup {p}
  /\ Become(p, record)
  /\ UNCHANGED <<setting, hosts, address, memo, edits, moves>>

\* A call returns with an error, or with nothing left to do.
Return(p) ==
  /\ Become(p, NoCall)
  /\ UNCHANGED <<setting, devices, hosts, address, memo, edits, moves, blind, writers>>

ReloadThen(next) == [op |-> "reload", at |-> "reload", next |-> next]
Reloading == ReloadThen(NoCall)

\* reload_device_hosts: after a write, from the map as it is now.
Reload(p) ==
  /\ call[p].at = "reload"
  /\ hosts' = [hosts EXCEPT ![p] = HostTable(devices)]
  /\ Become(p, call[p].next)
  /\ UNCHANGED <<setting, devices, address, memo, edits, moves, blind, writers>>

\* The key is free or its owner's, not the nickname of another device.
IsNickname(m, n) == n \notin DOMAIN m /\ Owners(m, n) # {}

\* add: probe chassis c, refuse a name registered for another chassis, and
\* enrol every serial the chassis reported under name n.
Add(p, n, c, nick) ==
  LET old == EntryOf(devices, n)
  IN /\ old.sid \in {None, c}
     /\ Begin(p, [op |-> "add", at |-> "write", name |-> n, nick |-> nick,
                  sns |-> old.sns \cup HostsOf[c], chassis |-> c,
                  addr |-> address[c], was |-> Basis(devices, n),
                  unchecked |-> old.sid = None /\ old.sns # {}])

AddWrite(p) ==
  LET r == call[p] IN
  /\ r.op = "add" /\ r.at = "write"
  /\ Write(p, UpdateDevice(devices, r.name,
             [RawEntry(devices, r.name) EXCEPT !.sns = r.sns, !.sid = r.chassis, !.mgmt0 = r.addr]),
           r.unchecked \/ Basis(devices, r.name) # r.was \/ IsNickname(devices, r.name),
           IF r.nick = None THEN Reloading ELSE ReloadThen([r EXCEPT !.at = "nick"]))

\* The aliases given with add are attached afterwards, one lock each; one
\* that is refused is a warning.
AddNick(p) ==
  LET r == call[p] IN
  /\ r.op = "add" /\ r.at = "nick"
  /\ IF r.nick # r.name /\ AliasAllowed(devices, r.nick, r.name)
     THEN Write(p, AddAlias(devices, r.nick, r.name), FALSE, Reloading)
     ELSE Return(p)

\* add with another vendor: no probe, so no system id to compare.
AddForeign(p, n, h) ==
  LET old == EntryOf(devices, n) IN
  Begin(p, [op |-> "foreign", at |-> "write", name |-> n,
            sns |-> old.sns \cup {h}, was |-> Basis(devices, n),
            unchecked |-> old.sns # {}])

ForeignWrite(p) ==
  LET r == call[p] IN
  /\ r.op = "foreign" /\ r.at = "write"
  /\ Write(p, UpdateDevice(devices, r.name, [RawEntry(devices, r.name) EXCEPT !.sns = r.sns]),
           r.unchecked \/ Basis(devices, r.name) # r.was \/ IsNickname(devices, r.name),
           Reloading)

\* refresh: probe the first host of the device that answers.
RefreshDevice(p, n, h) ==
  LET k == Canonical(devices, n) IN
  /\ h \in EntryOf(devices, n).sns
  /\ Begin(p, [op |-> "refresh", at |-> "write", name |-> k,
               chassis |-> ChassisOf(h), addr |-> address[ChassisOf(h)],
               was |-> Basis(devices, k)])

RefreshWrite(p) ==
  LET r == call[p] IN
  /\ r.op = "refresh" /\ r.at = "write"
  /\ Write(p, UpdateDevice(devices, r.name,
             [RawEntry(devices, r.name) EXCEPT !.sid = r.chassis, !.mgmt0 = r.addr]),
           Basis(devices, r.name) # r.was, Reloading)

\* name-check: compare the key with the System Name of the chassis, adopt it
\* on request, and keep the name as metadata.
NameCheck(p, n, h, sync, keep) ==
  LET k == Canonical(devices, n)
      s == SystemName[ChassisOf(h)]
  IN /\ h \in EntryOf(devices, n).sns
     /\ Begin(p, [op |-> "check", at |-> IF sync /\ s # k THEN "rename" ELSE "meta",
                  name |-> k, new |-> s, keep |-> keep])

CheckRename(p) ==
  LET r == call[p] IN
  /\ r.op = "check" /\ r.at = "rename"
  /\ IF RenameAllowed(devices, r.name, r.new)
     THEN Write(p, RenameDevice(devices, r.name, r.new, r.keep), FALSE,
                ReloadThen([r EXCEPT !.at = "meta", !.name = r.new]))
     ELSE Return(p)

\* The system name goes to an entry that may be gone by now.
CheckMeta(p) ==
  LET r == call[p] IN
  /\ r.op = "check" /\ r.at = "meta"
  /\ Write(p, UpdateDevice(devices, r.name, RawEntry(devices, r.name)),
           r.name \notin DOMAIN devices, NoCall)

\* rename, alias: the name is resolved before the lock, the rest is checked
\* under it.
Rename(p, n, new, keep) ==
  /\ Known(devices, n) /\ new # Canonical(devices, n)
  /\ Begin(p, [op |-> "rename", at |-> "write", name |-> Canonical(devices, n),
               new |-> new, keep |-> keep])

RenameWrite(p) ==
  LET r == call[p] IN
  /\ r.op = "rename" /\ r.at = "write"
  /\ IF RenameAllowed(devices, r.name, r.new)
     THEN Write(p, RenameDevice(devices, r.name, r.new, r.keep), FALSE, Reloading)
     ELSE Return(p)

Alias(p, a, n) ==
  /\ a # Canonical(devices, n)
  /\ Begin(p, [op |-> "alias", at |-> "write", name |-> Canonical(devices, n), nick |-> a])

AliasWrite(p) ==
  LET r == call[p] IN
  /\ r.op = "alias" /\ r.at = "write"
  /\ IF AliasAllowed(devices, r.nick, r.name)
     THEN Write(p, AddAlias(devices, r.nick, r.name), FALSE, Reloading)
     ELSE Return(p)

Unalias(p, a) == Begin(p, [op |-> "unalias", at |-> "write", nick |-> a])

UnaliasWrite(p) ==
  LET r == call[p] IN
  /\ r.op = "unalias" /\ r.at = "write"
  /\ IF Owners(devices, r.nick) # {}
     THEN Write(p, RemoveAlias(devices, r.nick), FALSE, Reloading)
     ELSE Write(p, devices, FALSE, Reloading)

\* remove: the whole device (h is None), or one of its hosts; the list that
\* is written is the one read here.
Remove(p, n, h) ==
  LET k == Canonical(devices, n) IN
  /\ Known(devices, n) /\ h \in devices[k].sns \cup {None}
  /\ Begin(p, [op |-> "remove", at |-> "write", name |-> k,
               sns |-> IF h = None THEN {} ELSE devices[k].sns \ {h},
               was |-> Basis(devices, k)])

\* Fault: the row of the device stays in the table.
RemoveWrite_NoRow(p) ==
  LET r == call[p] IN
  /\ r.op = "remove" /\ r.at = "write"
  /\ Write(p, IF r.sns = {} THEN RemoveDevice(devices, r.name)
              ELSE UpdateDevice(devices, r.name, [RawEntry(devices, r.name) EXCEPT !.sns = r.sns]),
           Basis(devices, r.name) # r.was, NoCall)

RemoveWrite(p) ==
  LET r == call[p] IN
  /\ r.op = "remove" /\ r.at = "write"
  /\ Write(p, IF r.sns = {} THEN RemoveDevice(devices, r.name)
              ELSE UpdateDevice(devices, r.name, [RawEntry(devices, r.name) EXCEPT !.sns = r.sns]),
           r.sns # {} /\ Basis(devices, r.name) # r.was,
           [op |-> "row", at |-> "row", name |-> r.name])

RemoveRow(p) ==
  /\ call[p].at = "row"
  /\ hosts' = [hosts EXCEPT ![p] = RefreshRow(@, devices, call[p].name)]
  /\ Become(p, NoCall)
  /\ UNCHANGED <<setting, devices, address, memo, edits, moves, blind, writers>>

\* verify_device_mgmt0: a NETCONF, gNMI or RESTCONF call asks the chassis for
\* its address, unless it did so within the last minute.
Verify(p, n, h) ==
  LET k == Canonical(devices, n)
      live == address[ChassisOf(h)]
  IN /\ "verify" \in setting.ops /\ call[p].at = "idle" /\ k \notin memo[p]
     /\ h \in EntryOf(devices, n).sns
     /\ IF live = EntryOf(devices, n).mgmt0
        THEN /\ memo' = [memo EXCEPT ![p] = @ \cup {k}]
             /\ UNCHANGED call
        ELSE /\ Become(p, [op |-> "verify", at |-> "write", name |-> k, addr |-> live,
                           was |-> Basis(devices, k)])
             /\ UNCHANGED memo
     /\ UNCHANGED <<setting, devices, hosts, address, edits, moves, blind, writers>>

\* Fault: the live address is used, but not written to the map.
VerifyWrite_UsesOnly(p) ==
  LET r == call[p] IN
  /\ r.op = "verify" /\ r.at = "write"
  /\ memo' = [memo EXCEPT ![p] = @ \cup {r.name}]
  /\ Become(p, Reloading)
  /\ UNCHANGED <<setting, devices, hosts, address, edits, moves, blind, writers>>

VerifyWrite(p) ==
  LET r == call[p] IN
  /\ r.op = "verify" /\ r.at = "write"
  /\ devices' = UpdateDevice(devices, r.name, [RawEntry(devices, r.name) EXCEPT !.mgmt0 = r.addr])
  /\ blind' = (blind \/ Basis(devices, r.name) # r.was)
  /\ writers' = writers \cup {p}
  /\ memo' = [memo EXCEPT ![p] = @ \cup {r.name}]
  /\ Become(p, Reloading)
  /\ UNCHANGED <<setting, hosts, address, edits, moves>>

\* A NETCONF session without mgmt0 verification, to whatever chassis has the
\* address now, of a device without serials: those it reports are enrolled.
Connect(p, n, c) ==
  /\ n \in DOMAIN devices /\ devices[n].sns = {} /\ devices[n].mgmt0 = address[c]
  /\ Begin(p, [op |-> "connect", at |-> "write", name |-> n, chassis |-> c,
               was |-> Basis(devices, n),
               unchecked |-> devices[n].sid \notin {None, c}])

ConnectWrite(p) ==
  LET r == call[p] IN
  /\ r.op = "connect" /\ r.at = "write"
  /\ Write(p, UpdateDevice(devices, r.name, [RawEntry(devices, r.name) EXCEPT !.sns = HostsOf[r.chassis]]),
           r.unchecked \/ Basis(devices, r.name) # r.was, NoCall)

\* A minute passes.
Expire(p, n) ==
  /\ n \in memo[p]
  /\ memo' = [memo EXCEPT ![p] = @ \ {n}]
  /\ UNCHANGED <<setting, devices, hosts, call, address, edits, moves, blind, writers>>

\* Fault: a name that is not in the table is not read from the map.
Dial_NoRefresh(n) == hosts[Watcher]

\* The watcher's table when it connects to a device by its canonical name: it
\* reads the map again only if there is no such row.
Dial(n) ==
  IF n \in DOMAIN hosts[Watcher] THEN hosts[Watcher]
  ELSE RefreshRow(hosts[Watcher], devices, n)

Lookup(n) ==
  /\ hosts' = [hosts EXCEPT ![Watcher] = Dial(n)]
  /\ UNCHANGED <<setting, devices, call, address, memo, edits, moves, blind, writers>>

\* The lab gives the chassis other management addresses.
MoveAddress(a) ==
  /\ moves < setting.moves /\ IsInjective(a) /\ a # address
  /\ address' = a /\ moves' = moves + 1
  /\ UNCHANGED <<setting, devices, hosts, call, memo, edits, blind, writers>>

WriteStep(p) ==
  \/ AddWrite(p) \/ AddNick(p) \/ ForeignWrite(p) \/ RefreshWrite(p)
  \/ CheckRename(p) \/ CheckMeta(p) \/ RenameWrite(p) \/ AliasWrite(p)
  \/ UnaliasWrite(p) \/ RemoveWrite(p) \/ VerifyWrite(p) \/ ConnectWrite(p)
  \/ Reload(p) \/ RemoveRow(p)

Edit(p) ==
  \E n \in Names :
    \/ \E c \in Chassis, nick \in Nicks \cup {None} : Add(p, n, c, nick)
    \/ \E h \in Hosts : AddForeign(p, n, h) \/ RefreshDevice(p, n, h)
    \/ \E h \in Hosts : NameCheck(p, n, h, FALSE, FALSE)
    \/ \E h \in Hosts, keep \in BOOLEAN : NameCheck(p, n, h, TRUE, keep)
    \/ \E new \in Names, keep \in BOOLEAN : Rename(p, n, new, keep)
    \/ \E a \in Names : Alias(p, a, n)
    \/ \E h \in Hosts \cup {None} : Remove(p, n, h)
    \/ Unalias(p, n)
    \/ \E c \in Chassis : Connect(p, n, c)

MapNext ==
  \/ \E p \in Procs : Edit(p) \/ WriteStep(p)
  \/ \E p \in Procs, n \in Names : Expire(p, n) \/ \E h \in Hosts : Verify(p, n, h)
  \/ \E n \in Names : Lookup(n)
  \/ \E a \in [Chassis -> Addrs] : MoveAddress(a)

\* Calls under way end and minutes pass.
MapFairness ==
  \A p \in Procs : /\ WF_mapVars(WriteStep(p))
                   /\ \A n \in Names : WF_mapVars(Expire(p, n))

MapSpec == MapInit /\ [][MapNext]_mapVars /\ MapFairness

-----------------------------------------------------------------------------
\* The types of the variables.
MapTypeOK ==
  /\ IsMap(devices)
  /\ \A p \in Procs \cup {Watcher} :
       /\ DOMAIN hosts[p] \subseteq Names
       /\ Range(hosts[p]) \subseteq (SUBSET Hosts) \ {{}}
  /\ \A p \in Procs : call[p].at \in {"idle", "write", "nick", "rename", "meta", "reload", "row"}
  /\ address \in [Chassis -> Addrs]
  /\ memo \in [Procs -> SUBSET Names]
  /\ edits \in 0..setting.edits /\ moves \in 0..setting.moves
  /\ blind \in BOOLEAN /\ writers \subseteq Procs

\* Each name leads to one device, and each device is one chassis, over any
\* number of processes, until a call writes on something
\* else than it had read, or adds under a nickname or without a system id to
\* compare: nothing else in alias, unalias, rename, remove, refresh, add and
\* name-check breaks the map.
MapSound == ~blind => OneDevicePerName(devices) /\ OneChassisPerDevice(devices)

\* What process p is about to take out of the map.
Drops(p, n) ==
  LET r == call[p] IN
  /\ r.at \in {"write", "rename"}
  /\ \/ r.op = "remove" /\ r.name = Canonical(devices, n)
     \/ r.op = "unalias" /\ r.nick = n
     \/ r.op \in {"rename", "check"} /\ ~r.keep /\ r.name = n

\* A name that leads to a device goes on leading to one until somebody
\* removes the device, detaches the name, or renames without keeping it:
\* no concurrent write of other fields loses it (devices.py:253, "a later
\* writer always sees the earlier writer's committed state").
NamesSurvive ==
  [][\A n \in Names : Known(devices, n) /\ ~Known(devices', n)
       => \E p \in Procs : Drops(p, n) /\ call'[p] # call[p]]_mapVars

\* The table of a process that alone edited the map is the map's (a NETCONF
\* session enrols serials without reloading it).
TableFollowsOwnWrites ==
  \A p \in Procs : writers \subseteq {p} /\ call[p].at = "idle" /\ "connect" \notin setting.ops
    => hosts[p] = HostTable(devices)

\* A long-lived process finds every device that is registered with a host,
\* whoever registered it and whenever (session_daemon.py:373).
RegisteredIsFound ==
  \A n \in DOMAIN devices : devices[n].sns # {} => n \in DOMAIN Dial(n)

\* A process finds by name what the map holds, whoever wrote it.
NamesAreFound == TableFollowsOwnWrites /\ RegisteredIsFound

\* A name leads to one device, and a process finds what is in the map.
MapHolds == MapSound /\ NamesAreFound

\* The devices whose entry leads to one chassis, and has the wrong address.
Misaddressed(n) ==
  /\ n \in DOMAIN devices
  /\ \E c \in Chassis : /\ devices[n].sns # {} /\ devices[n].sns \subseteq HostsOf[c]
                        /\ devices[n].mgmt0 # address[c]

\* As long as some process goes on using a device over NETCONF, gNMI or
\* RESTCONF, the map ends up with the address the chassis has, whatever stale
\* address other calls wrote over it meanwhile.
AddressConverges ==
  \A n \in Names, p \in Procs :
    []<>(n \in memo[p]) /\ []<>(n \notin memo[p]) => <>[]~Misaddressed(n)
=============================================================================

---------------------------- MODULE DeviceMapProofs ----------------------------
(***************************************************************************)
(* That a name goes on leading to one device, and a process finds what the  *)
(* map holds, over any number of processes, names, chassis and hosts.       *)
(*                                                                         *)
(* What a call wrote down when it began (its record in `call`) is about a   *)
(* map that others may have changed since; MapInv says what is still true   *)
(* of it.                                                                   *)
(*                                                                         *)
(* And that the calls of gNMI, which look their devices up in it, tell what  *)
(* is so.  GnInv keeps, of each call, what its answer is being made of: of   *)
(* a read, that no box has gone back behind an entry; of a subscription,    *)
(* that its queue is the end of what was sent and its answer all before it. *)
(***************************************************************************)
EXTENDS DeviceMap, Gnmi, SequenceTheorems, NaturalsInduction, WellFoundedInduction, TLAPS

Bases == {<<>>} \cup ((SUBSET Hosts) \X (Chassis \cup {None}))

AddCalls == [op : {"add"}, at : {"write"}, name : Names, nick : Names \cup {None},
             sns : SUBSET Hosts, chassis : Chassis, addr : Addrs, was : Bases, unchecked : BOOLEAN]
NickCalls == [op : {"add"}, at : {"nick"}, name : Names, nick : Names,
              sns : SUBSET Hosts, chassis : Chassis, addr : Addrs, was : Bases, unchecked : BOOLEAN]
ForeignCalls == [op : {"foreign"}, at : {"write"}, name : Names, sns : SUBSET Hosts,
                 was : Bases, unchecked : BOOLEAN]
RefreshCalls == [op : {"refresh"}, at : {"write"}, name : Names, chassis : Chassis,
                 addr : Addrs, was : Bases]
CheckCalls == [op : {"check"}, at : {"rename", "meta"}, name : Names, new : Names, keep : BOOLEAN]
RenameCalls == [op : {"rename"}, at : {"write"}, name : Names, new : Names, keep : BOOLEAN]
AliasCalls == [op : {"alias"}, at : {"write"}, name : Names, nick : Names]
UnaliasCalls == [op : {"unalias"}, at : {"write"}, nick : Names]
RemoveCalls == [op : {"remove"}, at : {"write"}, name : Names, sns : SUBSET Hosts, was : Bases]
VerifyCalls == [op : {"verify"}, at : {"write"}, name : Names, addr : Addrs, was : Bases]
ConnectCalls == [op : {"connect"}, at : {"write"}, name : Names, chassis : Chassis,
                 was : Bases, unchecked : BOOLEAN]
RowCalls == [op : {"row"}, at : {"row"}, name : Names]
ReloadCalls == [op : {"reload"}, at : {"reload"}, next : {NoCall} \cup NickCalls \cup CheckCalls]

\* The calls that a process can have under way.
Calls ==
  {NoCall} \cup AddCalls \cup NickCalls \cup ForeignCalls \cup RefreshCalls \cup CheckCalls
  \cup RenameCalls
  \cup AliasCalls \cup UnaliasCalls \cup RemoveCalls \cup VerifyCalls \cup ConnectCalls
  \cup RowCalls \cup ReloadCalls

\* What a call that is about to write knows, whatever has been written since:
\* what it was checked against is in the basis it will compare.
Checked(r) ==
  /\ r.op = "foreign" => /\ r.sns # {}
                         /\ ~r.unchecked => /\ \E h \in Hosts : r.sns = {h}
                                            /\ r.was # <<>> => r.was[1] = {}
  /\ r.op = "refresh" => r.was # <<>> /\ \E h \in HostsOf[r.chassis] : h \in r.was[1]
  /\ r.op = "remove" => r.was # <<>> /\ r.sns \subseteq r.was[1]
  /\ r.op = "verify" => r.was # <<>>
  /\ r.op = "connect" => /\ r.was # <<>>
                         /\ ~r.unchecked => r.was[2] \in {None, r.chassis}
  /\ r.op = "add" /\ r.at = "write" => r.sns # {}

\* And, as long as no call wrote blindly: the hosts an add enrols are those
\* of the chassis it asked, unless it had no system id to compare.
Enrols(r) ==
  r.op = "add" /\ r.at = "write" /\ ~r.unchecked => r.sns \subseteq HostsOf[r.chassis]

\* The row of k in table t is the map's; and so is every row but that of n.
Right(t, m, k) ==
  /\ k \in DOMAIN t <=> k \in DOMAIN HostTable(m)
  /\ k \in DOMAIN t => t[k] = HostTable(m)[k]
AgreesBut(t, m, n) == \A k \in Names \ {n} : Right(t, m, k)

\* The table of process p, which alone has written, at each point of a call.
Fresh(p) ==
  \/ call[p].at = "reload"
  \/ call[p].at = "row" /\ AgreesBut(hosts[p], devices, call[p].name)
  \/ call[p].at \notin {"reload", "row"} /\ hosts[p] = HostTable(devices)

Typed ==
  /\ setting \in Settings
  /\ IsMap(devices)
  /\ DOMAIN hosts = Procs \cup {Watcher}
  /\ \A p \in Procs \cup {Watcher} :
       /\ DOMAIN hosts[p] \subseteq Names
       /\ \A n \in DOMAIN hosts[p] : hosts[p][n] \in (SUBSET Hosts) \ {{}}
  /\ call \in [Procs -> Calls]
  /\ address \in [Chassis -> Addrs]
  /\ memo \in [Procs -> SUBSET Names]
  /\ edits \in 0..setting.edits /\ moves \in 0..setting.moves
  /\ blind \in BOOLEAN /\ writers \subseteq Procs

\* The inductive invariant.
MapInv ==
  /\ Typed
  /\ MapSound
  /\ \A p \in Procs : Checked(call[p]) /\ (~blind => Enrols(call[p]))
  /\ \A p \in Procs : call[p].op = "connect" => "connect" \in setting.ops
  /\ \A p \in Procs : writers \subseteq {p} /\ "connect" \notin setting.ops => Fresh(p)

-----------------------------------------------------------------------------
(* Operators on maps.                                                       *)

\* What the constants are assumed to be, in the form the proofs use it.
LEMMA Boxes ==
  /\ \A c \in Chassis : HostsOf[c] \subseteq Hosts /\ HostsOf[c] # {}
  /\ \A c, d \in Chassis : \A h : h \in HostsOf[c] /\ h \in HostsOf[d] => c = d
  /\ \A h \in Hosts : ChassisOf(h) \in Chassis /\ h \in HostsOf[ChassisOf(h)]
  /\ \A c \in Chassis : SystemName[c] \in Names
  /\ Nicks \subseteq Names
<1>1. \A c \in Chassis : HostsOf[c] \subseteq Hosts /\ HostsOf[c] # {}
  BY DeviceMapAssumption
<1>2. ASSUME NEW c \in Chassis, NEW d \in Chassis, NEW h, h \in HostsOf[c] /\ h \in HostsOf[d]
      PROVE  c = d
  <2>1. c # d => HostsOf[c] \cap HostsOf[d] = {}
    BY DeviceMapAssumption
  <2> QED
    BY <1>2, <2>1
<1>3. ASSUME NEW h \in Hosts
      PROVE  ChassisOf(h) \in Chassis /\ h \in HostsOf[ChassisOf(h)]
  <2>1. \E c \in Chassis : h \in HostsOf[c]
    BY DeviceMapAssumption
  <2> QED
    BY <2>1 DEF ChassisOf
<1>4. /\ \A c \in Chassis : SystemName[c] \in Names
      /\ Nicks \subseteq Names
  BY DeviceMapAssumption
<1> QED
  BY <1>1, <1>2, <1>3, <1>4

\* An entry that is read, or made, is one.
LEMMA EntryTyped ==
  ASSUME NEW m, IsMap(m), NEW n \in Names
  PROVE  /\ RawEntry(m, n) \in Entries
         /\ n \notin DOMAIN m => RawEntry(m, n).aliases = {} /\ RawEntry(m, n).sns = {}
         /\ n \notin DOMAIN m => RawEntry(m, n).sid = None
         /\ n \in DOMAIN m => RawEntry(m, n) = m[n]
  BY DEF IsMap, RawEntry, EmptyEntry, Entries

\* The fields of an entry.
LEMMA EntryFields ==
  ASSUME NEW e \in Entries
  PROVE  /\ e.sns \subseteq Hosts /\ e.aliases \subseteq Names
         /\ e.sid \in Chassis \cup {None} /\ e.mgmt0 \in Addrs \cup {None}
  BY DEF Entries

\* A name that leads to a device leads to a key of the map.
LEMMA CanonicalIs ==
  ASSUME NEW m, IsMap(m), NEW n \in Names
  PROVE  /\ Canonical(m, n) \in Names
         /\ Known(m, n) => Canonical(m, n) \in DOMAIN m
         /\ n \in DOMAIN m \/ ~Known(m, n) => Canonical(m, n) = n
         /\ n \notin DOMAIN m /\ Known(m, n) => Canonical(m, n) \in Owners(m, n)
<1>1. CASE n \in DOMAIN m \/ Owners(m, n) = {}
  BY <1>1 DEF Canonical, Known
<1>2. CASE n \notin DOMAIN m /\ Owners(m, n) # {}
  <2>1. Canonical(m, n) = CHOOSE k \in Owners(m, n) : TRUE
    BY <1>2 DEF Canonical
  <2>2. Canonical(m, n) \in Owners(m, n)
    BY <1>2, <2>1
  <2>3. Owners(m, n) \subseteq DOMAIN m /\ DOMAIN m \subseteq Names
    BY DEF Owners, IsMap
  <2> QED
    BY <1>2, <2>2, <2>3 DEF Known
<1> QED
  BY <1>1, <1>2

\* What EntryOf reads.
LEMMA EntryOfIs ==
  ASSUME NEW m, IsMap(m), NEW n \in Names
  PROVE  /\ EntryOf(m, n) \in Entries
         /\ EntryOf(m, n).sns # {} => /\ Known(m, n) /\ Canonical(m, n) \in DOMAIN m
                                      /\ EntryOf(m, n) = m[Canonical(m, n)]
         /\ n \in DOMAIN m => EntryOf(m, n) = m[n]
         /\ EntryOf(m, n) = EmptyEntry \/ \E k \in DOMAIN m : EntryOf(m, n) = m[k]
<1>1. CASE Known(m, n)
  <2>1. Canonical(m, n) \in DOMAIN m /\ (n \in DOMAIN m => Canonical(m, n) = n)
    BY <1>1, CanonicalIs
  <2>2. EntryOf(m, n) = m[Canonical(m, n)]
    BY <1>1 DEF EntryOf
  <2> QED
    BY <1>1, <2>1, <2>2 DEF IsMap
<1>2. CASE ~Known(m, n)
  <2>1. EntryOf(m, n) = EmptyEntry /\ n \notin DOMAIN m
    BY <1>2 DEF EntryOf, Known
  <2>2. EmptyEntry \in Entries /\ EmptyEntry.sns = {}
    BY DEF EmptyEntry, Entries
  <2> QED
    BY <2>1, <2>2
<1> QED
  BY <1>1, <1>2

\* An entry written under its key keeps the map a map.
LEMMA UpdateTyped ==
  ASSUME NEW m, IsMap(m), NEW n \in Names, NEW e \in Entries
  PROVE  /\ IsMap(UpdateDevice(m, n, e))
         /\ DOMAIN UpdateDevice(m, n, e) = DOMAIN m \cup {n}
         /\ UpdateDevice(m, n, e)[n] = e
         /\ \A x \in DOMAIN m \ {n} : UpdateDevice(m, n, e)[x] = m[x]
<1>1. /\ DOMAIN UpdateDevice(m, n, e) = DOMAIN m \cup {n}
      /\ UpdateDevice(m, n, e)[n] = e
      /\ \A x \in DOMAIN m \ {n} : UpdateDevice(m, n, e)[x] = m[x]
  BY DEF UpdateDevice, Put
<1> QED
  BY <1>1 DEF IsMap

\* One that leaves the aliases alone takes no name from anybody, and, unless
\* the key was a nickname, gives none to two.
LEMMA SameAliases ==
  ASSUME NEW m, IsMap(m), NEW n \in Names, NEW e \in Entries,
         e.aliases = RawEntry(m, n).aliases
  PROVE  LET new == UpdateDevice(m, n, e) IN
         /\ \A a \in Names : Known(m, a) => Known(new, a)
         /\ OneDevicePerName(m) /\ ~IsNickname(m, n) => OneDevicePerName(new)
<1> DEFINE new == UpdateDevice(m, n, e)
<1>1. /\ DOMAIN new = DOMAIN m \cup {n}
      /\ new[n] = e
      /\ \A x \in DOMAIN m \ {n} : new[x] = m[x]
  BY DEF UpdateDevice, Put
<1> HIDE DEF new
<1>2. n \notin DOMAIN m => e.aliases = {}
  BY EntryTyped
<1>3. n \in DOMAIN m => e.aliases = m[n].aliases
  BY EntryTyped
<1>4. ASSUME NEW a
      PROVE  Owners(new, a) = Owners(m, a)
  BY <1>1, <1>2, <1>3 DEF Owners
<1>5. ASSUME NEW a \in Names, Known(m, a)
      PROVE  Known(new, a)
  BY <1>1, <1>4, <1>5 DEF Known
<1>6. ASSUME OneDevicePerName(m), ~IsNickname(m, n)
      PROVE  OneDevicePerName(new)
  <2>1. n \notin DOMAIN m => Owners(m, n) = {}
    BY <1>6 DEF IsNickname
  <2> QED
    BY <1>1, <1>4, <1>6, <2>1 DEF OneDevicePerName
<1> QED
  BY <1>5, <1>6 DEF new

\* One whose hosts are of the chassis of its system id keeps every device a
\* chassis.
LEMMA SameChassis ==
  ASSUME NEW m, IsMap(m), NEW n \in Names, NEW e \in Entries, OneChassisPerDevice(m),
         \E c \in Chassis : e.sns \subseteq HostsOf[c] /\ e.sid \in {None, c},
         e.sns = {} => e.sid = None
  PROVE  OneChassisPerDevice(UpdateDevice(m, n, e))
<1> DEFINE new == UpdateDevice(m, n, e)
<1>1. /\ DOMAIN new = DOMAIN m \cup {n}
      /\ new[n] = e
      /\ \A x \in DOMAIN m \ {n} : new[x] = m[x]
  BY DEF UpdateDevice, Put
<1> HIDE DEF new
<1>2. OneChassisPerDevice(new)
  BY <1>1 DEF OneChassisPerDevice
<1> QED
  BY <1>2 DEF new

\* The entry of a registered device is one of a chassis.
LEMMA OfOneChassis ==
  ASSUME NEW m, OneChassisPerDevice(m), NEW n \in DOMAIN m
  PROVE  /\ \E c \in Chassis : m[n].sns \subseteq HostsOf[c] /\ m[n].sid \in {None, c}
         /\ m[n].sns = {} => m[n].sid = None
  BY DEF OneChassisPerDevice

\* A device gets an alias that nobody has.
LEMMA AddAliasKeeps ==
  ASSUME NEW m, IsMap(m), NEW a \in Names, NEW n \in Names, AliasAllowed(m, a, n)
  PROVE  LET new == AddAlias(m, a, n) IN
         /\ IsMap(new)
         /\ \A b \in Names : Known(m, b) => Known(new, b)
         /\ OneDevicePerName(m) => OneDevicePerName(new)
         /\ OneChassisPerDevice(m) => OneChassisPerDevice(new)
<1> DEFINE e == [m[n] EXCEPT !.aliases = @ \cup {a}]
           new == AddAlias(m, a, n)
<1>1. n \in DOMAIN m /\ a \notin DOMAIN m /\ Owners(m, a) \subseteq {n} /\ m[n] \in Entries
  BY DEF AliasAllowed, IsMap
<1>2. /\ e \in Entries /\ e.aliases = m[n].aliases \cup {a}
      /\ e.sns = m[n].sns /\ e.sid = m[n].sid
  BY <1>1 DEF Entries
<1> HIDE DEF e
<1>3. new = UpdateDevice(m, n, e)
  BY DEF AddAlias, e
<1>4. IsMap(new)
  <2>1. IsMap(UpdateDevice(m, n, e))
    BY <1>2, UpdateTyped
  <2> QED
    BY <1>3, <2>1
<1>5. ASSUME OneChassisPerDevice(m)
      PROVE  OneChassisPerDevice(new)
  BY <1>1, <1>2, <1>3, <1>5, OfOneChassis, SameChassis
<1>6. /\ DOMAIN new = DOMAIN m
      /\ new[n] = e
      /\ \A x \in DOMAIN m \ {n} : new[x] = m[x]
  BY <1>1, <1>3 DEF UpdateDevice, Put
<1> HIDE DEF new
<1>7. /\ \A b : b # a => Owners(new, b) = Owners(m, b)
      /\ Owners(new, a) = {n}
  BY <1>1, <1>2, <1>6 DEF Owners
<1>8. ASSUME NEW b \in Names, Known(m, b)
      PROVE  Known(new, b)
  BY <1>6, <1>7, <1>8 DEF Known
<1>9. ASSUME OneDevicePerName(m)
      PROVE  OneDevicePerName(new)
  BY <1>1, <1>6, <1>7, <1>9 DEF OneDevicePerName
<1> QED
  BY <1>4, <1>5, <1>8, <1>9 DEF new

\* An alias is taken from a device that has it: no other name leads elsewhere.
LEMMA RemoveAliasKeeps ==
  ASSUME NEW m, IsMap(m), NEW a \in Names, Owners(m, a) # {}
  PROVE  LET new == RemoveAlias(m, a) IN
         /\ IsMap(new)
         /\ \A b \in Names : b # a /\ Known(m, b) => Known(new, b)
         /\ OneDevicePerName(m) => OneDevicePerName(new)
         /\ OneChassisPerDevice(m) => OneChassisPerDevice(new)
<1> DEFINE n == CHOOSE k \in Owners(m, a) : TRUE
           e == [m[n] EXCEPT !.aliases = @ \ {a}]
           new == RemoveAlias(m, a)
<1>1. n \in Owners(m, a)
  OBVIOUS
<1>2. new = UpdateDevice(m, n, e)
  BY DEF RemoveAlias
<1> HIDE DEF n, e
<1>3. n \in DOMAIN m /\ m[n] \in Entries /\ n \in Names
  BY <1>1 DEF Owners, IsMap
<1>4. /\ e \in Entries /\ e.aliases = m[n].aliases \ {a}
      /\ e.sns = m[n].sns /\ e.sid = m[n].sid
  BY <1>3 DEF Entries, e
<1>5. IsMap(new)
  BY <1>2, <1>3, <1>4, UpdateTyped
<1>6. ASSUME OneChassisPerDevice(m)
      PROVE  OneChassisPerDevice(new)
  BY <1>2, <1>3, <1>4, <1>6, OfOneChassis, SameChassis
<1>7. /\ DOMAIN new = DOMAIN m
      /\ new[n] = e
      /\ \A x \in DOMAIN m \ {n} : new[x] = m[x]
  BY <1>2, <1>3 DEF UpdateDevice, Put
<1> HIDE DEF new
<1>8. /\ \A b : b # a => Owners(new, b) = Owners(m, b)
      /\ Owners(new, a) \subseteq Owners(m, a)
  BY <1>3, <1>4, <1>7 DEF Owners
<1>9. ASSUME NEW b \in Names, b # a, Known(m, b)
      PROVE  Known(new, b)
  BY <1>7, <1>8, <1>9 DEF Known
<1>10. ASSUME OneDevicePerName(m)
       PROVE  OneDevicePerName(new)
  BY <1>7, <1>8, <1>10 DEF OneDevicePerName
<1> QED
  BY <1>5, <1>6, <1>9, <1>10 DEF new

\* A device is removed, with the names that lead to it alone.
LEMMA RemoveDeviceKeeps ==
  ASSUME NEW m, IsMap(m), NEW n \in Names
  PROVE  LET new == RemoveDevice(m, n) IN
         /\ IsMap(new)
         /\ \A b \in Names : Known(m, b) /\ Canonical(m, b) # n => Known(new, b)
         /\ OneDevicePerName(m) => OneDevicePerName(new)
         /\ OneChassisPerDevice(m) => OneChassisPerDevice(new)
<1> DEFINE new == RemoveDevice(m, n)
<1>1. /\ DOMAIN new = DOMAIN m \ {n}
      /\ \A x \in DOMAIN m \ {n} : new[x] = m[x]
  BY DEF RemoveDevice, Without, Restrict
<1> HIDE DEF new
<1>2. IsMap(new)
  BY <1>1 DEF IsMap
<1>3. ASSUME NEW b
      PROVE  Owners(new, b) = Owners(m, b) \ {n}
  BY <1>1 DEF Owners
<1>4. ASSUME NEW b \in Names, Known(m, b), Canonical(m, b) # n
      PROVE  Known(new, b)
  BY <1>1, <1>3, <1>4, CanonicalIs DEF Known
<1>5. ASSUME OneDevicePerName(m)
      PROVE  OneDevicePerName(new)
  BY <1>1, <1>3, <1>5 DEF OneDevicePerName
<1>6. ASSUME OneChassisPerDevice(m)
      PROVE  OneChassisPerDevice(new)
  BY <1>1, <1>6 DEF OneChassisPerDevice
<1> QED
  BY <1>2, <1>4, <1>5, <1>6 DEF new

\* A device is given a name that is free, or its own nickname.
LEMMA RenameKeeps ==
  ASSUME NEW m, IsMap(m), NEW old \in Names, NEW to \in Names, NEW keep \in BOOLEAN,
         RenameAllowed(m, old, to)
  PROVE  LET new == RenameDevice(m, old, to, keep) IN
         /\ IsMap(new)
         /\ \A b \in Names : Known(m, b) /\ ~(b = old /\ ~keep) => Known(new, b)
         /\ OneDevicePerName(m) => OneDevicePerName(new)
         /\ OneChassisPerDevice(m) => OneChassisPerDevice(new)
<1> DEFINE kept == (m[old].aliases \ {to}) \cup IF keep THEN {old} ELSE {}
           e == [m[old] EXCEPT !.aliases = kept]
           rest == RemoveDevice(m, old)
           new == RenameDevice(m, old, to, keep)
<1>1. /\ old \in DOMAIN m /\ to \notin DOMAIN m /\ Owners(m, to) \subseteq {old}
      /\ m[old] \in Entries
  BY DEF RenameAllowed, IsMap
<1>2. /\ e \in Entries /\ e.aliases = kept
      /\ e.sns = m[old].sns /\ e.sid = m[old].sid
  BY <1>1 DEF Entries
<1>3. new = UpdateDevice(rest, to, e)
  BY DEF RenameDevice
<1>4. \A b : b \in kept <=> (b \in m[old].aliases /\ b # to) \/ (keep /\ b = old)
  OBVIOUS
<1> HIDE DEF e, kept
<1>5. /\ IsMap(rest)
      /\ OneChassisPerDevice(m) => OneChassisPerDevice(rest)
  BY RemoveDeviceKeeps
<1>6. /\ DOMAIN rest = DOMAIN m \ {old}
      /\ \A x \in DOMAIN m \ {old} : rest[x] = m[x]
  BY DEF RemoveDevice, Without, Restrict
<1> HIDE DEF rest
<1>7. IsMap(new)
  <2>1. IsMap(UpdateDevice(rest, to, e))
    BY <1>2, <1>5, UpdateTyped
  <2> QED
    BY <1>3, <2>1
<1>8. ASSUME OneChassisPerDevice(m)
      PROVE  OneChassisPerDevice(new)
  BY <1>1, <1>2, <1>3, <1>5, <1>8, OfOneChassis, SameChassis
<1>9. /\ DOMAIN new = (DOMAIN m \ {old}) \cup {to}
      /\ new[to] = e
      /\ \A x \in DOMAIN m \ {old} : new[x] = m[x]
  BY <1>1, <1>3, <1>6 DEF UpdateDevice, Put
<1> HIDE DEF new
<1>10. ASSUME NEW b
       PROVE  /\ \A k \in DOMAIN m \ {old} : k \in Owners(new, b) <=> k \in Owners(m, b)
              /\ to \in Owners(new, b) <=> b \in kept
              /\ Owners(new, b) \subseteq (DOMAIN m \ {old}) \cup {to}
  BY <1>1, <1>2, <1>9 DEF Owners
<1>11. ASSUME NEW b \in Names, Known(m, b), ~(b = old /\ ~keep)
       PROVE  Known(new, b)
  <2>1. CASE b \in DOMAIN new
    BY <2>1 DEF Known
  <2>2. CASE b = old
    BY <1>4, <1>10, <1>11, <2>2 DEF Known
  <2>3. CASE b \notin DOMAIN new /\ b # old
    <3>1. PICK k \in Owners(m, b) : TRUE
      BY <1>9, <1>11, <2>3 DEF Known
    <3>2. k \in DOMAIN m /\ b \in m[k].aliases
      BY <3>1 DEF Owners
    <3>3. CASE k = old
      BY <1>4, <1>9, <1>10, <2>3, <3>2, <3>3 DEF Known
    <3>4. CASE k # old
      BY <1>10, <3>1, <3>2, <3>4 DEF Known
    <3> QED
      BY <3>3, <3>4
  <2> QED
    BY <2>1, <2>2, <2>3
<1>12. ASSUME OneDevicePerName(m)
       PROVE  OneDevicePerName(new)
  <2>1. Owners(m, old) = {}
    BY <1>1, <1>12 DEF OneDevicePerName
  <2>2. ASSUME NEW b \in Names, NEW k \in Owners(new, b)
        PROVE  /\ b \notin DOMAIN new
               /\ k = to \/ (k \in Owners(m, b) /\ k # old)
               /\ k = to => b = old \/ old \in Owners(m, b)
    <3>1. k \in (DOMAIN m \ {old}) \cup {to}
      BY <1>10
    <3>2. CASE k = to
      <4>1. b \in kept
        BY <1>10, <3>2
      <4>2. CASE b = old
        BY <1>1, <1>9, <3>2, <4>2
      <4>3. CASE b \in m[old].aliases /\ b # to
        <5>1. old \in Owners(m, b)
          BY <1>1, <4>3 DEF Owners
        <5>2. b \notin DOMAIN m
          BY <1>12, <5>1 DEF OneDevicePerName
        <5>3. b \notin DOMAIN new
          BY <1>9, <4>3, <5>2
        <5> QED
          BY <3>2, <5>1, <5>3
      <4> QED
        BY <1>4, <4>1, <4>2, <4>3
    <3>3. CASE k # to
      <4>1. k \in Owners(m, b) /\ k # old
        BY <1>10, <3>1, <3>3
      <4>2. b \notin DOMAIN m
        BY <1>12, <4>1 DEF OneDevicePerName
      <4>3. b # to
        BY <1>1, <4>1
      <4> QED
        BY <1>9, <3>3, <4>1, <4>2, <4>3
    <3> QED
      BY <3>2, <3>3
  <2>3. ASSUME NEW b \in Names, NEW k \in Owners(new, b), NEW l \in Owners(new, b)
        PROVE  k = l
    <3>1. \A j, i \in Owners(m, b) : j = i
      BY <1>12 DEF OneDevicePerName
    <3> QED
      BY <2>1, <2>2, <3>1
  <2> QED
    BY <2>2, <2>3 DEF OneDevicePerName
<1> QED
  BY <1>7, <1>8, <1>11, <1>12 DEF new

-----------------------------------------------------------------------------
(* Calls.                                                                   *)

\* A call is of the kind its op says.
LEMMA CallKinds ==
  ASSUME NEW r \in Calls
  PROVE  /\ r.op = "add" /\ r.at = "write" => r \in AddCalls
         /\ r.op = "add" /\ r.at = "nick" => r \in NickCalls
         /\ r.op = "foreign" => r \in ForeignCalls
         /\ r.op = "refresh" => r \in RefreshCalls
         /\ r.op = "check" => r \in CheckCalls
         /\ r.op = "rename" => r \in RenameCalls
         /\ r.op = "alias" => r \in AliasCalls
         /\ r.op = "unalias" => r \in UnaliasCalls
         /\ r.op = "remove" => r \in RemoveCalls
         /\ r.op = "verify" => r \in VerifyCalls
         /\ r.op = "connect" => r \in ConnectCalls
         /\ r.at = "row" => r \in RowCalls
         /\ r.at = "reload" => r \in ReloadCalls
<1>1. \A x \in {NoCall} : x.op = "none" /\ x.at = "idle"
  BY DEF NoCall
<1>2. \A x \in AddCalls : x.op = "add" /\ x.at = "write"
  BY DEF AddCalls
<1>14. \A x \in NickCalls : x.op = "add" /\ x.at = "nick"
  BY DEF NickCalls
<1>3. \A x \in ForeignCalls : x.op = "foreign" /\ x.at = "write"
  BY DEF ForeignCalls
<1>4. \A x \in RefreshCalls : x.op = "refresh" /\ x.at = "write"
  BY DEF RefreshCalls
<1>5. \A x \in CheckCalls : x.op = "check" /\ x.at \in {"rename", "meta"}
  BY DEF CheckCalls
<1>6. \A x \in RenameCalls : x.op = "rename" /\ x.at = "write"
  BY DEF RenameCalls
<1>7. \A x \in AliasCalls : x.op = "alias" /\ x.at = "write"
  BY DEF AliasCalls
<1>8. \A x \in UnaliasCalls : x.op = "unalias" /\ x.at = "write"
  BY DEF UnaliasCalls
<1>9. \A x \in RemoveCalls : x.op = "remove" /\ x.at = "write"
  BY DEF RemoveCalls
<1>10. \A x \in VerifyCalls : x.op = "verify" /\ x.at = "write"
  BY DEF VerifyCalls
<1>11. \A x \in ConnectCalls : x.op = "connect" /\ x.at = "write"
  BY DEF ConnectCalls
<1>12. \A x \in RowCalls : x.op = "row" /\ x.at = "row"
  BY DEF RowCalls
<1>13. \A x \in ReloadCalls : x.op = "reload" /\ x.at = "reload"
  BY DEF ReloadCalls
<1> QED
  BY <1>1, <1>2, <1>3, <1>4, <1>5, <1>6, <1>7, <1>8, <1>9, <1>10, <1>11, <1>12, <1>13, <1>14 DEF Calls

\* Where a call goes on from.
LEMMA Afterwards ==
  /\ NoCall \in Calls /\ NoCall.op = "none" /\ NoCall.at = "idle"
  /\ Reloading \in Calls /\ Reloading.op = "reload" /\ Reloading.at = "reload"
  /\ \A n \in Names : LET row == [op |-> "row", at |-> "row", name |-> n] IN
       row \in Calls /\ row.op = "row" /\ row.at = "row" /\ row.name = n
  /\ \A x \in NickCalls \cup CheckCalls :
       ReloadThen(x) \in Calls /\ ReloadThen(x).op = "reload" /\ ReloadThen(x).at = "reload"
<1>1. NoCall \in Calls /\ NoCall.op = "none" /\ NoCall.at = "idle"
  BY DEF NoCall, Calls
<1>2. \A x \in {NoCall} \cup NickCalls \cup CheckCalls :
        /\ ReloadThen(x) \in ReloadCalls
        /\ ReloadThen(x).op = "reload" /\ ReloadThen(x).at = "reload"
  BY DEF ReloadThen, ReloadCalls
<1>3. \A x \in ReloadCalls : x \in Calls
  BY DEF Calls
<1>4. ASSUME NEW n \in Names
      PROVE  LET row == [op |-> "row", at |-> "row", name |-> n] IN
             row \in RowCalls /\ row.op = "row" /\ row.at = "row" /\ row.name = n
  BY DEF RowCalls
<1>5. \A x \in RowCalls : x \in Calls
  BY DEF Calls
<1>6. Reloading = ReloadThen(NoCall)
  BY DEF Reloading
<1> QED
  BY <1>1, <1>2, <1>3, <1>4, <1>5, <1>6

\* A call that has nothing to check knows nothing.
LEMMA NothingToCheck ==
  ASSUME NEW r, r.op \in {"none", "reload", "row", "check", "rename", "alias", "unalias"}
  PROVE  Checked(r) /\ Enrols(r)
  BY DEF Checked, Enrols

\* Another process's call is not changed.
LEMMA OneBecomes ==
  ASSUME call \in [Procs -> Calls], NEW p \in Procs, NEW record \in Calls, Become(p, record)
  PROVE  /\ call' \in [Procs -> Calls] /\ call'[p] = record
         /\ \A q \in Procs \ {p} : call'[q] = call[q]
  BY DEF Become

\* A process notes what it is about to do, or that its call is over.
LEMMA Noted ==
  ASSUME MapInv, NEW p \in Procs, NEW record \in Calls, Become(p, record),
         call[p].at \notin {"reload", "row"}, record.at \notin {"reload", "row"},
         Checked(record), ~blind => Enrols(record),
         record.op = "connect" => "connect" \in setting.ops,
         edits' \in 0..setting.edits, memo' \in [Procs -> SUBSET Names],
         UNCHANGED <<setting, devices, hosts, address, moves, blind, writers>>
  PROVE  MapInv'
<1>1. /\ call' \in [Procs -> Calls] /\ call'[p] = record
      /\ \A q \in Procs \ {p} : call'[q] = call[q]
  BY OneBecomes DEF MapInv, Typed
<1>2. Typed'
  BY <1>1 DEF MapInv, Typed
<1>3. MapSound'
  BY DEF MapInv, MapSound
<1>4. ASSUME NEW q \in Procs
      PROVE  Checked(call'[q]) /\ (~blind' => Enrols(call'[q]))
  BY <1>1 DEF MapInv
<1>5. ASSUME NEW q \in Procs, call'[q].op = "connect"
      PROVE  "connect" \in setting'.ops
  BY <1>1, <1>5 DEF MapInv
<1>6. ASSUME NEW q \in Procs, writers' \subseteq {q}, "connect" \notin setting'.ops
      PROVE  Fresh(q)'
  <2>1. Fresh(q)
    BY <1>6 DEF MapInv
  <2>2. CASE q = p
    BY <1>1, <2>1, <2>2 DEF Fresh
  <2>3. CASE q # p
    BY <1>1, <2>1, <2>3 DEF Fresh
  <2> QED
    BY <2>2, <2>3
<1> QED
  BY <1>2, <1>3, <1>4, <1>5, <1>6 DEF MapInv

\* A process writes a map.
LEMMA Written ==
  ASSUME MapInv, NEW p \in Procs, NEW m, IsMap(m), NEW record \in Calls, Become(p, record),
         call[p].at \notin {"reload", "row"}, record.op \in {"none", "reload", "row"},
         devices' = m, blind' \in BOOLEAN,
         ~blind' => ~blind /\ OneDevicePerName(m) /\ OneChassisPerDevice(m),
         writers \subseteq writers', writers' \subseteq Procs, m # devices => p \in writers',
         \/ record.at = "reload"
         \/ record.at = "row" /\ (hosts[p] = HostTable(devices) => AgreesBut(hosts[p], m, record.name))
         \/ record.at = "idle" /\ (HostTable(m) = HostTable(devices) \/ "connect" \in setting.ops),
         memo' \in [Procs -> SUBSET Names],
         UNCHANGED <<setting, hosts, address, edits, moves>>
  PROVE  MapInv'
<1>1. /\ call' \in [Procs -> Calls] /\ call'[p] = record
      /\ \A q \in Procs \ {p} : call'[q] = call[q]
  BY OneBecomes DEF MapInv, Typed
<1>2. Typed'
  BY <1>1 DEF MapInv, Typed
<1>3. MapSound'
  BY DEF MapSound
<1>4. ASSUME NEW q \in Procs
      PROVE  Checked(call'[q]) /\ (~blind' => Enrols(call'[q]))
  BY <1>1, NothingToCheck DEF MapInv
<1>5. ASSUME NEW q \in Procs, call'[q].op = "connect"
      PROVE  "connect" \in setting'.ops
  BY <1>1, <1>5 DEF MapInv
<1>6. ASSUME NEW q \in Procs, writers' \subseteq {q}, "connect" \notin setting'.ops
      PROVE  Fresh(q)'
  <2>1. Fresh(q)
    BY <1>6 DEF MapInv
  <2>2. CASE q = p
    <3>1. hosts[p] = HostTable(devices)
      BY <2>1, <2>2 DEF Fresh
    <3> QED
      BY <1>1, <1>6, <2>2, <3>1 DEF Fresh
  <2>3. CASE q # p
    <3>1. m = devices
      BY <1>6, <2>3
    <3> QED
      BY <1>1, <2>1, <2>3, <3>1 DEF Fresh
  <2> QED
    BY <2>2, <2>3
<1> QED
  BY <1>2, <1>3, <1>4, <1>5, <1>6 DEF MapInv

-----------------------------------------------------------------------------
(* A call begins.                                                           *)

\* What a call relies on.
LEMMA BasisIs ==
  ASSUME NEW m, IsMap(m), NEW n \in Names
  PROVE  /\ Basis(m, n) \in Bases
         /\ n \in DOMAIN m => /\ Basis(m, n) = <<m[n].sns, m[n].sid>>
                              /\ Basis(m, n) # <<>>
                              /\ Basis(m, n)[1] = m[n].sns /\ Basis(m, n)[2] = m[n].sid
         /\ n \notin DOMAIN m => Basis(m, n) = <<>>
<1>1. CASE n \in DOMAIN m
  <2>1. m[n] \in Entries
    BY <1>1 DEF IsMap
  <2>2. Basis(m, n) = <<m[n].sns, m[n].sid>>
    BY <1>1 DEF Basis
  <2>3. m[n].sns \subseteq Hosts /\ m[n].sid \in Chassis \cup {None}
    BY <2>1, EntryFields
  <2> QED
    BY <1>1, <2>2, <2>3 DEF Bases
<1>2. CASE n \notin DOMAIN m
  BY <1>2 DEF Basis, Bases
<1> QED
  BY <1>1, <1>2

\* A process notes a call whose record is right about what it read.
LEMMA Begun ==
  ASSUME MapInv, NEW p \in Procs, NEW record \in Calls, Begin(p, record),
         record.at \notin {"reload", "row"}, Checked(record), ~blind => Enrols(record)
  PROVE  MapInv'
<1>1. /\ call[p].at \notin {"reload", "row"} /\ Become(p, record)
      /\ UNCHANGED <<setting, devices, hosts, address, moves, blind, writers>>
      /\ record.op = "connect" => "connect" \in setting.ops
      /\ memo' = memo
  BY DEF Begin
<1>2. edits' \in 0..setting.edits
  <2>1. setting.edits \in Nat /\ edits \in 0..setting.edits
    BY DeviceMapAssumption DEF MapInv, Typed, SettingsOK
  <2>2. edits < setting.edits /\ edits' = edits + 1
    BY DEF Begin
  <2> QED
    BY <2>1, <2>2
<1>3. memo' \in [Procs -> SUBSET Names]
  BY <1>1 DEF MapInv, Typed
<1> QED
  BY <1>1, <1>2, <1>3, Noted

\* `device add`: the hosts it will enrol are the known ones and those of
\* the chassis that answered.
LEMMA AddBegins ==
  ASSUME MapInv, NEW p \in Procs, NEW n \in Names, NEW c \in Chassis, NEW nick \in Nicks \cup {None},
         Add(p, n, c, nick)
  PROVE  MapInv'
<1> DEFINE old == EntryOf(devices, n)
           unchecked == old.sid = None /\ old.sns # {}
           r == [op |-> "add", at |-> "write", name |-> n, nick |-> nick,
                 sns |-> old.sns \cup HostsOf[c], chassis |-> c,
                 addr |-> address[c], was |-> Basis(devices, n), unchecked |-> unchecked]
<1>1. old.sid \in {None, c} /\ Begin(p, r)
  BY DEF Add
<1>2. IsMap(devices) /\ address \in [Chassis -> Addrs] /\ Nicks \subseteq Names
  BY Boxes DEF MapInv, Typed
<1>3. /\ old.sns \subseteq Hosts
      /\ HostsOf[c] \subseteq Hosts /\ HostsOf[c] # {}
      /\ address[c] \in Addrs /\ nick \in Names \cup {None}
  BY <1>2, EntryOfIs, EntryFields, Boxes
<1>4. Basis(devices, n) \in Bases
  BY <1>2, BasisIs
<1>5. unchecked \in BOOLEAN /\ (~unchecked => old.sid # None \/ old.sns = {})
  OBVIOUS
<1>6. ASSUME ~blind, ~unchecked
      PROVE  old.sns \subseteq HostsOf[c]
  <2>1. CASE old.sns = {}
    BY <2>1
  <2>2. CASE old.sns # {}
    <3>1. PICK k \in DOMAIN devices : old = devices[k]
      BY <1>2, <2>2, EntryOfIs
    <3>2. PICK d \in Chassis : old.sns \subseteq HostsOf[d] /\ old.sid \in {None, d}
      BY <1>6, <3>1, OfOneChassis DEF MapInv, MapSound
    <3>3. d = c
      BY <1>1, <1>5, <1>6, <2>2, <3>2
    <3> QED
      BY <3>2, <3>3
  <2> QED
    BY <2>1, <2>2
<1> HIDE DEF old, unchecked
<1>7. /\ r \in AddCalls /\ r.op = "add" /\ r.at = "write"
      /\ r.sns = old.sns \cup HostsOf[c] /\ r.chassis = c /\ r.unchecked = unchecked
  BY <1>3, <1>4, <1>5 DEF AddCalls
<1> HIDE DEF r
<1>8. r \in Calls
  BY <1>7 DEF Calls
<1>9. Checked(r)
  BY <1>3, <1>7 DEF Checked
<1>10. ~blind => Enrols(r)
  BY <1>6, <1>7 DEF Enrols
<1> QED
  BY <1>1, <1>7, <1>8, <1>9, <1>10, Begun

\* Adding a foreign host: alone, unless the device had hosts already.
LEMMA ForeignBegins ==
  ASSUME MapInv, NEW p \in Procs, NEW n \in Names, NEW h \in Hosts, AddForeign(p, n, h)
  PROVE  MapInv'
<1> DEFINE old == EntryOf(devices, n)
           unchecked == old.sns # {}
           r == [op |-> "foreign", at |-> "write", name |-> n,
                 sns |-> old.sns \cup {h}, was |-> Basis(devices, n), unchecked |-> unchecked]
<1>1. Begin(p, r)
  BY DEF AddForeign
<1>2. IsMap(devices)
  BY DEF MapInv, Typed
<1>3. old.sns \subseteq Hosts /\ (n \in DOMAIN devices => old = devices[n])
  BY <1>2, EntryOfIs, EntryFields
<1>4. /\ Basis(devices, n) \in Bases
      /\ Basis(devices, n) # <<>> => Basis(devices, n)[1] = old.sns
  BY <1>2, <1>3, BasisIs
<1>5. unchecked \in BOOLEAN /\ (~unchecked => old.sns = {})
  OBVIOUS
<1> HIDE DEF old, unchecked
<1>6. /\ r \in ForeignCalls /\ r.op = "foreign" /\ r.at = "write"
      /\ r.sns = old.sns \cup {h} /\ r.unchecked = unchecked /\ r.was = Basis(devices, n)
  BY <1>3, <1>4, <1>5 DEF ForeignCalls
<1> HIDE DEF r
<1>7. r \in Calls
  BY <1>6 DEF Calls
<1>8. Checked(r)
  <2>1. r.sns # {}
    BY <1>6
  <2>2. ~r.unchecked => (\E x \in Hosts : r.sns = {x}) /\ (r.was # <<>> => r.was[1] = {})
    BY <1>4, <1>5, <1>6
  <2> QED
    BY <1>6, <2>1, <2>2 DEF Checked
<1>9. Enrols(r)
  BY <1>6 DEF Enrols
<1> QED
  BY <1>1, <1>6, <1>7, <1>8, <1>9, Begun

\* A refresh has reached the chassis through a host the device has.
LEMMA RefreshBegins ==
  ASSUME MapInv, NEW p \in Procs, NEW n \in Names, NEW h \in Hosts, RefreshDevice(p, n, h)
  PROVE  MapInv'
<1> DEFINE k == Canonical(devices, n)
           r == [op |-> "refresh", at |-> "write", name |-> k,
                 chassis |-> ChassisOf(h), addr |-> address[ChassisOf(h)],
                 was |-> Basis(devices, k)]
<1>1. h \in EntryOf(devices, n).sns /\ Begin(p, r)
  BY DEF RefreshDevice
<1>2. IsMap(devices) /\ address \in [Chassis -> Addrs]
  BY DEF MapInv, Typed
<1>3. k \in DOMAIN devices /\ k \in Names /\ h \in devices[k].sns
  BY <1>1, <1>2, EntryOfIs, CanonicalIs
<1>4. /\ Basis(devices, k) \in Bases /\ Basis(devices, k) # <<>>
      /\ h \in Basis(devices, k)[1]
  BY <1>2, <1>3, BasisIs
<1>5. /\ ChassisOf(h) \in Chassis /\ h \in HostsOf[ChassisOf(h)]
      /\ address[ChassisOf(h)] \in Addrs
  BY <1>2, Boxes
<1> HIDE DEF k
<1>6. /\ r \in RefreshCalls /\ r.op = "refresh" /\ r.at = "write"
      /\ r.chassis = ChassisOf(h) /\ r.was = Basis(devices, k)
  BY <1>3, <1>4, <1>5 DEF RefreshCalls
<1> HIDE DEF r
<1>7. r \in Calls
  BY <1>6 DEF Calls
<1>8. Checked(r)
  BY <1>4, <1>5, <1>6 DEF Checked
<1>9. Enrols(r)
  BY <1>6 DEF Enrols
<1> QED
  BY <1>1, <1>6, <1>7, <1>8, <1>9, Begun

\* The name check notes the key and the name the device gives itself.
LEMMA CheckBegins ==
  ASSUME MapInv, NEW p \in Procs, NEW n \in Names, NEW h \in Hosts,
         NEW sync \in BOOLEAN, NEW keep \in BOOLEAN, NameCheck(p, n, h, sync, keep)
  PROVE  MapInv'
<1> DEFINE k == Canonical(devices, n)
           s == SystemName[ChassisOf(h)]
           at == IF sync /\ s # k THEN "rename" ELSE "meta"
           r == [op |-> "check", at |-> at, name |-> k, new |-> s, keep |-> keep]
<1>1. Begin(p, r)
  BY DEF NameCheck
<1>2. k \in Names /\ s \in Names
  BY CanonicalIs, Boxes DEF MapInv, Typed
<1>3. at \in {"rename", "meta"}
  OBVIOUS
<1> HIDE DEF k, s, at
<1>4. r \in CheckCalls /\ r.op = "check" /\ r.at \in {"rename", "meta"}
  BY <1>2, <1>3 DEF CheckCalls
<1> HIDE DEF r
<1>5. r \in Calls /\ Checked(r) /\ Enrols(r)
  BY <1>4, NothingToCheck DEF Calls
<1> QED
  BY <1>1, <1>4, <1>5, Begun

\* A rename notes the key, and the new name unchecked.
LEMMA RenameBegins ==
  ASSUME MapInv, NEW p \in Procs, NEW n \in Names, NEW to \in Names, NEW keep \in BOOLEAN,
         Rename(p, n, to, keep)
  PROVE  MapInv'
<1> DEFINE k == Canonical(devices, n)
           r == [op |-> "rename", at |-> "write", name |-> k, new |-> to, keep |-> keep]
<1>1. Begin(p, r)
  BY DEF Rename
<1>2. k \in Names
  BY CanonicalIs DEF MapInv, Typed
<1> HIDE DEF k
<1>3. r \in RenameCalls /\ r.op = "rename" /\ r.at = "write"
  BY <1>2 DEF RenameCalls
<1> HIDE DEF r
<1>4. r \in Calls /\ Checked(r) /\ Enrols(r)
  BY <1>3, NothingToCheck DEF Calls
<1> QED
  BY <1>1, <1>3, <1>4, Begun

\* A nickname notes the key it will be of.
LEMMA AliasBegins ==
  ASSUME MapInv, NEW p \in Procs, NEW a \in Names, NEW n \in Names, Alias(p, a, n)
  PROVE  MapInv'
<1> DEFINE k == Canonical(devices, n)
           r == [op |-> "alias", at |-> "write", name |-> k, nick |-> a]
<1>1. Begin(p, r)
  BY DEF Alias
<1>2. k \in Names
  BY CanonicalIs DEF MapInv, Typed
<1> HIDE DEF k
<1>3. r \in AliasCalls /\ r.op = "alias" /\ r.at = "write"
  BY <1>2 DEF AliasCalls
<1> HIDE DEF r
<1>4. r \in Calls /\ Checked(r) /\ Enrols(r)
  BY <1>3, NothingToCheck DEF Calls
<1> QED
  BY <1>1, <1>3, <1>4, Begun

\* The removal of a nickname notes only it.
LEMMA UnaliasBegins ==
  ASSUME MapInv, NEW p \in Procs, NEW a \in Names, Unalias(p, a)
  PROVE  MapInv'
<1> DEFINE r == [op |-> "unalias", at |-> "write", nick |-> a]
<1>1. Begin(p, r)
  BY DEF Unalias
<1>2. r \in UnaliasCalls /\ r.op = "unalias" /\ r.at = "write"
  BY DEF UnaliasCalls
<1> HIDE DEF r
<1>3. r \in Calls /\ Checked(r) /\ Enrols(r)
  BY <1>2, NothingToCheck DEF Calls
<1> QED
  BY <1>1, <1>2, <1>3, Begun

\* A removal of a host notes the hosts that it found besides.
LEMMA RemoveBegins ==
  ASSUME MapInv, NEW p \in Procs, NEW n \in Names, NEW h \in Hosts \cup {None}, Remove(p, n, h)
  PROVE  MapInv'
<1> DEFINE k == Canonical(devices, n)
           sns == IF h = None THEN {} ELSE devices[k].sns \ {h}
           r == [op |-> "remove", at |-> "write", name |-> k, sns |-> sns,
                 was |-> Basis(devices, k)]
<1>1. Known(devices, n) /\ Begin(p, r)
  BY DEF Remove
<1>2. IsMap(devices)
  BY DEF MapInv, Typed
<1>3. k \in DOMAIN devices /\ k \in Names /\ devices[k] \in Entries
  BY <1>1, <1>2, CanonicalIs DEF IsMap
<1>4. /\ Basis(devices, k) \in Bases /\ Basis(devices, k) # <<>>
      /\ Basis(devices, k)[1] = devices[k].sns
  BY <1>2, <1>3, BasisIs
<1>5. sns \subseteq devices[k].sns /\ sns \subseteq Hosts
  BY <1>3, EntryFields
<1> HIDE DEF k, sns
<1>6. /\ r \in RemoveCalls /\ r.op = "remove" /\ r.at = "write"
      /\ r.sns = sns /\ r.was = Basis(devices, k)
  BY <1>3, <1>4, <1>5 DEF RemoveCalls
<1> HIDE DEF r
<1>7. r \in Calls
  BY <1>6 DEF Calls
<1>8. Checked(r)
  BY <1>4, <1>5, <1>6 DEF Checked
<1>9. Enrols(r)
  BY <1>6 DEF Enrols
<1> QED
  BY <1>1, <1>6, <1>7, <1>8, <1>9, Begun

\* A connect that found a system id has compared it, or noted it has not.
LEMMA ConnectBegins ==
  ASSUME MapInv, NEW p \in Procs, NEW n \in Names, NEW c \in Chassis, Connect(p, n, c)
  PROVE  MapInv'
<1> DEFINE unchecked == devices[n].sid \notin {None, c}
           r == [op |-> "connect", at |-> "write", name |-> n, chassis |-> c,
                 was |-> Basis(devices, n), unchecked |-> unchecked]
<1>1. n \in DOMAIN devices /\ Begin(p, r)
  BY DEF Connect
<1>2. IsMap(devices)
  BY DEF MapInv, Typed
<1>3. /\ Basis(devices, n) \in Bases /\ Basis(devices, n) # <<>>
      /\ Basis(devices, n)[2] = devices[n].sid
  BY <1>1, <1>2, BasisIs
<1>4. unchecked \in BOOLEAN /\ (~unchecked => devices[n].sid \in {None, c})
  OBVIOUS
<1> HIDE DEF unchecked
<1>5. /\ r \in ConnectCalls /\ r.op = "connect" /\ r.at = "write" /\ r.chassis = c
      /\ r.was = Basis(devices, n) /\ r.unchecked = unchecked
  BY <1>3, <1>4 DEF ConnectCalls
<1> HIDE DEF r
<1>6. r \in Calls
  BY <1>5 DEF Calls
<1>7. Checked(r)
  BY <1>3, <1>4, <1>5 DEF Checked
<1>8. Enrols(r)
  BY <1>5 DEF Enrols
<1> QED
  BY <1>1, <1>5, <1>6, <1>7, <1>8, Begun

\* So every edit begins soundly.
LEMMA EditBegins ==
  ASSUME MapInv, NEW p \in Procs, Edit(p)
  PROVE  MapInv'
<1>1. PICK n \in Names :
        \/ \E c \in Chassis, nick \in Nicks \cup {None} : Add(p, n, c, nick)
        \/ \E h \in Hosts : AddForeign(p, n, h) \/ RefreshDevice(p, n, h)
        \/ \E h \in Hosts : NameCheck(p, n, h, FALSE, FALSE)
        \/ \E h \in Hosts, keep \in BOOLEAN : NameCheck(p, n, h, TRUE, keep)
        \/ \E new \in Names, keep \in BOOLEAN : Rename(p, n, new, keep)
        \/ \E a \in Names : Alias(p, a, n)
        \/ \E h \in Hosts \cup {None} : Remove(p, n, h)
        \/ Unalias(p, n)
        \/ \E c \in Chassis : Connect(p, n, c)
  BY DEF Edit
<1>2. TRUE \in BOOLEAN /\ FALSE \in BOOLEAN
  OBVIOUS
<1> QED
  BY <1>1, <1>2, AddBegins, ForeignBegins, RefreshBegins, CheckBegins, RenameBegins, AliasBegins,
     RemoveBegins, UnaliasBegins, ConnectBegins

-----------------------------------------------------------------------------
(* A call writes.                                                           *)

\* No name is lost but those that p was told to drop.
Loses(p) ==
  \A n \in Names : Known(devices, n) /\ ~Known(devices', n) => Drops(p, n) /\ call'[p] # call[p]

\* What the basis says, when it is the one the call has noted.
LEMMA BasisStill ==
  ASSUME NEW m, IsMap(m), NEW n \in Names, NEW was, Basis(m, n) = was
  PROVE  /\ was # <<>> => /\ n \in DOMAIN m /\ ~IsNickname(m, n)
                          /\ m[n].sns = was[1] /\ m[n].sid = was[2]
         /\ was = <<>> => n \notin DOMAIN m
  BY BasisIs DEF IsNickname

\* A write that changes no aliases.
LEMMA UpdateWritten ==
  ASSUME MapInv, NEW p \in Procs, NEW n \in Names, NEW e \in Entries, NEW record \in Calls,
         e.aliases = RawEntry(devices, n).aliases,
         call[p].at \notin {"reload", "row"}, record.op \in {"none", "reload", "row"},
         Become(p, record), devices' = UpdateDevice(devices, n, e), blind' \in BOOLEAN,
         ~blind' => /\ ~blind /\ ~IsNickname(devices, n)
                    /\ \E c \in Chassis : e.sns \subseteq HostsOf[c] /\ e.sid \in {None, c}
                    /\ e.sns = {} => e.sid = None,
         writers \subseteq writers', writers' \subseteq Procs, devices' # devices => p \in writers',
         \/ record.at = "reload"
         \/ record.at = "row" /\ record.name = n
         \/ record.at = "idle" /\ e.sns = RawEntry(devices, n).sns
         \/ record.at = "idle" /\ "connect" \in setting.ops,
         memo' \in [Procs -> SUBSET Names],
         UNCHANGED <<setting, hosts, address, edits, moves>>
  PROVE  MapInv' /\ Loses(p)
<1> DEFINE m == UpdateDevice(devices, n, e)
<1>1. IsMap(devices)
  BY DEF MapInv, Typed
<1>2. IsMap(m)
  BY <1>1, UpdateTyped
<1>3. /\ \A a \in Names : Known(devices, a) => Known(m, a)
      /\ OneDevicePerName(devices) /\ ~IsNickname(devices, n) => OneDevicePerName(m)
  BY <1>1, SameAliases
<1>4. ~blind' => ~blind /\ OneDevicePerName(m) /\ OneChassisPerDevice(m)
  BY <1>1, <1>3, SameChassis DEF MapInv, MapSound
<1>5. /\ DOMAIN m = DOMAIN devices \cup {n}
      /\ m[n] = e
      /\ \A x \in DOMAIN devices \ {n} : m[x] = devices[x]
  BY DEF UpdateDevice, Put
<1> HIDE DEF m
<1>6. AgreesBut(HostTable(devices), m, n)
  BY <1>5 DEF AgreesBut, Right, HostTable
<1>7. ASSUME e.sns = RawEntry(devices, n).sns
      PROVE  HostTable(m) = HostTable(devices)
  <2>1. n \notin DOMAIN devices => m[n].sns = {}
    BY <1>1, <1>5, <1>7, EntryTyped
  <2>2. n \in DOMAIN devices => m[n].sns = devices[n].sns
    BY <1>1, <1>5, <1>7, EntryTyped
  <2>3. \A x \in DOMAIN devices : m[x].sns = devices[x].sns
    BY <1>5, <2>2
  <2>4. {x \in DOMAIN m : m[x].sns # {}} = {x \in DOMAIN devices : devices[x].sns # {}}
    BY <1>5, <2>1, <2>3
  <2> QED
    BY <2>3, <2>4 DEF HostTable
<1>8. devices' = m
  BY DEF m
<1>9. MapInv'
  BY <1>2, <1>4, <1>6, <1>7, <1>8, Written
<1>10. Loses(p)
  BY <1>3, <1>8 DEF Loses
<1> QED
  BY <1>9, <1>10

\* The write of `add`: what it enrols are hosts of its chassis, or it is
\* blind, having lost what it read.
LEMMA AddWrites ==
  ASSUME MapInv, NEW p \in Procs, AddWrite(p)
  PROVE  MapInv' /\ Loses(p)
<1> DEFINE r == call[p]
           old == RawEntry(devices, r.name)
           e == [old EXCEPT !.sns = r.sns, !.sid = r.chassis, !.mgmt0 = r.addr]
           next == IF r.nick = None THEN Reloading ELSE ReloadThen([r EXCEPT !.at = "nick"])
<1>1. IsMap(devices) /\ r \in Calls /\ memo \in [Procs -> SUBSET Names] /\ writers \subseteq Procs
  BY DEF MapInv, Typed
<1>2. r.op = "add" /\ r.at = "write" /\ r \in AddCalls
  BY <1>1, CallKinds DEF AddWrite
<1>3. /\ r.name \in Names /\ r.sns \subseteq Hosts /\ r.chassis \in Chassis /\ r.addr \in Addrs
      /\ r.nick # None => [r EXCEPT !.at = "nick"] \in NickCalls
  BY <1>2 DEF AddCalls, NickCalls
<1>4. old \in Entries
  BY <1>1, <1>3, EntryTyped
<1>5. e \in Entries /\ e.aliases = old.aliases /\ e.sns = r.sns /\ e.sid = r.chassis
  BY <1>3, <1>4 DEF Entries
<1>6. next \in Calls /\ next.op = "reload" /\ next.at = "reload"
  BY <1>3, Afterwards
<1>7. /\ devices' = UpdateDevice(devices, r.name, e) /\ Become(p, next)
      /\ blind' = (blind \/ r.unchecked \/ Basis(devices, r.name) # r.was \/ IsNickname(devices, r.name))
      /\ writers' = IF devices' = devices THEN writers ELSE writers \cup {p}
      /\ UNCHANGED <<setting, hosts, address, memo, edits, moves>>
  BY DEF AddWrite, Write
<1> HIDE DEF e, next
<1>8. blind' \in BOOLEAN
  BY <1>7
<1>9. ASSUME ~blind'
      PROVE  /\ ~blind /\ ~IsNickname(devices, r.name)
             /\ \E c \in Chassis : e.sns \subseteq HostsOf[c] /\ e.sid \in {None, c}
             /\ e.sns = {} => e.sid = None
  <2>1. ~blind /\ ~r.unchecked /\ ~IsNickname(devices, r.name)
    BY <1>7, <1>9
  <2>2. r.sns # {} /\ r.sns \subseteq HostsOf[r.chassis]
    BY <1>2, <2>1 DEF MapInv, Checked, Enrols
  <2> QED
    BY <1>3, <1>5, <2>1, <2>2
<1> QED
  BY <1>1, <1>2, <1>3, <1>5, <1>6, <1>7, <1>8, <1>9, UpdateWritten

\* The write of a foreign host.
LEMMA ForeignWrites ==
  ASSUME MapInv, NEW p \in Procs, ForeignWrite(p)
  PROVE  MapInv' /\ Loses(p)
<1> DEFINE r == call[p]
           old == RawEntry(devices, r.name)
           e == [old EXCEPT !.sns = r.sns]
<1>1. IsMap(devices) /\ r \in Calls /\ memo \in [Procs -> SUBSET Names] /\ writers \subseteq Procs
  BY DEF MapInv, Typed
<1>2. r.op = "foreign" /\ r.at = "write" /\ r \in ForeignCalls
  BY <1>1, CallKinds DEF ForeignWrite
<1>3. r.name \in Names /\ r.sns \subseteq Hosts
  BY <1>2 DEF ForeignCalls
<1>4. old \in Entries
  BY <1>1, <1>3, EntryTyped
<1>5. e \in Entries /\ e.aliases = old.aliases /\ e.sns = r.sns /\ e.sid = old.sid
  BY <1>3, <1>4 DEF Entries
<1>6. /\ devices' = UpdateDevice(devices, r.name, e) /\ Become(p, Reloading)
      /\ blind' = (blind \/ r.unchecked \/ Basis(devices, r.name) # r.was \/ IsNickname(devices, r.name))
      /\ writers' = IF devices' = devices THEN writers ELSE writers \cup {p}
      /\ UNCHANGED <<setting, hosts, address, memo, edits, moves>>
  BY DEF ForeignWrite, Write
<1> HIDE DEF e
<1>7. blind' \in BOOLEAN
  BY <1>6
<1>8. ASSUME ~blind'
      PROVE  /\ ~blind /\ ~IsNickname(devices, r.name)
             /\ \E c \in Chassis : e.sns \subseteq HostsOf[c] /\ e.sid \in {None, c}
             /\ e.sns = {} => e.sid = None
  <2>1. ~blind /\ ~r.unchecked /\ Basis(devices, r.name) = r.was /\ ~IsNickname(devices, r.name)
    BY <1>6, <1>8
  <2>2. PICK h \in Hosts : r.sns = {h}
    BY <1>2, <2>1 DEF MapInv, Checked
  <2>3. r.was # <<>> => r.was[1] = {}
    BY <1>2, <2>1 DEF MapInv, Checked
  <2>4. old.sid = None
    <3>1. CASE r.was = <<>>
      <4>1. r.name \notin DOMAIN devices
        BY <1>1, <1>3, <2>1, <3>1, BasisStill
      <4> QED
        BY <1>1, <1>3, <4>1, EntryTyped
    <3>2. CASE r.was # <<>>
      <4>1. r.name \in DOMAIN devices /\ devices[r.name].sns = {}
        BY <1>1, <1>3, <2>1, <2>3, <3>2, BasisStill
      <4>2. devices[r.name].sid = None
        BY <2>1, <4>1, OfOneChassis DEF MapInv, MapSound
      <4> QED
        BY <1>1, <1>3, <4>1, <4>2, EntryTyped
    <3> QED
      BY <3>1, <3>2
  <2> QED
    BY <1>5, <2>1, <2>2, <2>4, Boxes
<1> QED
  BY <1>1, <1>2, <1>3, <1>5, <1>6, <1>7, <1>8, Afterwards, UpdateWritten

\* The write of a refresh: the host it used ties the entry to the chassis.
LEMMA RefreshWrites ==
  ASSUME MapInv, NEW p \in Procs, RefreshWrite(p)
  PROVE  MapInv' /\ Loses(p)
<1> DEFINE r == call[p]
           old == RawEntry(devices, r.name)
           e == [old EXCEPT !.sid = r.chassis, !.mgmt0 = r.addr]
<1>1. IsMap(devices) /\ r \in Calls /\ memo \in [Procs -> SUBSET Names] /\ writers \subseteq Procs
  BY DEF MapInv, Typed
<1>2. r.op = "refresh" /\ r.at = "write" /\ r \in RefreshCalls
  BY <1>1, CallKinds DEF RefreshWrite
<1>3. r.name \in Names /\ r.chassis \in Chassis /\ r.addr \in Addrs
  BY <1>2 DEF RefreshCalls
<1>4. old \in Entries
  BY <1>1, <1>3, EntryTyped
<1>5. e \in Entries /\ e.aliases = old.aliases /\ e.sns = old.sns /\ e.sid = r.chassis
  BY <1>3, <1>4 DEF Entries
<1>6. /\ devices' = UpdateDevice(devices, r.name, e) /\ Become(p, Reloading)
      /\ blind' = (blind \/ Basis(devices, r.name) # r.was)
      /\ writers' = IF devices' = devices THEN writers ELSE writers \cup {p}
      /\ UNCHANGED <<setting, hosts, address, memo, edits, moves>>
  BY DEF RefreshWrite, Write
<1> HIDE DEF e
<1>7. blind' \in BOOLEAN
  BY <1>6
<1>8. ASSUME ~blind'
      PROVE  /\ ~blind /\ ~IsNickname(devices, r.name)
             /\ \E c \in Chassis : e.sns \subseteq HostsOf[c] /\ e.sid \in {None, c}
             /\ e.sns = {} => e.sid = None
  <2>1. ~blind /\ Basis(devices, r.name) = r.was
    BY <1>6, <1>8
  <2>2. r.was # <<>> /\ \E h \in HostsOf[r.chassis] : h \in r.was[1]
    BY <1>2 DEF MapInv, Checked
  <2>3. /\ r.name \in DOMAIN devices /\ ~IsNickname(devices, r.name)
        /\ devices[r.name].sns = r.was[1]
    BY <1>1, <1>3, <2>1, <2>2, BasisStill
  <2>4. old = devices[r.name]
    BY <1>1, <1>3, <2>3, EntryTyped
  <2>5. PICK d \in Chassis : devices[r.name].sns \subseteq HostsOf[d]
    BY <2>1, <2>3, OfOneChassis DEF MapInv, MapSound
  <2>6. d = r.chassis
    BY <1>3, <2>2, <2>3, <2>5, Boxes
  <2> QED
    BY <1>3, <1>5, <2>1, <2>2, <2>3, <2>4, <2>5, <2>6
<1> QED
  BY <1>1, <1>2, <1>3, <1>5, <1>6, <1>7, <1>8, Afterwards, UpdateWritten

\* The write of a connect replaces the hosts by those of the chassis.
LEMMA ConnectWrites ==
  ASSUME MapInv, NEW p \in Procs, ConnectWrite(p)
  PROVE  MapInv' /\ Loses(p)
<1> DEFINE r == call[p]
           old == RawEntry(devices, r.name)
           e == [old EXCEPT !.sns = HostsOf[r.chassis]]
<1>1. IsMap(devices) /\ r \in Calls /\ memo \in [Procs -> SUBSET Names] /\ writers \subseteq Procs
  BY DEF MapInv, Typed
<1>2. r.op = "connect" /\ r.at = "write" /\ r \in ConnectCalls
  BY <1>1, CallKinds DEF ConnectWrite
<1>3. /\ r.name \in Names /\ r.chassis \in Chassis
      /\ HostsOf[r.chassis] \subseteq Hosts /\ HostsOf[r.chassis] # {}
  BY <1>2, Boxes DEF ConnectCalls
<1>4. old \in Entries
  BY <1>1, <1>3, EntryTyped
<1>5. e \in Entries /\ e.aliases = old.aliases /\ e.sns = HostsOf[r.chassis] /\ e.sid = old.sid
  BY <1>3, <1>4 DEF Entries
<1>6. /\ devices' = UpdateDevice(devices, r.name, e) /\ Become(p, NoCall)
      /\ blind' = (blind \/ r.unchecked \/ Basis(devices, r.name) # r.was)
      /\ writers' = IF devices' = devices THEN writers ELSE writers \cup {p}
      /\ UNCHANGED <<setting, hosts, address, memo, edits, moves>>
  BY DEF ConnectWrite, Write
<1> HIDE DEF e
<1>7. blind' \in BOOLEAN
  BY <1>6
<1>8. ASSUME ~blind'
      PROVE  /\ ~blind /\ ~IsNickname(devices, r.name)
             /\ \E c \in Chassis : e.sns \subseteq HostsOf[c] /\ e.sid \in {None, c}
             /\ e.sns = {} => e.sid = None
  <2>1. ~blind /\ ~r.unchecked /\ Basis(devices, r.name) = r.was
    BY <1>6, <1>8
  <2>2. r.was # <<>> /\ r.was[2] \in {None, r.chassis}
    BY <1>2, <2>1 DEF MapInv, Checked
  <2>3. /\ r.name \in DOMAIN devices /\ ~IsNickname(devices, r.name)
        /\ devices[r.name].sid = r.was[2]
    BY <1>1, <1>3, <2>1, <2>2, BasisStill
  <2>4. old = devices[r.name]
    BY <1>1, <1>3, <2>3, EntryTyped
  <2> QED
    BY <1>3, <1>5, <2>1, <2>2, <2>3, <2>4
<1>9. "connect" \in setting.ops
  BY <1>2 DEF MapInv
<1> QED
  BY <1>1, <1>2, <1>3, <1>5, <1>6, <1>7, <1>8, <1>9, Afterwards, UpdateWritten

\* The address of an entry changes nothing that the invariant is about, if
\* the entry is the one that was looked up.
LEMMA VerifyWrites ==
  ASSUME MapInv, NEW p \in Procs, VerifyWrite(p)
  PROVE  MapInv' /\ Loses(p)
<1> DEFINE r == call[p]
           old == RawEntry(devices, r.name)
           e == [old EXCEPT !.mgmt0 = r.addr]
<1>1. IsMap(devices) /\ r \in Calls /\ memo \in [Procs -> SUBSET Names] /\ writers \subseteq Procs
  BY DEF MapInv, Typed
<1>2. r.op = "verify" /\ r.at = "write" /\ r \in VerifyCalls
  BY <1>1, CallKinds DEF VerifyWrite
<1>3. r.name \in Names /\ r.addr \in Addrs
  BY <1>2 DEF VerifyCalls
<1>4. old \in Entries
  BY <1>1, <1>3, EntryTyped
<1>5. e \in Entries /\ e.aliases = old.aliases /\ e.sns = old.sns /\ e.sid = old.sid
  BY <1>3, <1>4 DEF Entries
<1>6. /\ devices' = UpdateDevice(devices, r.name, e) /\ Become(p, Reloading)
      /\ blind' = (blind \/ Basis(devices, r.name) # r.was)
      /\ writers' = writers \cup {p} /\ memo' = [memo EXCEPT ![p] = @ \cup {r.name}]
      /\ UNCHANGED <<setting, hosts, address, edits, moves>>
  BY DEF VerifyWrite
<1> HIDE DEF e
<1>7. blind' \in BOOLEAN /\ memo' \in [Procs -> SUBSET Names]
  BY <1>1, <1>3, <1>6
<1>8. ASSUME ~blind'
      PROVE  /\ ~blind /\ ~IsNickname(devices, r.name)
             /\ \E c \in Chassis : e.sns \subseteq HostsOf[c] /\ e.sid \in {None, c}
             /\ e.sns = {} => e.sid = None
  <2>1. ~blind /\ Basis(devices, r.name) = r.was
    BY <1>6, <1>8
  <2>2. r.was # <<>>
    BY <1>2 DEF MapInv, Checked
  <2>3. r.name \in DOMAIN devices /\ ~IsNickname(devices, r.name)
    BY <1>1, <1>3, <2>1, <2>2, BasisStill
  <2>4. old = devices[r.name]
    BY <1>1, <1>3, <2>3, EntryTyped
  <2> QED
    BY <1>5, <2>1, <2>3, <2>4, OfOneChassis DEF MapInv, MapSound
<1> QED
  BY <1>1, <1>2, <1>3, <1>5, <1>6, <1>7, <1>8, Afterwards, UpdateWritten

\* The name check records the system name, and may make an entry.
LEMMA MetaWrites ==
  ASSUME MapInv, NEW p \in Procs, CheckMeta(p)
  PROVE  MapInv' /\ Loses(p)
<1> DEFINE r == call[p]
           e == RawEntry(devices, r.name)
<1>1. IsMap(devices) /\ r \in Calls /\ memo \in [Procs -> SUBSET Names] /\ writers \subseteq Procs
  BY DEF MapInv, Typed
<1>2. r.op = "check" /\ r.at = "meta" /\ r \in CheckCalls
  BY <1>1, CallKinds DEF CheckMeta
<1>3. r.name \in Names
  BY <1>2 DEF CheckCalls
<1>4. e \in Entries
  BY <1>1, <1>3, EntryTyped
<1>5. /\ devices' = UpdateDevice(devices, r.name, e) /\ Become(p, NoCall)
      /\ blind' = (blind \/ r.name \notin DOMAIN devices)
      /\ writers' = IF devices' = devices THEN writers ELSE writers \cup {p}
      /\ UNCHANGED <<setting, hosts, address, memo, edits, moves>>
  BY DEF CheckMeta, Write
<1>6. blind' \in BOOLEAN
  BY <1>5
<1>7. ASSUME ~blind'
      PROVE  /\ ~blind /\ ~IsNickname(devices, r.name)
             /\ \E c \in Chassis : e.sns \subseteq HostsOf[c] /\ e.sid \in {None, c}
             /\ e.sns = {} => e.sid = None
  <2>1. ~blind /\ r.name \in DOMAIN devices
    BY <1>5, <1>7
  <2>2. e = devices[r.name] /\ ~IsNickname(devices, r.name)
    BY <1>1, <1>3, <2>1, EntryTyped DEF IsNickname
  <2> QED
    BY <2>1, <2>2, OfOneChassis DEF MapInv, MapSound
<1> QED
  BY <1>1, <1>2, <1>3, <1>4, <1>5, <1>6, <1>7, Afterwards, UpdateWritten

\* A write of aliases or of a whole device, after which the table is read
\* again, or its row.
LEMMA MapWritten ==
  ASSUME MapInv, NEW p \in Procs, NEW m, IsMap(m), NEW record \in Calls, Write(p, m, FALSE, record),
         call[p].at \notin {"reload", "row"}, record.op \in {"none", "reload", "row"},
         record.at = "reload",
         OneDevicePerName(devices) => OneDevicePerName(m),
         OneChassisPerDevice(devices) => OneChassisPerDevice(m)
  PROVE  MapInv'
<1>1. memo \in [Procs -> SUBSET Names] /\ writers \subseteq Procs /\ blind \in BOOLEAN
  BY DEF MapInv, Typed
<1>2. /\ devices' = m /\ Become(p, record) /\ blind' = blind
      /\ writers' = IF m = devices THEN writers ELSE writers \cup {p}
      /\ UNCHANGED <<setting, hosts, address, memo, edits, moves>>
  BY <1>1 DEF Write
<1>3. ~blind' => ~blind /\ OneDevicePerName(m) /\ OneChassisPerDevice(m)
  BY <1>2 DEF MapInv, MapSound
<1> QED
  BY <1>1, <1>2, <1>3, Written

\* A call returns without a write.
LEMMA Returns ==
  ASSUME MapInv, NEW p \in Procs, Return(p), call[p].at \notin {"reload", "row"}
  PROVE  MapInv' /\ Loses(p)
<1>1. /\ Become(p, NoCall) /\ devices' = devices
      /\ UNCHANGED <<setting, devices, hosts, address, memo, edits, moves, blind, writers>>
  BY DEF Return
<1>2. edits' \in 0..setting.edits /\ memo' \in [Procs -> SUBSET Names]
  BY <1>1 DEF MapInv, Typed
<1>3. /\ NoCall \in Calls /\ NoCall.at \notin {"reload", "row"} /\ NoCall.op # "connect"
      /\ Checked(NoCall) /\ Enrols(NoCall)
  BY Afterwards, NothingToCheck
<1>4. MapInv'
  BY <1>1, <1>2, <1>3, Noted
<1> QED
  BY <1>1, <1>4 DEF Loses

\* `add` attaches its nickname, or returns without.
LEMMA NickWrites ==
  ASSUME MapInv, NEW p \in Procs, AddNick(p)
  PROVE  MapInv' /\ Loses(p)
<1> DEFINE r == call[p]
           m == AddAlias(devices, r.nick, r.name)
<1>1. IsMap(devices) /\ r \in Calls
  BY DEF MapInv, Typed
<1>2. r.op = "add" /\ r.at = "nick" /\ r \in NickCalls
  BY <1>1, CallKinds DEF AddNick
<1>3. r.name \in Names /\ r.nick \in Names
  BY <1>2 DEF NickCalls
<1>4. CASE r.nick # r.name /\ AliasAllowed(devices, r.nick, r.name)
  <2>1. Write(p, m, FALSE, Reloading)
    BY <1>4 DEF AddNick
  <2>2. /\ IsMap(m)
        /\ \A b \in Names : Known(devices, b) => Known(m, b)
        /\ OneDevicePerName(devices) => OneDevicePerName(m)
        /\ OneChassisPerDevice(devices) => OneChassisPerDevice(m)
    BY <1>1, <1>3, <1>4, AddAliasKeeps
  <2>3. devices' = m
    BY <2>1 DEF Write
  <2>4. Loses(p)
    BY <2>2, <2>3 DEF Loses
  <2>5. MapInv'
    BY <1>2, <2>1, <2>2, Afterwards, MapWritten
  <2> QED
    BY <2>4, <2>5
<1>5. CASE ~(r.nick # r.name /\ AliasAllowed(devices, r.nick, r.name))
  BY <1>2, <1>5, Returns DEF AddNick
<1> QED
  BY <1>4, <1>5

\* A nickname is attached where it is free, or refused.
LEMMA AliasWrites ==
  ASSUME MapInv, NEW p \in Procs, AliasWrite(p)
  PROVE  MapInv' /\ Loses(p)
<1> DEFINE r == call[p]
           m == AddAlias(devices, r.nick, r.name)
<1>1. IsMap(devices) /\ r \in Calls
  BY DEF MapInv, Typed
<1>2. r.op = "alias" /\ r.at = "write" /\ r \in AliasCalls
  BY <1>1, CallKinds DEF AliasWrite
<1>3. r.name \in Names /\ r.nick \in Names
  BY <1>2 DEF AliasCalls
<1>4. CASE AliasAllowed(devices, r.nick, r.name)
  <2>1. Write(p, m, FALSE, Reloading)
    BY <1>4 DEF AliasWrite
  <2>2. /\ IsMap(m)
        /\ \A b \in Names : Known(devices, b) => Known(m, b)
        /\ OneDevicePerName(devices) => OneDevicePerName(m)
        /\ OneChassisPerDevice(devices) => OneChassisPerDevice(m)
    BY <1>1, <1>3, <1>4, AddAliasKeeps
  <2>3. devices' = m
    BY <2>1 DEF Write
  <2>4. Loses(p)
    BY <2>2, <2>3 DEF Loses
  <2>5. MapInv'
    BY <1>2, <2>1, <2>2, Afterwards, MapWritten
  <2> QED
    BY <2>4, <2>5
<1>5. CASE ~AliasAllowed(devices, r.nick, r.name)
  BY <1>2, <1>5, Returns DEF AliasWrite
<1> QED
  BY <1>4, <1>5

\* A nickname is detached from whichever device has it.
LEMMA UnaliasWrites ==
  ASSUME MapInv, NEW p \in Procs, UnaliasWrite(p)
  PROVE  MapInv' /\ Loses(p)
<1> DEFINE r == call[p]
           m == RemoveAlias(devices, r.nick)
<1>1. IsMap(devices) /\ r \in Calls /\ call \in [Procs -> Calls]
  BY DEF MapInv, Typed
<1>2. r.op = "unalias" /\ r.at = "write" /\ r \in UnaliasCalls
  BY <1>1, CallKinds DEF UnaliasWrite
<1>3. r.nick \in Names
  BY <1>2 DEF UnaliasCalls
<1>4. CASE Owners(devices, r.nick) # {}
  <2>1. Write(p, m, FALSE, Reloading)
    BY <1>4 DEF UnaliasWrite
  <2>2. /\ IsMap(m)
        /\ \A b \in Names : b # r.nick /\ Known(devices, b) => Known(m, b)
        /\ OneDevicePerName(devices) => OneDevicePerName(m)
        /\ OneChassisPerDevice(devices) => OneChassisPerDevice(m)
    BY <1>1, <1>3, <1>4, RemoveAliasKeeps
  <2>3. devices' = m /\ call'[p] = Reloading
    BY <1>1, <2>1 DEF Write, Become
  <2>4. \A b \in Names : Known(devices, b) /\ ~Known(devices', b) => Drops(p, b)
    BY <1>2, <2>2, <2>3 DEF Drops
  <2>5. Loses(p)
    BY <1>2, <2>3, <2>4, Afterwards DEF Loses
  <2>6. MapInv'
    BY <1>2, <2>1, <2>2, Afterwards, MapWritten
  <2> QED
    BY <2>5, <2>6
<1>5. CASE Owners(devices, r.nick) = {}
  <2>1. Write(p, devices, FALSE, Reloading)
    BY <1>5 DEF UnaliasWrite
  <2>2. Loses(p)
    BY <2>1 DEF Loses, Write
  <2>3. MapInv'
    BY <1>1, <1>2, <2>1, Afterwards, MapWritten
  <2> QED
    BY <2>2, <2>3
<1> QED
  BY <1>4, <1>5

\* Rename and name-check give a device another name.
LEMMA NameWrites ==
  ASSUME MapInv, NEW p \in Procs, NEW r, r = call[p], NEW record \in Calls,
         r.op \in {"rename", "check"}, r.at \in {"write", "rename"},
         r.name \in Names, r.new \in Names, r.keep \in BOOLEAN,
         record.op = "reload", record.at = "reload",
         RenameAllowed(devices, r.name, r.new),
         Write(p, RenameDevice(devices, r.name, r.new, r.keep), FALSE, record)
  PROVE  MapInv' /\ Loses(p)
<1> DEFINE m == RenameDevice(devices, r.name, r.new, r.keep)
<1>1. IsMap(devices) /\ call \in [Procs -> Calls]
  BY DEF MapInv, Typed
<1>2. /\ IsMap(m)
      /\ \A b \in Names : Known(devices, b) /\ ~(b = r.name /\ ~r.keep) => Known(m, b)
      /\ OneDevicePerName(devices) => OneDevicePerName(m)
      /\ OneChassisPerDevice(devices) => OneChassisPerDevice(m)
  BY <1>1, RenameKeeps
<1>3. devices' = m /\ call'[p] = record
  BY <1>1 DEF Write, Become
<1>4. \A b \in Names : Known(devices, b) /\ ~Known(devices', b) => Drops(p, b)
  BY <1>2, <1>3 DEF Drops
<1>5. Loses(p)
  BY <1>3, <1>4 DEF Loses
<1>6. MapInv'
  BY <1>2, MapWritten
<1> QED
  BY <1>5, <1>6

\* A rename moves the entry where the new name is free, or is refused.
LEMMA RenameWrites ==
  ASSUME MapInv, NEW p \in Procs, RenameWrite(p)
  PROVE  MapInv' /\ Loses(p)
<1> DEFINE r == call[p]
<1>1. r \in Calls
  BY DEF MapInv, Typed
<1>2. r.op = "rename" /\ r.at = "write" /\ r \in RenameCalls
  BY <1>1, CallKinds DEF RenameWrite
<1>3. r.name \in Names /\ r.new \in Names /\ r.keep \in BOOLEAN
  BY <1>2 DEF RenameCalls
<1>4. CASE RenameAllowed(devices, r.name, r.new)
  <2>1. Write(p, RenameDevice(devices, r.name, r.new, r.keep), FALSE, Reloading)
    BY <1>4 DEF RenameWrite
  <2> QED
    BY <1>2, <1>3, <1>4, <2>1, Afterwards, NameWrites
<1>5. CASE ~RenameAllowed(devices, r.name, r.new)
  BY <1>2, <1>5, Returns DEF RenameWrite
<1> QED
  BY <1>4, <1>5

\* The name check renames, and goes on to record under the new key.
LEMMA CheckRenames ==
  ASSUME MapInv, NEW p \in Procs, CheckRename(p)
  PROVE  MapInv' /\ Loses(p)
<1> DEFINE r == call[p]
           next == [r EXCEPT !.at = "meta", !.name = r.new]
<1>1. r \in Calls
  BY DEF MapInv, Typed
<1>2. r.op = "check" /\ r.at = "rename" /\ r \in CheckCalls
  BY <1>1, CallKinds DEF CheckRename
<1>3. /\ r.name \in Names /\ r.new \in Names /\ r.keep \in BOOLEAN
      /\ next \in CheckCalls
  BY <1>2 DEF CheckCalls
<1>4. CASE RenameAllowed(devices, r.name, r.new)
  <2>1. Write(p, RenameDevice(devices, r.name, r.new, r.keep), FALSE, ReloadThen(next))
    BY <1>4 DEF CheckRename
  <2> HIDE DEF next
  <2>2. ReloadThen(next) \in Calls /\ ReloadThen(next).op = "reload" /\ ReloadThen(next).at = "reload"
    BY <1>3, Afterwards
  <2> QED
    BY <1>2, <1>3, <1>4, <2>1, <2>2, NameWrites
<1>5. CASE ~RenameAllowed(devices, r.name, r.new)
  BY <1>2, <1>5, Returns DEF CheckRename
<1> QED
  BY <1>4, <1>5

\* A removal drops the entry, or writes the hosts that were left.
LEMMA RemoveWrites ==
  ASSUME MapInv, NEW p \in Procs, RemoveWrite(p)
  PROVE  MapInv' /\ Loses(p)
<1> DEFINE r == call[p]
           old == RawEntry(devices, r.name)
           e == [old EXCEPT !.sns = r.sns]
           row == [op |-> "row", at |-> "row", name |-> r.name]
<1>1. /\ IsMap(devices) /\ r \in Calls /\ call \in [Procs -> Calls] /\ blind \in BOOLEAN
      /\ memo \in [Procs -> SUBSET Names] /\ writers \subseteq Procs
  BY DEF MapInv, Typed
<1>2. r.op = "remove" /\ r.at = "write" /\ r \in RemoveCalls
  BY <1>1, CallKinds DEF RemoveWrite
<1>3. r.name \in Names /\ r.sns \subseteq Hosts
  BY <1>2 DEF RemoveCalls
<1>4. row \in Calls /\ row.op = "row" /\ row.at = "row" /\ row.name = r.name
  BY <1>3, Afterwards
<1>5. CASE r.sns = {}
  <2> DEFINE m == RemoveDevice(devices, r.name)
  <2>1. Write(p, m, r.sns # {} /\ Basis(devices, r.name) # r.was, row)
    BY <1>5 DEF RemoveWrite
  <2>2. /\ devices' = m /\ Become(p, row) /\ blind' = blind
        /\ writers' = IF m = devices THEN writers ELSE writers \cup {p}
        /\ UNCHANGED <<setting, hosts, address, memo, edits, moves>>
    BY <1>1, <1>5, <2>1 DEF Write
  <2>3. /\ IsMap(m)
        /\ \A b \in Names : Known(devices, b) /\ Canonical(devices, b) # r.name => Known(m, b)
        /\ OneDevicePerName(devices) => OneDevicePerName(m)
        /\ OneChassisPerDevice(devices) => OneChassisPerDevice(m)
    BY <1>1, <1>3, RemoveDeviceKeeps
  <2>4. ~blind' => ~blind /\ OneDevicePerName(m) /\ OneChassisPerDevice(m)
    BY <2>2, <2>3 DEF MapInv, MapSound
  <2>5. AgreesBut(HostTable(devices), m, r.name)
    <3>1. /\ DOMAIN m = DOMAIN devices \ {r.name}
          /\ \A x \in DOMAIN devices \ {r.name} : m[x] = devices[x]
      BY DEF RemoveDevice, Without, Restrict
    <3> QED
      BY <3>1 DEF AgreesBut, Right, HostTable
  <2>6. call'[p] # call[p]
    BY <1>1, <1>2, <1>4, <2>2 DEF Become
  <2>7. \A b \in Names : Known(devices, b) /\ ~Known(devices', b) => Drops(p, b)
    BY <1>2, <2>2, <2>3 DEF Drops
  <2>8. Loses(p)
    BY <2>6, <2>7 DEF Loses
  <2> HIDE DEF m, row
  <2>9. MapInv'
    BY <1>1, <1>2, <1>4, <2>2, <2>3, <2>4, <2>5, Written
  <2> QED
    BY <2>8, <2>9
<1>6. CASE r.sns # {}
  <2>1. old \in Entries
    BY <1>1, <1>3, EntryTyped
  <2>2. e \in Entries /\ e.aliases = old.aliases /\ e.sns = r.sns /\ e.sid = old.sid
    BY <1>3, <2>1 DEF Entries
  <2>3. Write(p, UpdateDevice(devices, r.name, e), r.sns # {} /\ Basis(devices, r.name) # r.was, row)
    BY <1>6 DEF RemoveWrite
  <2> HIDE DEF e, row
  <2>4. /\ devices' = UpdateDevice(devices, r.name, e) /\ Become(p, row)
        /\ blind' = (blind \/ Basis(devices, r.name) # r.was)
        /\ writers' = IF devices' = devices THEN writers ELSE writers \cup {p}
        /\ UNCHANGED <<setting, hosts, address, memo, edits, moves>>
    BY <1>1, <1>6, <2>3 DEF Write
  <2>5. blind' \in BOOLEAN
    BY <2>4
  <2>6. ASSUME ~blind'
        PROVE  /\ ~blind /\ ~IsNickname(devices, r.name)
               /\ \E c \in Chassis : e.sns \subseteq HostsOf[c] /\ e.sid \in {None, c}
               /\ e.sns = {} => e.sid = None
    <3>1. ~blind /\ Basis(devices, r.name) = r.was
      BY <2>4, <2>6
    <3>2. r.was # <<>> /\ r.sns \subseteq r.was[1]
      BY <1>2 DEF MapInv, Checked
    <3>3. /\ r.name \in DOMAIN devices /\ ~IsNickname(devices, r.name)
          /\ devices[r.name].sns = r.was[1]
      BY <1>1, <1>3, <3>1, <3>2, BasisStill
    <3>4. old = devices[r.name]
      BY <1>1, <1>3, <3>3, EntryTyped
    <3>5. PICK c \in Chassis : devices[r.name].sns \subseteq HostsOf[c]
                               /\ devices[r.name].sid \in {None, c}
      BY <3>1, <3>3, OfOneChassis DEF MapInv, MapSound
    <3>6. e.sns \subseteq HostsOf[c] /\ e.sid \in {None, c}
      BY <2>2, <3>2, <3>3, <3>4, <3>5
    <3> QED
      BY <1>6, <2>2, <3>1, <3>3, <3>6
  <2> QED
    BY <1>1, <1>2, <1>3, <1>4, <2>2, <2>4, <2>5, <2>6, UpdateWritten
<1> QED
  BY <1>5, <1>6

-----------------------------------------------------------------------------
(* The tables.                                                              *)

\* The rows of a table that is read from a map are hosts.
LEMMA TableTyped ==
  ASSUME NEW m, IsMap(m)
  PROVE  /\ DOMAIN HostTable(m) \subseteq Names
         /\ \A n \in DOMAIN HostTable(m) : HostTable(m)[n] \in (SUBSET Hosts) \ {{}}
<1>1. \A n \in DOMAIN m : n \in Names /\ m[n].sns \subseteq Hosts
  BY EntryFields DEF IsMap
<1> QED
  BY <1>1 DEF HostTable

\* What RefreshRow makes of a table.
LEMMA RowIs ==
  ASSUME NEW t, NEW m, IsMap(m), NEW n \in Names
  PROVE  LET c == Canonical(m, n)  new == RefreshRow(t, m, n) IN
         /\ c \in Names
         /\ c # n => n \notin DOMAIN m
         /\ c \in DOMAIN new <=> c \in DOMAIN HostTable(m)
         /\ c \in DOMAIN new => new[c] = HostTable(m)[c]
         /\ n # c => n \notin DOMAIN new
         /\ \A x : x \notin {c, n} =>
              /\ x \in DOMAIN new <=> x \in DOMAIN t
              /\ x \in DOMAIN new => new[x] = t[x]
         /\ new = [x \in DOMAIN new |-> new[x]]
<1> DEFINE c == Canonical(m, n)
           new == RefreshRow(t, m, n)
           sns == EntryOf(m, c).sns
           rest == Restrict(t, DOMAIN t \ {c, n})
<1>1. c \in Names /\ (c # n => n \notin DOMAIN m)
  BY CanonicalIs
<1>2. c \in DOMAIN m \/ (c = n /\ ~Known(m, n))
  BY CanonicalIs
<1>3. c \in DOMAIN HostTable(m) <=> sns # {}
  <2>1. CASE c \in DOMAIN m
    <3>1. EntryOf(m, c) = m[c]
      BY <1>1, <2>1, EntryOfIs
    <3> QED
      BY <2>1, <3>1 DEF HostTable
  <2>2. CASE c \notin DOMAIN m
    <3>1. sns = {}
      BY <1>2, <2>2 DEF EntryOf, EmptyEntry
    <3> QED
      BY <2>2, <3>1 DEF HostTable
  <2> QED
    BY <2>1, <2>2
<1>4. c \in DOMAIN HostTable(m) => HostTable(m)[c] = sns
  <2>1. c \in DOMAIN HostTable(m) => c \in DOMAIN m /\ HostTable(m)[c] = m[c].sns
    BY DEF HostTable
  <2> QED
    BY <1>1, <2>1, EntryOfIs
<1>5. new = IF sns = {} THEN rest ELSE Put(rest, c, sns)
  BY DEF RefreshRow
<1> HIDE DEF c, sns, new
<1>6. /\ DOMAIN rest = DOMAIN t \ {c, n}
      /\ \A x \in DOMAIN rest : rest[x] = t[x]
      /\ rest = [x \in DOMAIN rest |-> rest[x]]
  BY DEF Restrict
<1> HIDE DEF rest
<1>7. CASE sns = {}
  BY <1>1, <1>3, <1>5, <1>6, <1>7 DEF c, new
<1>8. CASE sns # {}
  <2>1. /\ DOMAIN new = DOMAIN rest \cup {c}
        /\ new[c] = sns
        /\ \A x \in DOMAIN rest : x # c => new[x] = rest[x]
        /\ new = [x \in DOMAIN new |-> new[x]]
    BY <1>5, <1>8 DEF Put
  <2>2. c \in DOMAIN new /\ c \in DOMAIN HostTable(m) /\ new[c] = HostTable(m)[c]
    BY <1>3, <1>4, <1>8, <2>1
  <2>3. n # c => n \notin DOMAIN new
    BY <1>6, <2>1
  <2>4. ASSUME NEW x, x \notin {c, n}
        PROVE  /\ x \in DOMAIN new <=> x \in DOMAIN t
               /\ x \in DOMAIN new => new[x] = t[x]
    BY <1>6, <2>1, <2>4
  <2> QED
    BY <1>1, <2>1, <2>2, <2>3, <2>4 DEF c, new
<1> QED
  BY <1>7, <1>8

\* It mends the row it is for, and breaks none.
LEMMA RowRight ==
  ASSUME NEW t, NEW m, IsMap(m), NEW n \in Names, NEW k \in Names,
         Right(t, m, k) \/ k = n
  PROVE  Right(RefreshRow(t, m, n), m, k)
<1> DEFINE c == Canonical(m, n)
           new == RefreshRow(t, m, n)
<1>1. /\ c # n => n \notin DOMAIN m
      /\ c \in DOMAIN new <=> c \in DOMAIN HostTable(m)
      /\ c \in DOMAIN new => new[c] = HostTable(m)[c]
      /\ n # c => n \notin DOMAIN new
      /\ \A x : x \notin {c, n} =>
           /\ x \in DOMAIN new <=> x \in DOMAIN t
           /\ x \in DOMAIN new => new[x] = t[x]
  BY RowIs
<1>2. n \notin DOMAIN m => n \notin DOMAIN HostTable(m)
  BY DEF HostTable
<1> HIDE DEF c, new
<1>3. Right(new, m, k)
  <2>1. CASE k = c
    BY <1>1, <2>1 DEF Right
  <2>2. CASE k = n /\ k # c
    BY <1>1, <1>2, <2>2 DEF Right
  <2>3. CASE k \notin {c, n}
    BY <1>1, <2>3 DEF Right
  <2> QED
    BY <2>1, <2>2, <2>3
<1> QED
  BY <1>3 DEF new

\* Two tables with the same rows are the same.
LEMMA AllRight ==
  ASSUME NEW t, NEW m, IsMap(m), DOMAIN t \subseteq Names, t = [x \in DOMAIN t |-> t[x]],
         \A k \in Names : Right(t, m, k)
  PROVE  t = HostTable(m)
<1>1. DOMAIN HostTable(m) \subseteq Names
  BY TableTyped
<1>2. HostTable(m) = [x \in DOMAIN HostTable(m) |-> HostTable(m)[x]]
  BY DEF HostTable
<1>3. DOMAIN t = DOMAIN HostTable(m)
  BY <1>1 DEF Right
<1>4. \A x \in DOMAIN t : t[x] = HostTable(m)[x]
  BY DEF Right
<1> QED
  BY <1>2, <1>3, <1>4

\* And its rows are hosts.
LEMMA RowTyped ==
  ASSUME NEW t, NEW m, IsMap(m), NEW n \in Names, DOMAIN t \subseteq Names,
         \A x \in DOMAIN t : t[x] \in (SUBSET Hosts) \ {{}}
  PROVE  LET new == RefreshRow(t, m, n) IN
         /\ DOMAIN new \subseteq Names
         /\ \A x \in DOMAIN new : new[x] \in (SUBSET Hosts) \ {{}}
<1> DEFINE c == Canonical(m, n)
           new == RefreshRow(t, m, n)
<1>1. /\ c \in Names
      /\ c \in DOMAIN new => c \in DOMAIN HostTable(m) /\ new[c] = HostTable(m)[c]
      /\ n # c => n \notin DOMAIN new
      /\ \A x : x \notin {c, n} =>
           /\ x \in DOMAIN new <=> x \in DOMAIN t
           /\ x \in DOMAIN new => new[x] = t[x]
  BY RowIs
<1>2. \A x \in DOMAIN HostTable(m) : HostTable(m)[x] \in (SUBSET Hosts) \ {{}}
  BY TableTyped
<1> HIDE DEF c, new
<1>3. /\ DOMAIN new \subseteq Names
      /\ \A x \in DOMAIN new : new[x] \in (SUBSET Hosts) \ {{}}
  BY <1>1, <1>2
<1> QED
  BY <1>3 DEF new

\* A process goes on with another table.
LEMMA TableChanges ==
  ASSUME MapInv, NEW w \in Procs \cup {Watcher}, NEW t, hosts' = [hosts EXCEPT ![w] = t],
         DOMAIN t \subseteq Names, \A n \in DOMAIN t : t[n] \in (SUBSET Hosts) \ {{}},
         call' \in [Procs -> Calls], \A q \in Procs \ {w} : call'[q] = call[q],
         \A q \in Procs : q = w => \/ call'[q] = call[q]
                                   \/ call'[q].op \in {"none", "check"}
                                   \/ call'[q].op = "add" /\ call'[q].at = "nick",
         \A q \in Procs : q = w /\ (writers \subseteq {q} /\ "connect" \notin setting.ops => Fresh(q))
                          => (writers \subseteq {q} /\ "connect" \notin setting.ops => Fresh(q)'),
         UNCHANGED <<setting, devices, address, memo, edits, moves, blind, writers>>
  PROVE  MapInv' /\ \A p \in Procs : Loses(p)
<1>1. /\ DOMAIN hosts' = Procs \cup {Watcher} /\ hosts'[w] = t
      /\ \A q \in Procs \cup {Watcher} : q # w => hosts'[q] = hosts[q]
  BY DEF MapInv, Typed
<1>2. Typed'
  BY <1>1 DEF MapInv, Typed
<1>3. MapSound'
  BY DEF MapInv, MapSound
<1>4. ASSUME NEW q \in Procs
      PROVE  /\ Checked(call'[q]) /\ (~blind' => Enrols(call'[q]))
             /\ call'[q].op = "connect" => "connect" \in setting'.ops
  <2>1. CASE call'[q] = call[q]
    BY <2>1 DEF MapInv
  <2>2. CASE call'[q].op \in {"none", "check"}
    BY <2>2, NothingToCheck
  <2>3. CASE call'[q].op = "add" /\ call'[q].at = "nick"
    BY <2>3 DEF Checked, Enrols
  <2> QED
    BY <2>1, <2>2, <2>3
<1>5. ASSUME NEW q \in Procs, writers' \subseteq {q}, "connect" \notin setting'.ops
      PROVE  Fresh(q)'
  <2>1. Fresh(q)
    BY <1>5 DEF MapInv
  <2>2. CASE q = w
    BY <1>5, <2>1, <2>2
  <2>3. CASE q # w
    BY <1>1, <2>1, <2>3 DEF Fresh
  <2> QED
    BY <2>2, <2>3
<1>6. MapInv'
  BY <1>2, <1>3, <1>4, <1>5 DEF MapInv
<1> QED
  BY <1>6 DEF Loses

\* A process reads the whole map again after its write, so its table is
\* the map's.
LEMMA Reloads ==
  ASSUME MapInv, NEW p \in Procs, Reload(p)
  PROVE  MapInv' /\ Loses(p)
<1> DEFINE r == call[p]
           t == HostTable(devices)
<1>1. IsMap(devices) /\ r \in Calls /\ call \in [Procs -> Calls] /\ DOMAIN hosts = Procs \cup {Watcher}
  BY DEF MapInv, Typed
<1>2. r.at = "reload" /\ r \in ReloadCalls
  BY <1>1, CallKinds DEF Reload
<1>3. r.next \in {NoCall} \cup NickCalls \cup CheckCalls
  BY <1>2 DEF ReloadCalls
<1>4. /\ r.next \in Calls
      /\ r.next.op \in {"none", "check"} \/ (r.next.op = "add" /\ r.next.at = "nick")
      /\ r.next.at \notin {"reload", "row"}
  <2>1. CASE r.next = NoCall
    BY <2>1, Afterwards
  <2>2. CASE r.next \in NickCalls
    BY <2>2 DEF Calls, NickCalls
  <2>3. CASE r.next \in CheckCalls
    BY <2>3 DEF Calls, CheckCalls
  <2> QED
    BY <1>3, <2>1, <2>2, <2>3
<1>5. /\ hosts' = [hosts EXCEPT ![p] = t] /\ Become(p, r.next)
      /\ UNCHANGED <<setting, devices, address, memo, edits, moves, blind, writers>>
  BY DEF Reload
<1>6. /\ call' \in [Procs -> Calls] /\ call'[p] = r.next
      /\ \A q \in Procs \ {p} : call'[q] = call[q]
  BY <1>1, <1>4, <1>5, OneBecomes
<1>7. /\ DOMAIN t \subseteq Names
      /\ \A n \in DOMAIN t : t[n] \in (SUBSET Hosts) \ {{}}
  BY <1>1, TableTyped
<1>8. Fresh(p)'
  BY <1>1, <1>4, <1>5, <1>6 DEF Fresh
<1> HIDE DEF t
<1>9. p \in Procs \cup {Watcher}
  OBVIOUS
<1>10. \A q \in Procs : q = p => \/ call'[q] = call[q]
                                 \/ call'[q].op \in {"none", "check"}
                                 \/ call'[q].op = "add" /\ call'[q].at = "nick"
  BY <1>4, <1>6
<1>11. \A q \in Procs : q = p /\ (writers \subseteq {q} /\ "connect" \notin setting.ops => Fresh(q))
                         => (writers \subseteq {q} /\ "connect" \notin setting.ops => Fresh(q)')
  BY <1>8
<1>12. MapInv' /\ \A q \in Procs : Loses(q)
  BY <1>5, <1>6, <1>7, <1>9, <1>10, <1>11, TableChanges
<1> QED
  BY <1>12

\* A process reads one row again after a removal, and the others were right.
LEMMA RowsRemoved ==
  ASSUME MapInv, NEW p \in Procs, RemoveRow(p)
  PROVE  MapInv' /\ Loses(p)
<1> DEFINE r == call[p]
           t == RefreshRow(hosts[p], devices, r.name)
<1>1. /\ IsMap(devices) /\ r \in Calls /\ call \in [Procs -> Calls]
      /\ DOMAIN hosts = Procs \cup {Watcher} /\ DOMAIN hosts[p] \subseteq Names
      /\ \A n \in DOMAIN hosts[p] : hosts[p][n] \in (SUBSET Hosts) \ {{}}
  BY DEF MapInv, Typed
<1>2. r.at = "row" /\ r \in RowCalls
  BY <1>1, CallKinds DEF RemoveRow
<1>3. r.name \in Names
  BY <1>2 DEF RowCalls
<1>4. NoCall \in Calls /\ NoCall.op = "none" /\ NoCall.at = "idle"
  BY Afterwards
<1>5. /\ hosts' = [hosts EXCEPT ![p] = t] /\ Become(p, NoCall)
      /\ UNCHANGED <<setting, devices, address, memo, edits, moves, blind, writers>>
  BY DEF RemoveRow
<1>6. /\ call' \in [Procs -> Calls] /\ call'[p] = NoCall
      /\ \A q \in Procs \ {p} : call'[q] = call[q]
  BY <1>1, <1>4, <1>5, OneBecomes
<1>7. /\ DOMAIN t \subseteq Names
      /\ \A n \in DOMAIN t : t[n] \in (SUBSET Hosts) \ {{}}
  BY <1>1, <1>3, RowTyped
<1>8. ASSUME Fresh(p)
      PROVE  Fresh(p)'
  <2>1. AgreesBut(hosts[p], devices, r.name)
    BY <1>2, <1>8 DEF Fresh
  <2>2. \A k \in Names : Right(t, devices, k)
    BY <1>1, <1>3, <2>1, RowRight DEF AgreesBut
  <2>3. t = [x \in DOMAIN t |-> t[x]]
    BY <1>1, <1>3, RowIs
  <2> HIDE DEF t
  <2>4. t = HostTable(devices)
    BY <1>1, <1>7, <2>2, <2>3, AllRight
  <2> QED
    BY <1>1, <1>4, <1>5, <1>6, <2>4 DEF Fresh
<1> HIDE DEF t
<1>9. p \in Procs \cup {Watcher}
  OBVIOUS
<1>10. \A q \in Procs : q = p => \/ call'[q] = call[q]
                                 \/ call'[q].op \in {"none", "check"}
                                 \/ call'[q].op = "add" /\ call'[q].at = "nick"
  BY <1>4, <1>6
<1>11. \A q \in Procs : q = p /\ (writers \subseteq {q} /\ "connect" \notin setting.ops => Fresh(q))
                         => (writers \subseteq {q} /\ "connect" \notin setting.ops => Fresh(q)')
  BY <1>8
<1>12. MapInv' /\ \A q \in Procs : Loses(q)
  BY <1>5, <1>6, <1>7, <1>9, <1>10, <1>11, TableChanges
<1> QED
  BY <1>12

\* The watcher may be one of the processes that edit.
LEMMA LooksUp ==
  ASSUME MapInv, NEW n \in Names, Lookup(n)
  PROVE  MapInv' /\ \A p \in Procs : Loses(p)
<1> DEFINE old == hosts[Watcher]
           t == Dial(n)
<1>1. /\ IsMap(devices) /\ call \in [Procs -> Calls]
      /\ DOMAIN hosts = Procs \cup {Watcher} /\ DOMAIN old \subseteq Names
      /\ \A x \in DOMAIN old : old[x] \in (SUBSET Hosts) \ {{}}
  BY DEF MapInv, Typed
<1>2. /\ hosts' = [hosts EXCEPT ![Watcher] = t]
      /\ UNCHANGED <<setting, devices, call, address, memo, edits, moves, blind, writers>>
  BY DEF Lookup
<1>3. t = old \/ t = RefreshRow(old, devices, n)
  BY DEF Dial
<1> HIDE DEF t
<1>4. /\ DOMAIN t \subseteq Names
      /\ \A x \in DOMAIN t : t[x] \in (SUBSET Hosts) \ {{}}
  BY <1>1, <1>3, RowTyped
<1>5. \A k \in Names : Right(old, devices, k) => Right(t, devices, k)
  BY <1>1, <1>3, RowRight
<1>6. old = HostTable(devices) => t = HostTable(devices)
  <2> SUFFICES ASSUME old = HostTable(devices)
               PROVE  t = HostTable(devices)
    OBVIOUS
  <2>1. CASE t = old
    BY <2>1
  <2>2. CASE t = RefreshRow(old, devices, n)
    <3>1. \A k \in Names : Right(t, devices, k)
      BY <1>5 DEF Right
    <3>2. t = [x \in DOMAIN t |-> t[x]]
      BY <1>1, <2>2, RowIs
    <3> QED
      BY <1>1, <1>4, <3>1, <3>2, AllRight
  <2> QED
    BY <1>3, <2>1, <2>2
<1>7. ASSUME NEW q \in Procs, q = Watcher, Fresh(q)
      PROVE  Fresh(q)'
  <2>1. hosts[q] = old /\ hosts'[q] = t /\ call'[q] = call[q] /\ devices' = devices
    BY <1>1, <1>2, <1>7
  <2>2. CASE call[q].at = "reload"
    BY <2>1, <2>2 DEF Fresh
  <2>3. CASE call[q].at = "row" /\ AgreesBut(old, devices, call[q].name)
    <3>1. AgreesBut(t, devices, call[q].name)
      BY <1>5, <2>3 DEF AgreesBut
    <3> QED
      BY <2>1, <2>3, <3>1 DEF Fresh
  <2>4. CASE call[q].at \notin {"reload", "row"} /\ old = HostTable(devices)
    BY <1>6, <2>1, <2>4 DEF Fresh
  <2> QED
    BY <1>7, <2>1, <2>2, <2>3, <2>4 DEF Fresh
<1> HIDE DEF old
<1>8. Watcher \in Procs \cup {Watcher}
  OBVIOUS
<1> QED
  BY <1>1, <1>2, <1>4, <1>7, <1>8, TableChanges

-----------------------------------------------------------------------------
(* The world.                                                               *)

\* Verification remembers a name in this process, and notes a changed address.
LEMMA Verifies ==
  ASSUME MapInv, NEW p \in Procs, NEW n \in Names, NEW h \in Hosts, Verify(p, n, h)
  PROVE  MapInv' /\ \A q \in Procs : Loses(q)
<1> DEFINE k == Canonical(devices, n)
           live == address[ChassisOf(h)]
           r == [op |-> "verify", at |-> "write", name |-> k, addr |-> live,
                 was |-> Basis(devices, k)]
<1>1. /\ IsMap(devices) /\ address \in [Chassis -> Addrs] /\ memo \in [Procs -> SUBSET Names]
      /\ call \in [Procs -> Calls] /\ edits \in 0..setting.edits
  BY DEF MapInv, Typed
<1>2. /\ call[p].at = "idle" /\ h \in EntryOf(devices, n).sns
      /\ UNCHANGED <<setting, devices, hosts, address, edits, moves, blind, writers>>
  BY DEF Verify
<1>3. k \in DOMAIN devices /\ k \in Names
  BY <1>1, <1>2, EntryOfIs, CanonicalIs
<1>4. Basis(devices, k) \in Bases /\ Basis(devices, k) # <<>>
  BY <1>1, <1>3, BasisIs
<1>5. live \in Addrs
  BY <1>1, Boxes
<1>6. \/ memo' = [memo EXCEPT ![p] = @ \cup {k}] /\ UNCHANGED call
      \/ Become(p, r) /\ UNCHANGED memo
  BY DEF Verify
<1>7. memo' \in [Procs -> SUBSET Names] /\ edits' \in 0..setting.edits
  BY <1>1, <1>2, <1>3, <1>6
<1> HIDE DEF k, live
<1>8. /\ r \in VerifyCalls /\ r.op = "verify" /\ r.at = "write" /\ r.was = Basis(devices, k)
  BY <1>3, <1>4, <1>5 DEF VerifyCalls
<1> HIDE DEF r
<1>9. r \in Calls /\ Checked(r) /\ Enrols(r)
  BY <1>4, <1>8 DEF Calls, Checked, Enrols
<1>10. \A q \in Procs : Loses(q)
  BY <1>2 DEF Loses
<1>11. CASE Become(p, r)
  BY <1>2, <1>7, <1>8, <1>9, <1>10, <1>11, Noted
<1>12. CASE UNCHANGED call
  <2>1. call[p] \in Calls /\ Checked(call[p]) /\ (~blind => Enrols(call[p]))
    BY <1>1 DEF MapInv
  <2>2. call[p].op = "connect" => "connect" \in setting.ops
    BY DEF MapInv
  <2>3. Become(p, call[p])
    BY <1>1, <1>12 DEF Become
  <2> QED
    BY <1>2, <1>7, <1>10, <2>1, <2>2, <2>3, Noted
<1> QED
  BY <1>6, <1>11, <1>12

\* What the invariant does not read may change.
LEMMA Elsewhere ==
  ASSUME MapInv, memo' \in [Procs -> SUBSET Names], address' \in [Chassis -> Addrs],
         moves' \in 0..setting.moves,
         UNCHANGED <<setting, devices, hosts, call, edits, blind, writers>>
  PROVE  MapInv' /\ \A q \in Procs : Loses(q)
<1>1. Typed'
  BY DEF MapInv, Typed
<1>2. MapSound'
  BY DEF MapInv, MapSound
<1>3. \A q \in Procs : Fresh(q) => Fresh(q)'
  BY DEF Fresh
<1>4. MapInv'
  BY <1>1, <1>2, <1>3 DEF MapInv
<1> QED
  BY <1>4 DEF Loses

\* A process forgets that it verified a name.
LEMMA Expires ==
  ASSUME MapInv, NEW p \in Procs, NEW n \in Names, Expire(p, n)
  PROVE  MapInv' /\ \A q \in Procs : Loses(q)
<1>1. /\ address \in [Chassis -> Addrs] /\ memo \in [Procs -> SUBSET Names]
      /\ moves \in 0..setting.moves
  BY DEF MapInv, Typed
<1> QED
  BY <1>1, Elsewhere DEF Expire

\* A chassis takes another address: no entry changes.
LEMMA AddressMoves ==
  ASSUME MapInv, NEW a \in [Chassis -> Addrs], MoveAddress(a)
  PROVE  MapInv' /\ \A q \in Procs : Loses(q)
<1>1. memo \in [Procs -> SUBSET Names] /\ moves \in 0..setting.moves /\ setting.moves \in Nat
  BY DeviceMapAssumption DEF MapInv, Typed, SettingsOK
<1>2. moves' \in 0..setting.moves
  BY <1>1 DEF MoveAddress
<1>3. /\ memo' \in [Procs -> SUBSET Names] /\ address' \in [Chassis -> Addrs]
      /\ UNCHANGED <<setting, devices, hosts, call, edits, blind, writers>>
  BY <1>1 DEF MoveAddress
<1> QED
  BY <1>2, <1>3, Elsewhere

\* So every step of a call under way is sound, and loses only what it drops.
LEMMA WriteStepKeeps ==
  ASSUME MapInv, NEW p \in Procs, WriteStep(p)
  PROVE  MapInv' /\ Loses(p)
  BY AddWrites, NickWrites, ForeignWrites, RefreshWrites, CheckRenames, MetaWrites, RenameWrites,
     AliasWrites, UnaliasWrites, RemoveWrites, VerifyWrites, ConnectWrites, Reloads, RowsRemoved
     DEF WriteStep

\* No edit begins with a write.
LEMMA EditLoses ==
  ASSUME NEW p \in Procs, Edit(p)
  PROVE  devices' = devices
<1>1. \A r : Begin(p, r) => devices' = devices
  BY DEF Begin
<1>2. ASSUME NEW n \in Names, NEW c \in Chassis, NEW nick \in Nicks \cup {None}
      PROVE  Add(p, n, c, nick) \/ Connect(p, n, c) => devices' = devices
  BY <1>1 DEF Add, Connect
<1>3. ASSUME NEW n \in Names, NEW h \in Hosts \cup {None}
      PROVE  AddForeign(p, n, h) \/ RefreshDevice(p, n, h) \/ Remove(p, n, h) => devices' = devices
  BY <1>1 DEF AddForeign, RefreshDevice, Remove
<1>4. ASSUME NEW n \in Names, NEW h \in Hosts, NEW sync, NEW keep
      PROVE  NameCheck(p, n, h, sync, keep) => devices' = devices
  BY <1>1 DEF NameCheck
<1>5. ASSUME NEW n \in Names, NEW to \in Names, NEW keep
      PROVE  Rename(p, n, to, keep) \/ Alias(p, to, n) \/ Unalias(p, n) => devices' = devices
  BY <1>1 DEF Rename, Alias, Unalias
<1>6. None \in Nicks \cup {None}
  OBVIOUS
<1> QED
  BY <1>2, <1>3, <1>4, <1>5, <1>6 DEF Edit

\* One step, whoever takes it.
LEMMA MapStep ==
  ASSUME MapInv, MapNext
  PROVE  MapInv' /\ \A n \in Names : Known(devices, n) /\ ~Known(devices', n)
                      => \E p \in Procs : Drops(p, n) /\ call'[p] # call[p]
<1>1. CASE \E p \in Procs : Edit(p)
  BY <1>1, EditBegins, EditLoses
<1>2. CASE \E p \in Procs : WriteStep(p)
  BY <1>2, WriteStepKeeps DEF Loses
<1>3. ASSUME MapInv', \A p \in Procs : Loses(p), devices' = devices
      PROVE  MapInv' /\ \A n \in Names : Known(devices, n) /\ ~Known(devices', n)
                      => \E p \in Procs : Drops(p, n) /\ call'[p] # call[p]
  BY <1>3
<1>4. CASE \E p \in Procs, n \in Names : Expire(p, n)
  <2>1. devices' = devices
    BY <1>4 DEF Expire
  <2> QED
    BY <1>3, <1>4, <2>1, Expires
<1>5. CASE \E p \in Procs, n \in Names, h \in Hosts : Verify(p, n, h)
  <2>1. devices' = devices
    BY <1>5 DEF Verify
  <2> QED
    BY <1>3, <1>5, <2>1, Verifies
<1>6. CASE \E n \in Names : Lookup(n)
  <2>1. devices' = devices
    BY <1>6 DEF Lookup
  <2> QED
    BY <1>3, <1>6, <2>1, LooksUp
<1>7. CASE \E a \in [Chassis -> Addrs] : MoveAddress(a)
  <2>1. devices' = devices
    BY <1>7 DEF MoveAddress
  <2> QED
    BY <1>3, <1>7, <2>1, AddressMoves
<1> QED
  BY <1>1, <1>2, <1>4, <1>5, <1>6, <1>7 DEF MapNext

\* The map at the start is one that is sound, and every table is read of it.
LEMMA MapStarts ==
  ASSUME MapInit
  PROVE  MapInv
<1>1. /\ setting \in Settings /\ IsMap(setting.map)
      /\ OneDevicePerName(setting.map) /\ OneChassisPerDevice(setting.map)
      /\ setting.address \in [Chassis -> Addrs] /\ setting.edits \in Nat /\ setting.moves \in Nat
  BY DeviceMapAssumption DEF MapInit, SettingsOK
<1>2. /\ DOMAIN HostTable(setting.map) \subseteq Names
      /\ \A n \in DOMAIN HostTable(setting.map) :
           HostTable(setting.map)[n] \in (SUBSET Hosts) \ {{}}
  BY <1>1, TableTyped
<1>3. NoCall \in Calls /\ NoCall.op = "none" /\ NoCall.at = "idle"
  BY Afterwards
<1>4. Typed
  <2>1. /\ setting \in Settings /\ devices = setting.map /\ address = setting.address
        /\ edits = 0 /\ moves = 0 /\ blind = FALSE /\ writers = {}
    BY DEF MapInit
  <2>2. /\ DOMAIN hosts = Procs \cup {Watcher}
        /\ \A p \in Procs \cup {Watcher} : hosts[p] = HostTable(setting.map)
    BY DEF MapInit
  <2>3. call \in [Procs -> Calls] /\ memo \in [Procs -> SUBSET Names]
    BY <1>3 DEF MapInit
  <2>4. edits \in 0..setting.edits /\ moves \in 0..setting.moves
    BY <1>1, <2>1
  <2> QED
    BY <1>1, <1>2, <2>1, <2>2, <2>3, <2>4 DEF Typed
<1>5. MapSound
  BY <1>1 DEF MapInit, MapSound
<1>6. \A p \in Procs : call[p] = NoCall /\ hosts[p] = HostTable(devices)
  BY DEF MapInit
<1>7. \A p \in Procs : Checked(call[p]) /\ Enrols(call[p]) /\ call[p].op # "connect"
  BY <1>3, <1>6, NothingToCheck
<1>8. \A p \in Procs : Fresh(p)
  BY <1>3, <1>6 DEF Fresh
<1> QED
  BY <1>4, <1>5, <1>7, <1>8 DEF MapInv

\* A step that changes nothing keeps it.
LEMMA MapStutters ==
  ASSUME MapInv, UNCHANGED mapVars
  PROVE  MapInv' /\ devices' = devices
<1>1. /\ memo' \in [Procs -> SUBSET Names] /\ address' \in [Chassis -> Addrs]
      /\ moves' \in 0..setting.moves
      /\ UNCHANGED <<setting, devices, hosts, call, edits, blind, writers>>
  BY DEF mapVars, MapInv, Typed
<1> QED
  BY <1>1, Elsewhere

\* What MapInv says holds, whatever processes edit the map, look devices up,
\* and verify addresses, in whatever order.
THEOREM MapInvariance == MapSpec => []MapInv
<1>1. MapInv /\ [MapNext]_mapVars => MapInv'
  BY MapStep, MapStutters
<1> QED
  BY <1>1, MapStarts, PTL DEF MapSpec

\* Each variable has the type the module gives it.
THEOREM MapTypeCorrect == MapSpec => []MapTypeOK
<1>1. ASSUME MapInv
      PROVE  MapTypeOK
  <2>1. \A p \in Procs : call[p].at \in {"idle", "write", "nick", "rename", "meta", "reload", "row"}
    <3>1. \A r \in Calls : r.at \in {"idle", "write", "nick", "rename", "meta", "reload", "row"}
      BY DEF Calls, NoCall, AddCalls, NickCalls, ForeignCalls, RefreshCalls, CheckCalls, RenameCalls,
             AliasCalls, UnaliasCalls, RemoveCalls, VerifyCalls, ConnectCalls, RowCalls, ReloadCalls
    <3> QED
      BY <1>1, <3>1 DEF MapInv, Typed
  <2> QED
    BY <1>1, <2>1 DEF MapInv, Typed, MapTypeOK, Range
<1> QED
  BY <1>1, MapInvariance, PTL

\* A name leads to one device, and a device is one chassis, until a call
\* writes on what it has not read; and a process finds by name what the map
\* holds: in its own table if it alone has edited, and a long-lived one by
\* reading the map again.
THEOREM NamesLeadToDevices == MapSpec => []MapHolds
<1>1. ASSUME MapInv
      PROVE  MapHolds
  <2>1. TableFollowsOwnWrites
    BY <1>1 DEF MapInv, Fresh, TableFollowsOwnWrites
  <2>2. ASSUME NEW n \in DOMAIN devices, devices[n].sns # {}
        PROVE  n \in DOMAIN Dial(n)
    <3>1. IsMap(devices) /\ n \in Names
      BY <1>1 DEF MapInv, Typed, IsMap
    <3>2. Canonical(devices, n) = n /\ n \in DOMAIN HostTable(devices)
      BY <2>2, <3>1, CanonicalIs DEF HostTable
    <3> DEFINE c == Canonical(devices, n)
               new == RefreshRow(hosts[Watcher], devices, n)
    <3>3. c \in DOMAIN new <=> c \in DOMAIN HostTable(devices)
      BY <3>1, RowIs
    <3>4. n \in DOMAIN new
      BY <3>2, <3>3
    <3> QED
      BY <3>4 DEF Dial
  <2> QED
    BY <1>1, <2>1, <2>2 DEF MapHolds, NamesAreFound, RegisteredIsFound, MapInv
<1> QED
  BY <1>1, MapInvariance, PTL

\* A name that leads to a device goes on leading to one until a process
\* removes the device, detaches the name, or renames without keeping it.
THEOREM NamesAreKept == MapSpec => NamesSurvive
<1>1. MapInv /\ [MapNext]_mapVars =>
        [\A n \in Names : Known(devices, n) /\ ~Known(devices', n)
           => \E p \in Procs : Drops(p, n) /\ call'[p] # call[p]]_mapVars
  BY MapStep
<1> QED
  BY <1>1, MapInvariance, PTL DEF MapSpec, NamesSurvive

(***************************************************************************)
(* gNMI                                                                     *)
(***************************************************************************)
GnPcs == {"idle", "open", "send", "stream", "blocked", "last", "over"}
GnVerdicts == {"none", "ok", "error", "refused", "dry_run", "connect_error"}

\* A call and its feed are such records.
CallRec(pc, host, got, synced, cut, verdict) ==
  [pc |-> pc, host |-> host, got |-> got, synced |-> synced, cut |-> cut, verdict |-> verdict]
FeedRec(sent, queue, error, late) == [sent |-> sent, queue |-> queue, error |-> error, late |-> late]
GnTyped(o, script, g, f) ==
  /\ g = CallRec(g.pc, g.host, g.got, g.synced, g.cut, g.verdict)
  /\ f = FeedRec(f.sent, f.queue, f.error, f.late)
  /\ g.pc \in GnPcs /\ g.verdict \in GnVerdicts /\ g.synced \in BOOLEAN /\ g.cut \in BOOLEAN /\ f.error \in BOOLEAN
  /\ f.sent \in 0..Len(script)
  /\ g.pc # "over" => g.verdict = "none"
  /\ g.pc \in {"stream", "blocked", "last"} => o.tool = "subscribe"

\* The call takes the address its device has.
Sure(s, o) == s.swaps = 0 /\ (o.verify \/ s.cached[o.dev] = s.address[o.dev])
HostOK(s, o, g) == g.pc = "send" /\ Sure(s, o) => g.host = s.address[o.dev]

\* Of a Set: whom it has hit.
SetOK(s, o, g, h) ==
  /\ h = <<>> \/ \E b \in DOMAIN s.address : h = <<b>> /\ (Sure(s, o) => b = o.dev)
  /\ h # <<>> => o.tool = "set" /\ o.confirm /\ g.verdict \in {"ok", "error"}
  /\ o.tool = "set" /\ g.pc \in {"open", "send"} => o.confirm
  /\ o.tool = "set" /\ g.verdict = "ok" => h # <<>>

\* Of a read: the entries so far are of its paths, in their order, and no box
\* has gone back behind one of them.
GnEntries(s, o) ==
  [path : {o.paths[i] : i \in DOMAIN o.paths}, status : {"ok", "error"}, box : DOMAIN s.address \cup {"none"}, rev : Nat]
EntriesOK(s, o, got, rev) ==
  /\ got \in Seq(GnEntries(s, o)) /\ Len(got) <= Len(o.paths)
  /\ \A i \in DOMAIN got :
       /\ got[i].path = o.paths[i]
       /\ got[i].status = "ok" => got[i].box \in DOMAIN s.address /\ got[i].rev <= rev[got[i].box]
       /\ got[i].status = "ok" /\ Sure(s, o) => got[i].box = o.dev
       /\ got[i].status # "ok" => got[i].box = "none" /\ got[i].rev = 0
  /\ \A i, j \in DOMAIN got :
       i < j /\ got[i].status = "ok" /\ got[j].status = "ok" /\ got[i].box = got[j].box => got[i].rev <= got[j].rev
ReadOK(s, o, g, rev) ==
  o.tool \in GnReads =>
    /\ EntriesOK(s, o, g.got, rev)
    /\ g.pc = "idle" \/ (o.tool # "get_many" /\ g.pc # "over") => g.got = <<>>
    /\ g.pc \in {"open", "send"} => Len(g.got) < Len(o.paths)
    /\ o.tool # "get_many" => \A i, j \in DOMAIN g.got : g.got[i].rev = g.got[j].rev
    /\ g.verdict \in {"ok", "error"} =>
         Len(g.got) = Len(o.paths) /\ (g.verdict = "ok" <=> \E i \in DOMAIN g.got : g.got[i].status = "ok")

\* Of a subscription: the queue is the end of what was sent, and what was
\* taken from it is in the answer.
Taken(f) == f.sent - Len(f.queue)
Capped(o, n) == o.cap > 0 /\ n >= o.cap
QueueOK(script, f) ==
  /\ f.queue \in Seq({script[i] : i \in DOMAIN script}) /\ Len(f.queue) <= f.sent
  /\ \A i \in DOMAIN f.queue : f.queue[i] = script[Taken(f) + i]
StreamOK(s, o, g, f) ==
  o.tool = "subscribe" =>
    /\ QueueOK(s.script, f)
    /\ g.pc \in {"idle", "open", "send"} => f.sent = 0 /\ g.got = <<>> /\ ~g.synced
    /\ g.pc # "over" => (g.synced <=> \E k \in 1..Taken(f) : s.script[k].kind = "sync")
    /\ g.pc # "over" => g.got = EventsSent(s.script)[Taken(f)]
    /\ g.pc # "over" /\ g.cut => g.pc = "last" /\ Capped(o, Len(g.got))
    /\ g.verdict = "ok" =>
         LET all == EventsSent(s.script)[Taken(f)] IN
         /\ Len(g.got) = Len(all) \/ (o.cap > 0 /\ Len(g.got) = o.cap)
         /\ Len(g.got) <= Len(all) /\ \A i \in DOMAIN g.got : g.got[i] = all[i]
         /\ o.cap > 0 => Len(g.got) <= o.cap
         /\ g.cut <=> o.cap > 0 /\ Len(g.got) = o.cap
         /\ f.error => g.got # <<>>

GnCallOK(s, o, g, f, h, rev) ==
  /\ GnTyped(o, s.script, g, f) /\ HostOK(s, o, g) /\ SetOK(s, o, g, h) /\ ReadOK(s, o, g, rev) /\ StreamOK(s, o, g, f)

\* The inductive invariant.
GnBoxes(s, addr, rev) ==
  /\ DOMAIN addr = DOMAIN s.address /\ rev \in [DOMAIN s.address -> Nat]
  /\ s.swaps = 0 => addr = s.address
GnInv ==
  /\ gnSetting \in GnSettings /\ GnBoxes(gnSetting, gnAddress, gnRev)
  /\ {DOMAIN gnCall, DOMAIN feed, DOMAIN gnHits} = {DOMAIN gnSetting.orders}
  /\ \A c \in DOMAIN gnCall : GnCallOK(gnSetting, gnSetting.orders[c], gnCall[c], feed[c], gnHits[c], gnRev)

\* Two sequences, one behind the other.
LEMMA Joined ==
  ASSUME NEW S, NEW s \in Seq(S), NEW t \in Seq(S), NEW u, u = s \o t
  PROVE  /\ u \in Seq(S) /\ Len(u) = Len(s) + Len(t)
         /\ \A i \in 1..Len(s) : u[i] = s[i]
         /\ \A i \in 1..Len(t) : u[Len(s) + i] = t[i]
<1>1. \A x, y \in Seq(S) :
        /\ x \o y \in Seq(S) /\ Len(x \o y) = Len(x) + Len(y)
        /\ \A i \in 1..(Len(x) + Len(y)) : (x \o y)[i] = IF i <= Len(x) THEN x[i] ELSE y[i - Len(x)]
  BY ONLY ConcatProperties, Zenon
<1>2. /\ u \in Seq(S) /\ Len(u) = Len(s) + Len(t)
      /\ \A i \in 1..(Len(s) + Len(t)) : u[i] = IF i <= Len(s) THEN s[i] ELSE t[i - Len(s)]
  BY <1>1, Zenon
<1>3. Len(s) \in Nat /\ Len(t) \in Nat
  OBVIOUS
<1>4. ASSUME NEW i \in 1..Len(t) PROVE u[Len(s) + i] = t[i]
  <2>1. Len(s) + i \in 1..(Len(s) + Len(t)) /\ ~(Len(s) + i <= Len(s)) /\ (Len(s) + i) - Len(s) = i
    BY ONLY <1>3, i \in 1..Len(t)
  <2> QED
    BY <1>2, <2>1
<1>5. ASSUME NEW i \in 1..Len(s) PROVE u[i] = s[i]
  <2>1. i \in 1..(Len(s) + Len(t)) /\ i <= Len(s)
    BY ONLY <1>3, i \in 1..Len(s)
  <2> QED
    BY <1>2, <2>1
<1> QED
  BY <1>2, <1>4, <1>5

\* A table of values is a sequence.
LEMMA Tabled ==
  ASSUME NEW S, NEW n \in Nat, NEW u, u \in [1..n -> S]
  PROVE  u \in Seq(S) /\ Len(u) = n /\ DOMAIN u = 1..n
OBVIOUS

\* What a device sends: messages, with lists of updates and deletes.
ScriptOK(script) ==
  /\ IsList(script)
  /\ \A i \in DOMAIN script :
       script[i].kind \in GnMessages /\ IsList(script[i].updates) /\ IsList(script[i].deletes)

\* Whatever a message may bring, marked.
Told(script) ==
  UNION {{script[i].updates[j] : j \in DOMAIN script[i].updates} \cup {script[i].deletes[j] : j \in DOMAIN script[i].deletes} :
           i \in DOMAIN script}
Marked(script) == [event : Told(script), pre : BOOLEAN]
NoSync(script, n) == \A k \in 1..(n - 1) : script[k].kind # "sync"
Brings(script, n) == IF script[n].kind = "note" THEN EventsOf(script[n], NoSync(script, n)) ELSE <<>>

\* The events of a message are a sequence.
LEMMA BringsAre ==
  ASSUME NEW script, ScriptOK(script), NEW n \in DOMAIN script
  PROVE  Brings(script, n) \in Seq(Marked(script))
<1>1. PICK ups, dels, E, T : /\ ups = script[n].updates /\ dels = script[n].deletes /\ E = Told(script)
                             /\ T = {ups[j] : j \in DOMAIN ups} \cup {dels[j] : j \in DOMAIN dels}
  OBVIOUS
<1>2. T \subseteq E
  BY <1>1 DEF Told
<1>3. ups \in Seq({ups[j] : j \in DOMAIN ups}) /\ dels \in Seq({dels[j] : j \in DOMAIN dels})
  BY <1>1 DEF ScriptOK, IsList
<1>4. ups \in Seq(T) /\ dels \in Seq(T)
  BY <1>1, <1>3, SeqMonotonic
<1>5. ups \in Seq(E) /\ dels \in Seq(E)
  BY <1>2, <1>4, SeqMonotonic
<1>6. PICK all : all = ups \o dels
  OBVIOUS
<1>7. all \in Seq(E)
  BY <1>5, <1>6, Joined
<1>8. PICK pre \in BOOLEAN : pre = NoSync(script, n)
  BY DEF NoSync
<1>9. PICK u : u = [i \in DOMAIN all |-> [event |-> all[i], pre |-> pre]]
  OBVIOUS
<1>10. DOMAIN all = 1..Len(all) /\ Len(all) \in Nat /\ \A i \in DOMAIN all : all[i] \in E
  BY ONLY <1>7
<1>11. u \in [1..Len(all) -> [event : E, pre : BOOLEAN]]
  BY ONLY <1>8, <1>9, <1>10
<1>12. u \in Seq(Marked(script))
  BY <1>1, <1>10, <1>11, Tabled DEF Marked
<1>13. EventsOf(script[n], NoSync(script, n)) = u
  BY <1>1, <1>6, <1>8, <1>9 DEF EventsOf
<1> QED
  BY <1>12, <1>13 DEF Brings

\* A property of numbers that holds of 0 and passes on holds of the first N.
LEMMA UpTo ==
  ASSUME NEW N \in Nat, NEW G \in SUBSET Nat, 0 \in G, \A n \in 1..N : n - 1 \in G => n \in G
  PROVE  \A n \in 0..N : n \in G
<1> DEFINE Less == {p \in Nat \X Nat : p[1] < p[2]}
<1>1. IsWellFoundedOn(Less, Nat)
  <2>1. OpToRel(<, Nat) = Less
    BY DEF OpToRel
  <2> QED
    BY <2>1, NatLessThanWellFounded
<1>2. PICK B : B = {n \in 0..N : n \notin G}
  OBVIOUS
<1>5. B \in SUBSET Nat
  BY <1>2
<1>3. CASE B # {}
  <2>1. PICK x \in B : \A y \in B : ~(<<y, x>> \in Less)
    BY ONLY <1>1, <1>3, <1>5, WFMin
  <2>2. x \in 1..N /\ x \notin G /\ x - 1 \in 0..N /\ x - 1 \in Nat
    BY <1>2, <2>1
  <2>3. x - 1 \in B
    BY <1>2, <2>2
  <2>4. <<x - 1, x>> \in Less
    BY <2>2
  <2> QED
    BY <2>1, <2>3, <2>4
<1>4. CASE B = {}
  BY <1>2, <1>4
<1> QED
  BY <1>3, <1>4

\* The events of the first n messages, message by message.
LEMMA EventsAre ==
  ASSUME NEW script, ScriptOK(script)
  PROVE  /\ Len(script) \in Nat /\ DOMAIN script = 1..Len(script)
         /\ EventsSent(script) \in [0..Len(script) -> Seq(Marked(script))]
         /\ EventsSent(script)[0] = <<>>
         /\ \A n \in 1..Len(script) : EventsSent(script)[n] = EventsSent(script)[n - 1] \o Brings(script, n)
<1>1. Len(script) \in Nat /\ DOMAIN script = 1..Len(script)
  BY DEF ScriptOK, IsList
<1>2. PICK N, M, b : N = Len(script) /\ M = Marked(script) /\ b = [n \in 1..N |-> Brings(script, n)]
  OBVIOUS
<1>3. b \in [1..N -> Seq(M)]
  BY <1>1, <1>2, BringsAre
<1> DEFINE Upto(n, g) == /\ g \in [0..n -> Seq(M)] /\ g[0] = <<>>
                         /\ \A k \in 1..n : g[k] = g[k - 1] \o b[k]
<1>4. PICK G \in SUBSET Nat : G = {n \in Nat : \E g : n <= N => Upto(n, g)}
  OBVIOUS
<1>5. 0 \in G
  <2>1. PICK g : g = [k \in 0..0 |-> <<>>]
    OBVIOUS
  <2>2. g \in [0..0 -> Seq(M)] /\ g[0] = <<>> /\ 1..0 = {}
    BY ONLY <2>1
  <2>3. Upto(0, g)
    BY ONLY <2>2
  <2> QED
    BY ONLY <1>4, <2>3
<1>6. ASSUME NEW n \in 1..N, n - 1 \in G PROVE n \in G
  <2>1. PICK g : Upto(n - 1, g)
    <3>1. n - 1 <= N
      BY <1>1, <1>2
    <3> QED
      BY <1>4, <1>6, <3>1
  <2>2. PICK m \in Nat : m = n - 1 /\ n \in Nat /\ n = m + 1
    BY <1>1, <1>2
  <2>3. g \in [0..m -> Seq(M)] /\ g[0] = <<>> /\ \A k \in 1..m : g[k] = g[k - 1] \o b[k]
    BY <2>1, <2>2
  <2>4. PICK x : x = g[m] \o b[n]
    OBVIOUS
  <2>5. x \in Seq(M)
    <3>1. m \in 0..m /\ n \in 1..N
      BY <2>2
    <3>2. g[m] \in Seq(M) /\ b[n] \in Seq(M)
      BY ONLY <1>3, <2>3, <3>1
    <3> QED
      BY ONLY <2>4, <3>2, Joined
  <2>6. PICK h : h = [k \in 0..n |-> IF k = n THEN x ELSE g[k]]
    OBVIOUS
  <2>7. h \in [0..n -> Seq(M)] /\ h[0] = <<>>
    BY ONLY <2>2, <2>3, <2>5, <2>6
  <2>8. ASSUME NEW k \in 1..n PROVE h[k] = h[k - 1] \o b[k]
    <3>1. CASE k = n
      <4>1. h[k] = x /\ h[k - 1] = g[m]
        BY ONLY <2>2, <2>6, <3>1
      <4> QED
        BY <2>4, <3>1, <4>1
    <3>2. CASE k # n
      <4>1. k \in 1..m /\ h[k] = g[k] /\ h[k - 1] = g[k - 1]
        BY ONLY <2>2, <2>6, <3>2, k \in 1..n
      <4> QED
        BY <2>3, <4>1
    <3> QED
      BY <3>1, <3>2
  <2>9. Upto(n, h)
    BY <2>7, <2>8
  <2> QED
    BY ONLY <1>4, <2>2, <2>9
<1>7. PICK g : Upto(N, g)
  <2>1. N \in Nat /\ \A n \in 1..N : n - 1 \in G => n \in G
    BY <1>1, <1>2, <1>6
  <2>2. N \in G
    <3>1. \A n \in 0..N : n \in G
      BY ONLY <1>5, <2>1, G \in SUBSET Nat, UpTo
    <3> QED
      BY ONLY <2>1, <3>1
  <2>3. PICK n : n = N
    OBVIOUS
  <2>4. \E g : n <= N => Upto(n, g)
    BY ONLY <1>4, <2>2, <2>3
  <2>5. n <= N
    BY ONLY <2>1, <2>3
  <2> QED
    BY ONLY <2>3, <2>4, <2>5
<1>8. \A n \in 1..N : b[n] = Brings(script, n)
  BY <1>2
<1>9. g = [n \in 0..N |-> IF n = 0 THEN <<>> ELSE g[n - 1] \o Brings(script, n)]
  <2>1. \A n \in 0..N : g[n] = IF n = 0 THEN <<>> ELSE g[n - 1] \o Brings(script, n)
    BY <1>1, <1>2, <1>7, <1>8
  <2> QED
    BY <1>7, <2>1
<1>10. EventsSent(script) = [n \in 0..N |-> IF n = 0 THEN <<>> ELSE EventsSent(script)[n - 1] \o Brings(script, n)]
  BY <1>2, <1>9 DEF EventsSent, Brings, NoSync
<1>11. PICK f : f = EventsSent(script)
  OBVIOUS
<1>12. f = g
  <2>1. f = [n \in 0..N |-> IF n = 0 THEN <<>> ELSE f[n - 1] \o Brings(script, n)]
    BY <1>10, <1>11
  <2>2. PICK H \in SUBSET Nat : H = {n \in Nat : n <= N => f[n] = g[n]}
    OBVIOUS
  <2>3. 0 \in H
    BY <1>1, <1>2, <1>9, <2>1, <2>2
  <2>4. ASSUME NEW n \in 1..N, n - 1 \in H PROVE n \in H
    <3>1. n \in Nat /\ n - 1 \in Nat /\ n - 1 <= N /\ n \in 0..N /\ n # 0
      BY <1>1, <1>2
    <3>2. f[n - 1] = g[n - 1]
      BY ONLY <2>2, <2>4, <3>1
    <3>3. f[n] = f[n - 1] \o Brings(script, n)
      BY ONLY <2>1, <3>1
    <3>4. g[n] = g[n - 1] \o Brings(script, n)
      BY ONLY <1>9, <3>1
    <3> QED
      BY ONLY <2>2, <3>1, <3>2, <3>3, <3>4
  <2>5. N \in Nat /\ \A n \in 1..N : n - 1 \in H => n \in H
    BY <1>1, <1>2, <2>4
  <2>6. \A n \in 0..N : n \in H
    BY ONLY <2>2, <2>3, <2>5, UpTo
  <2>7. \A n \in 0..N : f[n] = g[n]
    BY ONLY <2>2, <2>5, <2>6
  <2> QED
    BY ONLY <1>9, <2>1, <2>7
<1> QED
  BY <1>1, <1>2, <1>7, <1>8, <1>11, <1>12

\* The fields of a call.
LEMMA CallFields ==
  ASSUME NEW pc, NEW host, NEW got, NEW synced, NEW cut, NEW verdict, NEW g,
         g = CallRec(pc, host, got, synced, cut, verdict)
  PROVE  /\ g.pc = pc /\ g.host = host /\ g.got = got /\ g.synced = synced /\ g.cut = cut /\ g.verdict = verdict
         /\ g = CallRec(g.pc, g.host, g.got, g.synced, g.cut, g.verdict)
BY DEF CallRec

\* The fields of a feed.
LEMMA FeedFields ==
  ASSUME NEW sent, NEW queue, NEW error, NEW late, NEW f, f = FeedRec(sent, queue, error, late)
  PROVE  /\ f.sent = sent /\ f.queue = queue /\ f.error = error /\ f.late = late
         /\ f = FeedRec(f.sent, f.queue, f.error, f.late)
BY DEF FeedRec

\* A call that stops without an answer of its own: nothing was carried out,
\* and a read has shown nothing more.
LEMMA Ends ==
  ASSUME NEW s, NEW o, NEW g, NEW f, NEW h, NEW rev, NEW got1, NEW v \in GnVerdicts, NEW g1,
         GnCallOK(s, o, g, f, h, rev), g.pc # "over",
         o.tool \in GnReads => got1 = g.got /\ v \notin {"ok", "error"},
         v = "ok" => o.tool = "capabilities",
         g1 = CallRec("over", g.host, got1, g.synced, g.cut, v)
  PROVE  GnCallOK(s, o, g1, f, h, rev)
<1>1. /\ g1.pc = "over" /\ g1.host = g.host /\ g1.got = got1 /\ g1.synced = g.synced /\ g1.cut = g.cut /\ g1.verdict = v
      /\ g1 = CallRec(g1.pc, g1.host, g1.got, g1.synced, g1.cut, g1.verdict)
  BY DEF CallRec
<1>2. GnTyped(o, s.script, g1, f)
  BY <1>1 DEF GnCallOK, GnTyped, GnPcs
<1>3. HostOK(s, o, g1)
  BY <1>1 DEF HostOK
<1>4. SetOK(s, o, g1, h)
  BY <1>1 DEF GnCallOK, GnTyped, SetOK
<1>5. ReadOK(s, o, g1, rev)
  <2>1. CASE o.tool \notin GnReads
    BY <2>1 DEF ReadOK
  <2>2. CASE o.tool \in GnReads
    <3>1. g1.got = g.got /\ g1.verdict \notin {"ok", "error"} /\ g1.pc = "over"
      BY <1>1, <2>2
    <3>2. /\ EntriesOK(s, o, g.got, rev)
          /\ g.pc = "idle" \/ (o.tool # "get_many" /\ g.pc # "over") => g.got = <<>>
          /\ o.tool # "get_many" => \A i, j \in DOMAIN g.got : g.got[i].rev = g.got[j].rev
      BY <2>2 DEF GnCallOK, ReadOK
    <3> QED
      BY <3>1, <3>2 DEF ReadOK
  <2> QED
    BY <2>1, <2>2
<1>6. StreamOK(s, o, g1, f)
  BY <1>1 DEF GnCallOK, StreamOK, GnReads
<1> QED
  BY <1>2, <1>3, <1>4, <1>5, <1>6 DEF GnCallOK

\* A call that passes its checks.
LEMMA ToOpen ==
  ASSUME NEW s, NEW o, NEW g, NEW f, NEW h, NEW rev, NEW g1,
         GnCallOK(s, o, g, f, h, rev), g.pc = "idle", IsList(o.paths),
         o.tool = "set" => o.confirm,
         o.tool # "capabilities" => o.paths # <<>>,
         g1 = CallRec("open", g.host, g.got, g.synced, g.cut, g.verdict)
  PROVE  GnCallOK(s, o, g1, f, h, rev)
<1>1. /\ g1.pc = "open" /\ g1.host = g.host /\ g1.got = g.got /\ g1.synced = g.synced /\ g1.cut = g.cut
      /\ g1.verdict = g.verdict
      /\ g1 = CallRec(g1.pc, g1.host, g1.got, g1.synced, g1.cut, g1.verdict)
  BY DEF CallRec
<1>2. GnTyped(o, s.script, g1, f)
  BY <1>1 DEF GnCallOK, GnTyped, GnPcs
<1>3. HostOK(s, o, g1)
  BY <1>1 DEF HostOK
<1>4. SetOK(s, o, g1, h)
  BY <1>1 DEF GnCallOK, GnTyped, SetOK
<1>5. ReadOK(s, o, g1, rev)
  <2>1. CASE o.tool \notin GnReads
    BY <2>1 DEF ReadOK
  <2>2. CASE o.tool \in GnReads
    <3>1. g.got = <<>> /\ EntriesOK(s, o, g.got, rev) /\ g.verdict = "none"
      BY <2>2 DEF GnCallOK, ReadOK, GnTyped
    <3>2. o.paths # <<>>
      BY <2>2 DEF GnReads
    <3>3. Len(o.paths) \in Nat /\ Len(o.paths) > 0
      BY <3>2 DEF IsList
    <3> QED
      BY <1>1, <3>1, <3>3 DEF ReadOK
  <2> QED
    BY <2>1, <2>2
<1>6. StreamOK(s, o, g1, f)
  <2>1. CASE o.tool = "subscribe"
    BY <1>1, <2>1 DEF GnCallOK, StreamOK, GnTyped
  <2> QED
    BY <2>1 DEF StreamOK
<1> QED
  BY <1>2, <1>3, <1>4, <1>5, <1>6 DEF GnCallOK

\* A call that has its client.
LEMMA ToSend ==
  ASSUME NEW s, NEW o, NEW g, NEW f, NEW h, NEW rev, NEW host1, NEW g1,
         GnCallOK(s, o, g, f, h, rev), g.pc = "open", Sure(s, o) => host1 = s.address[o.dev],
         g1 = CallRec("send", host1, g.got, g.synced, g.cut, g.verdict)
  PROVE  GnCallOK(s, o, g1, f, h, rev)
<1>1. /\ g1.pc = "send" /\ g1.host = host1 /\ g1.got = g.got /\ g1.synced = g.synced /\ g1.cut = g.cut
      /\ g1.verdict = g.verdict
      /\ g1 = CallRec(g1.pc, g1.host, g1.got, g1.synced, g1.cut, g1.verdict)
  BY DEF CallRec
<1>2. GnTyped(o, s.script, g1, f)
  BY <1>1 DEF GnCallOK, GnTyped, GnPcs
<1>3. HostOK(s, o, g1)
  BY <1>1 DEF HostOK
<1>4. SetOK(s, o, g1, h)
  BY <1>1 DEF GnCallOK, GnTyped, SetOK
<1>5. ReadOK(s, o, g1, rev)
  <2>1. g.verdict = "none"
    BY DEF GnCallOK, GnTyped
  <2> QED
    BY <1>1, <2>1 DEF GnCallOK, ReadOK
<1>6. StreamOK(s, o, g1, f)
  <2>1. CASE o.tool = "subscribe"
    BY <1>1, <2>1 DEF GnCallOK, StreamOK, GnTyped
  <2> QED
    BY <2>1 DEF StreamOK
<1> QED
  BY <1>2, <1>3, <1>4, <1>5, <1>6 DEF GnCallOK

\* A subscription that goes on, or stops because its time is up or its cap
\* is reached.
LEMMA InLoop ==
  ASSUME NEW s, NEW o, NEW g, NEW f, NEW h, NEW rev, NEW pc1, NEW cut1 \in BOOLEAN, NEW g1,
         GnCallOK(s, o, g, f, h, rev), g.pc \in {"send", "stream", "blocked"}, o.tool = "subscribe",
         pc1 \in {"stream", "blocked", "last"}, cut1 => pc1 = "last" /\ Capped(o, Len(g.got)),
         g1 = CallRec(pc1, g.host, g.got, g.synced, cut1, g.verdict)
  PROVE  GnCallOK(s, o, g1, f, h, rev)
<1>1. /\ g1.pc = pc1 /\ g1.host = g.host /\ g1.got = g.got /\ g1.synced = g.synced /\ g1.cut = cut1
      /\ g1.verdict = g.verdict
      /\ g1 = CallRec(g1.pc, g1.host, g1.got, g1.synced, g1.cut, g1.verdict)
  BY DEF CallRec
<1>2. GnTyped(o, s.script, g1, f)
  BY <1>1 DEF GnCallOK, GnTyped, GnPcs
<1>3. HostOK(s, o, g1)
  BY <1>1 DEF HostOK
<1>4. SetOK(s, o, g1, h)
  BY <1>1 DEF GnCallOK, GnTyped, SetOK
<1>5. ReadOK(s, o, g1, rev)
  BY DEF ReadOK, GnReads
<1>6. StreamOK(s, o, g1, f)
  <2>1. g.verdict = "none" /\ g.pc # "over" /\ g1.pc # "over" /\ g1.pc \notin {"idle", "open", "send"}
    BY <1>1 DEF GnCallOK, GnTyped
  <2> QED
    BY <1>1, <2>1 DEF GnCallOK, StreamOK
<1> QED
  BY <1>2, <1>3, <1>4, <1>5, <1>6 DEF GnCallOK

\* A Set that its box has carried out.
LEMMA SetHits ==
  ASSUME NEW s, NEW o, NEW g, NEW f, NEW h, NEW rev, NEW b \in DOMAIN s.address, NEW v \in {"ok", "error"}, NEW g1, NEW h1,
         GnCallOK(s, o, g, f, h, rev), g.pc = "send", o.tool = "set", Sure(s, o) => b = o.dev,
         g1 = CallRec("over", g.host, g.got, g.synced, g.cut, v), h1 = Append(h, b)
  PROVE  GnCallOK(s, o, g1, f, h1, rev)
<1>1. /\ g1.pc = "over" /\ g1.host = g.host /\ g1.got = g.got /\ g1.synced = g.synced /\ g1.cut = g.cut /\ g1.verdict = v
      /\ g1 = CallRec(g1.pc, g1.host, g1.got, g1.synced, g1.cut, g1.verdict)
  BY DEF CallRec
<1>2. GnTyped(o, s.script, g1, f)
  BY <1>1 DEF GnCallOK, GnTyped, GnPcs, GnVerdicts
<1>3. HostOK(s, o, g1)
  BY <1>1 DEF HostOK
<1>4. SetOK(s, o, g1, h1)
  <2>1. h = <<>> /\ o.confirm
    BY DEF GnCallOK, GnTyped, SetOK
  <2>2. h1 = <<b>> /\ h1 # <<>>
    BY <2>1
  <2> QED
    BY <1>1, <2>1, <2>2 DEF SetOK
<1>5. ReadOK(s, o, g1, rev)
  BY DEF ReadOK, GnReads
<1>6. StreamOK(s, o, g1, f)
  BY DEF StreamOK
<1> QED
  BY <1>2, <1>3, <1>4, <1>5, <1>6 DEF GnCallOK

\* What a feed does not touch.
LEMMA OnlyFeed ==
  ASSUME NEW s, NEW o, NEW g, NEW f, NEW h, NEW rev, NEW f1,
         GnCallOK(s, o, g, f, h, rev), g.pc \in {"stream", "blocked", "last"},
         f1 = FeedRec(f1.sent, f1.queue, f1.error, f1.late), f1.sent \in 0..Len(s.script), f1.error \in BOOLEAN,
         QueueOK(s.script, f) => QueueOK(s.script, f1), Taken(f1) = Taken(f)
  PROVE  GnCallOK(s, o, g, f1, h, rev)
<1>1. GnTyped(o, s.script, g, f1) /\ HostOK(s, o, g) /\ SetOK(s, o, g, h) /\ ReadOK(s, o, g, rev)
  BY DEF GnCallOK, GnTyped
<1>2. StreamOK(s, o, g, f1)
  <2>1. o.tool = "subscribe" /\ g.verdict = "none" /\ g.pc # "over" /\ g.pc \notin {"idle", "open", "send"}
    BY DEF GnCallOK, GnTyped
  <2>2. /\ QueueOK(s.script, f1)
        /\ g.synced <=> \E k \in 1..Taken(f1) : s.script[k].kind = "sync"
        /\ g.got = EventsSent(s.script)[Taken(f1)]
        /\ g.cut => g.pc = "last" /\ Capped(o, Len(g.got))
    BY <2>1 DEF GnCallOK, StreamOK
  <2> QED
    BY <2>1, <2>2 DEF StreamOK
<1> QED
  BY <1>1, <1>2 DEF GnCallOK

\* The client's thread puts the next message in the queue.
LEMMA Fed ==
  ASSUME NEW s, NEW o, NEW g, NEW f, NEW h, NEW rev, NEW f1,
         GnCallOK(s, o, g, f, h, rev), g.pc \in {"stream", "blocked", "last"}, ScriptOK(s.script),
         f.sent < Len(s.script),
         f1 = FeedRec(f.sent + 1, Append(f.queue, s.script[f.sent + 1]), f.error, f.late)
  PROVE  GnCallOK(s, o, g, f1, h, rev)
<1>1. PICK script, M, q, n, m : /\ script = s.script /\ M = {script[i] : i \in DOMAIN script}
                                /\ q = f.queue /\ n = f.sent /\ m = script[n + 1]
  OBVIOUS
<1>2. /\ f1.sent = n + 1 /\ f1.queue = Append(q, m) /\ f1.error = f.error /\ f1.late = f.late
      /\ f1 = FeedRec(f1.sent, f1.queue, f1.error, f1.late)
  BY <1>1 DEF FeedRec
<1>3. Len(script) \in Nat /\ DOMAIN script = 1..Len(script)
  BY <1>1 DEF ScriptOK, IsList
<1>4. n \in 0..Len(script) /\ n < Len(script) /\ f.error \in BOOLEAN /\ o.tool = "subscribe"
  BY <1>1 DEF GnCallOK, GnTyped
<1>5. n + 1 \in 0..Len(script) /\ n + 1 \in DOMAIN script
  BY ONLY <1>3, <1>4
<1>6. m \in M
  BY <1>1, <1>5
<1>7. q \in Seq(M) /\ Len(q) <= n /\ \A i \in DOMAIN q : q[i] = script[(n - Len(q)) + i]
  BY <1>1, <1>4 DEF GnCallOK, StreamOK, QueueOK, Taken
<1>8. PICK r : r = Append(q, m)
  OBVIOUS
<1>9. r \in Seq(M) /\ Len(r) = Len(q) + 1 /\ Len(q) \in Nat /\ DOMAIN r = 1..(Len(q) + 1) /\ DOMAIN q = 1..Len(q)
  BY ONLY <1>6, <1>7, <1>8
<1>10. (n + 1) - Len(r) = n - Len(q) /\ Len(r) <= n + 1
  BY ONLY <1>3, <1>4, <1>7, <1>9
<1>11. ASSUME NEW i \in DOMAIN r PROVE r[i] = script[(n - Len(q)) + i]
  <2>1. CASE i \in DOMAIN q
    BY ONLY <1>7, <1>8, <1>9, <2>1
  <2>2. CASE i \notin DOMAIN q
    <3>1. i = Len(q) + 1
      BY ONLY <1>9, <2>2, <1>11
    <3>2. r[i] = m /\ (n - Len(q)) + i = n + 1
      BY ONLY <1>3, <1>4, <1>7, <1>8, <1>9, <3>1
    <3> QED
      BY <1>1, <3>2
  <2> QED
    BY <2>1, <2>2
<1>12. QueueOK(s.script, f1) /\ Taken(f1) = Taken(f)
  <2>1. f1.queue = r /\ f1.sent = n + 1
    BY <1>1, <1>2, <1>8
  <2>2. Taken(f1) = n - Len(q) /\ Taken(f) = n - Len(q)
    BY <1>1, <1>10, <2>1 DEF Taken
  <2>3. \A i \in DOMAIN r : r[i] = script[Taken(f1) + i]
    BY <1>11, <2>2
  <2>4. f1.queue \in Seq({s.script[i] : i \in DOMAIN s.script})
    BY ONLY <1>1, <1>9, <2>1
  <2>5. Len(f1.queue) <= f1.sent
    BY ONLY <1>10, <2>1
  <2>6. \A i \in DOMAIN f1.queue : f1.queue[i] = s.script[Taken(f1) + i]
    BY ONLY <1>1, <2>1, <2>3
  <2> QED
    BY <2>2, <2>4, <2>5, <2>6 DEF QueueOK
<1>13. f1.sent \in 0..Len(s.script) /\ f1.error \in BOOLEAN
  BY <1>1, <1>2, <1>4, <1>5
<1> QED
  BY <1>2, <1>12, <1>13, OnlyFeed

\* The thread fails, or the time is up.
LEMMA FeedMarks ==
  ASSUME NEW s, NEW o, NEW g, NEW f, NEW h, NEW rev, NEW f1, NEW e \in BOOLEAN, NEW late,
         GnCallOK(s, o, g, f, h, rev), g.pc \in {"stream", "blocked", "last"},
         f1 = FeedRec(f.sent, f.queue, e, late)
  PROVE  GnCallOK(s, o, g, f1, h, rev)
<1>1. /\ f1.sent = f.sent /\ f1.queue = f.queue /\ f1.error = e /\ f1.late = late
      /\ f1 = FeedRec(f1.sent, f1.queue, f1.error, f1.late)
  BY DEF FeedRec
<1>2. f1.sent \in 0..Len(s.script)
  BY <1>1 DEF GnCallOK, GnTyped
<1>3. (QueueOK(s.script, f) => QueueOK(s.script, f1)) /\ Taken(f1) = Taken(f)
  BY <1>1 DEF QueueOK, Taken
<1> QED
  BY <1>1, <1>2, <1>3, OnlyFeed

\* When a message can be taken, and what it makes of a call.
Receivable(s, g, f, note, got1, synced1) ==
  /\ ScriptOK(s.script) /\ g.pc = "blocked" /\ f.queue # <<>> /\ note = Head(f.queue)
  /\ got1 = IF note.kind = "note" THEN g.got \o EventsOf(note, ~g.synced) ELSE g.got
  /\ synced1 = (g.synced \/ note.kind = "sync")

\* A subscription takes a message from the queue.
LEMMA Received ==
  ASSUME NEW s, NEW o, NEW g, NEW f, NEW h, NEW rev, NEW note, NEW got1, NEW synced1, NEW g1, NEW f1,
         GnCallOK(s, o, g, f, h, rev), Receivable(s, g, f, note, got1, synced1),
         g1 = CallRec("stream", g.host, got1, synced1, g.cut, g.verdict),
         f1 = FeedRec(f.sent, Tail(f.queue), f.error, f.late)
  PROVE  GnCallOK(s, o, g1, f1, h, rev)
<1>0. /\ ScriptOK(s.script) /\ g.pc = "blocked" /\ f.queue # <<>> /\ note = Head(f.queue)
      /\ got1 = IF note.kind = "note" THEN g.got \o EventsOf(note, ~g.synced) ELSE g.got
      /\ synced1 = (g.synced \/ note.kind = "sync")
  BY DEF Receivable
<1>1. /\ g1.pc = "stream" /\ g1.host = g.host /\ g1.got = got1 /\ g1.synced = synced1 /\ g1.cut = g.cut
      /\ g1.verdict = g.verdict
      /\ g1 = CallRec(g1.pc, g1.host, g1.got, g1.synced, g1.cut, g1.verdict)
  BY DEF CallRec
<1>2. /\ f1.sent = f.sent /\ f1.queue = Tail(f.queue) /\ f1.error = f.error /\ f1.late = f.late
      /\ f1 = FeedRec(f1.sent, f1.queue, f1.error, f1.late)
  BY DEF FeedRec
<1>3. PICK script, M, q, n, r : /\ script = s.script /\ M = {script[i] : i \in DOMAIN script}
                                /\ q = f.queue /\ n = f.sent /\ r = Tail(q)
  OBVIOUS
<1>4. Len(script) \in Nat /\ DOMAIN script = 1..Len(script) /\ n \in 0..Len(script)
  BY <1>0, <1>3 DEF ScriptOK, IsList, GnCallOK, GnTyped
<1>5. /\ o.tool = "subscribe" /\ g.verdict = "none" /\ g.synced \in BOOLEAN /\ synced1 \in BOOLEAN
      /\ ~(g.pc \in {"idle", "open", "send", "last", "over"})
  BY <1>0 DEF GnCallOK, GnTyped
<1>6. q \in Seq(M) /\ Len(q) <= n /\ \A i \in DOMAIN q : q[i] = script[(n - Len(q)) + i]
  BY <1>3, <1>5 DEF GnCallOK, StreamOK, QueueOK, Taken
<1>7. /\ r \in Seq(M) /\ Len(q) \in Nat /\ Len(q) > 0 /\ Len(r) = Len(q) - 1 /\ note = q[1]
      /\ DOMAIN q = 1..Len(q) /\ DOMAIN r = 1..Len(r) /\ \A i \in DOMAIN r : r[i] = q[i + 1]
  <2>1. note = Head(q) /\ q # <<>>
    BY <1>0, <1>3
  <2> QED
    BY ONLY <1>3, <1>6, <2>1
<1>8. PICK t : t = n - Len(q)
  OBVIOUS
<1>9. t \in Nat /\ t + 1 \in 1..Len(script) /\ n - Len(r) = t + 1 /\ Len(r) <= n
  BY ONLY <1>4, <1>6, <1>7, <1>8
<1>10. Taken(f) = t /\ Taken(f1) = t + 1
  BY <1>2, <1>3, <1>8, <1>9 DEF Taken
<1>11. note = script[t + 1]
  BY ONLY <1>6, <1>7, <1>8, <1>9
<1>12. QueueOK(s.script, f1)
  <2>1. ASSUME NEW i \in DOMAIN r PROVE r[i] = script[(t + 1) + i]
    <3>1. i \in Nat /\ i + 1 \in DOMAIN q /\ t + (i + 1) = (t + 1) + i
      <4>1. i \in 1..(Len(q) - 1)
        BY ONLY <1>7, i \in DOMAIN r
      <4>2. Len(q) \in Nat /\ DOMAIN q = 1..Len(q) /\ t \in Nat
        BY ONLY <1>7, <1>9
      <4> QED
        BY ONLY <4>1, <4>2
    <3>2. q[i + 1] = script[t + (i + 1)]
      BY ONLY <1>6, <1>8, <3>1
    <3> QED
      BY <1>7, <3>1, <3>2
  <2>2. \A i \in DOMAIN f1.queue : f1.queue[i] = s.script[Taken(f1) + i]
    BY <1>2, <1>3, <1>10, <2>1
  <2>3. f1.queue \in Seq({s.script[i] : i \in DOMAIN s.script}) /\ Len(f1.queue) <= f1.sent
    BY ONLY <1>2, <1>3, <1>7, <1>9
  <2> QED
    BY <2>2, <2>3 DEF QueueOK
<1>13. /\ g.synced <=> \E k \in 1..t : script[k].kind = "sync"
       /\ g.got = EventsSent(script)[t] /\ ~g.cut
  BY <1>3, <1>5, <1>10 DEF GnCallOK, StreamOK
<1>14. synced1 <=> \E k \in 1..(t + 1) : script[k].kind = "sync"
  <2>1. \A k : k \in 1..(t + 1) <=> k \in 1..t \/ k = t + 1
    BY ONLY <1>9
  <2>2. synced1 <=> g.synced \/ script[t + 1].kind = "sync"
    BY <1>0, <1>11
  <2> QED
    BY <1>13, <2>1, <2>2
<1>15. (~g.synced) = NoSync(script, t + 1)
  <2>1. (t + 1) - 1 = t
    BY <1>9
  <2>2. ~g.synced <=> NoSync(script, t + 1)
    BY <1>13, <2>1 DEF NoSync
  <2>3. NoSync(script, t + 1) \in BOOLEAN
    BY DEF NoSync
  <2> QED
    BY <1>5, <2>2, <2>3
<1>16. got1 = EventsSent(script)[t + 1]
  <2>1. PICK E, x : E = EventsSent(script) /\ x = Brings(script, t + 1)
    OBVIOUS
  <2>2. ScriptOK(script)
    BY <1>0, <1>3
  <2>3. E \in [0..Len(script) -> Seq(Marked(script))] /\ \A k \in 1..Len(script) : E[k] = E[k - 1] \o Brings(script, k)
    BY <2>1, <2>2, EventsAre
  <2>4. E[t + 1] = E[t] \o x /\ E[t] \in Seq(Marked(script)) /\ (t + 1) - 1 = t
    <3>1. (t + 1) - 1 = t /\ t + 1 \in 1..Len(script) /\ t \in 0..Len(script)
      BY ONLY <1>4, <1>9
    <3>2. E[t + 1] = E[(t + 1) - 1] \o Brings(script, t + 1)
      BY ONLY <2>3, <3>1
    <3>3. E[t] \in Seq(Marked(script))
      BY ONLY <2>3, <3>1
    <3> QED
      BY <2>1, <3>1, <3>2, <3>3
  <2>5. x = IF note.kind = "note" THEN EventsOf(note, ~g.synced) ELSE <<>>
    <3>1. EventsOf(script[t + 1], NoSync(script, t + 1)) = EventsOf(note, ~g.synced)
      BY <1>11, <1>15, Zenon
    <3> QED
      BY <1>11, <2>1, <3>1 DEF Brings
  <2>6. CASE note.kind = "note"
    BY <1>0, <1>13, <2>1, <2>4, <2>5, <2>6
  <2>7. CASE note.kind # "note"
    <3>1. x = <<>> /\ got1 = E[t]
      BY <1>0, <1>13, <2>1, <2>5, <2>7
    <3>2. E[t] \o x = E[t]
      BY ONLY <2>4, <3>1
    <3> QED
      BY <2>1, <2>4, <3>1, <3>2
  <2> QED
    BY <2>6, <2>7
<1>17. GnTyped(o, s.script, g1, f1)
  BY <1>0, <1>1, <1>2, <1>5 DEF GnCallOK, GnTyped, GnPcs
<1>18. HostOK(s, o, g1) /\ SetOK(s, o, g1, h) /\ ReadOK(s, o, g1, rev)
  BY <1>0, <1>1, <1>5 DEF HostOK, SetOK, ReadOK, GnReads, GnCallOK
<1>19. StreamOK(s, o, g1, f1)
  BY <1>1, <1>3, <1>5, <1>10, <1>12, <1>13, <1>14, <1>16 DEF StreamOK
<1> QED
  BY <1>17, <1>18, <1>19 DEF GnCallOK

\* A subscription answers.
LEMMA Reported ==
  ASSUME NEW s, NEW o, NEW g, NEW f, NEW h, NEW rev, NEW got1, NEW cut1, NEW g1,
         GnCallOK(s, o, g, f, h, rev), g.pc = "last", ScriptOK(s.script), o.cap \in Nat,
         f.error => g.got # <<>>,
         got1 = IF Capped(o, Len(g.got)) THEN SubSeq(g.got, 1, o.cap) ELSE g.got,
         cut1 = (g.cut \/ Capped(o, Len(g.got))),
         g1 = CallRec("over", g.host, got1, g.synced, cut1, "ok")
  PROVE  GnCallOK(s, o, g1, f, h, rev)
<1>1. /\ g1.pc = "over" /\ g1.host = g.host /\ g1.got = got1 /\ g1.synced = g.synced /\ g1.cut = cut1 /\ g1.verdict = "ok"
      /\ g1 = CallRec(g1.pc, g1.host, g1.got, g1.synced, g1.cut, g1.verdict)
  BY DEF CallRec
<1>2. /\ o.tool = "subscribe" /\ g.verdict = "none" /\ g.synced \in BOOLEAN /\ cut1 \in BOOLEAN
      /\ g.pc # "over" /\ f.sent \in 0..Len(s.script)
  BY DEF GnCallOK, GnTyped
<1>3. GnTyped(o, s.script, g1, f)
  BY <1>1, <1>2 DEF GnCallOK, GnTyped, GnPcs, GnVerdicts
<1>4. HostOK(s, o, g1) /\ SetOK(s, o, g1, h) /\ ReadOK(s, o, g1, rev)
  BY <1>1, <1>2 DEF HostOK, SetOK, ReadOK, GnReads, GnCallOK
<1>5. PICK E, S, t : E = EventsSent(s.script) /\ S = Marked(s.script) /\ t = Taken(f)
  OBVIOUS
<1>6. /\ QueueOK(s.script, f) /\ g.got = E[t] /\ (g.cut => Capped(o, Len(g.got)))
  BY <1>2, <1>5 DEF GnCallOK, StreamOK
<1>7. Len(s.script) \in Nat /\ E \in [0..Len(s.script) -> Seq(S)]
  BY <1>5, EventsAre
<1>8. t \in 0..Len(s.script)
  <2>1. Len(f.queue) \in Nat /\ Len(f.queue) <= f.sent
    <3>1. PICK q, M : q = f.queue /\ M = {s.script[i] : i \in DOMAIN s.script}
      OBVIOUS
    <3>2. q \in Seq(M) /\ Len(q) <= f.sent
      <4>1. f.queue \in Seq({s.script[i] : i \in DOMAIN s.script}) /\ Len(f.queue) <= f.sent
        BY <1>6, Zenon DEF QueueOK
      <4> QED
        BY <3>1, <4>1, Zenon
    <3> QED
      BY ONLY <3>1, <3>2
  <2> QED
    BY <1>2, <1>5, <1>7, <2>1 DEF Taken
<1>9. PICK all : all = g.got
  OBVIOUS
<1>10. all \in Seq(S) /\ Len(all) \in Nat /\ DOMAIN all = 1..Len(all)
  <2>1. E[t] \in Seq(S) /\ all = E[t]
    BY ONLY <1>6, <1>7, <1>8, <1>9
  <2> QED
    BY ONLY <2>1
<1>11. cut1 <=> Capped(o, Len(all))
  <2>1. PICK full \in BOOLEAN : full <=> Capped(o, Len(all))
    OBVIOUS
  <2>2. g.cut \in BOOLEAN /\ (g.cut => full) /\ cut1 = (g.cut \/ full)
    <3>1. g.cut \in BOOLEAN
      BY DEF GnCallOK, GnTyped
    <3>2. (g.cut => full) /\ (full <=> Capped(o, Len(g.got)))
      BY <1>6, <1>9, <2>1, Zenon
    <3>3. cut1 = (g.cut \/ full)
      BY ONLY <2>1, <3>1, <3>2, cut1 = (g.cut \/ Capped(o, Len(g.got))), Zenon
    <3> QED
      BY <3>1, <3>2, <3>3, Zenon
  <2> QED
    BY <2>1, <2>2
<1>12. /\ Len(got1) = Len(all) \/ (o.cap > 0 /\ Len(got1) = o.cap)
       /\ Len(got1) <= Len(all) /\ \A i \in DOMAIN got1 : got1[i] = all[i]
       /\ o.cap > 0 => Len(got1) <= o.cap
       /\ cut1 <=> o.cap > 0 /\ Len(got1) = o.cap
       /\ f.error => got1 # <<>>
  <2>1. CASE Capped(o, Len(all))
    <3>1. o.cap \in Nat /\ o.cap > 0 /\ o.cap <= Len(all) /\ got1 = SubSeq(all, 1, o.cap)
      BY <1>9, <1>10, <2>1 DEF Capped
    <3>2. Len(got1) = o.cap /\ DOMAIN got1 = 1..o.cap /\ \A i \in 1..o.cap : got1[i] = all[i]
      BY ONLY <1>10, <3>1
    <3>3. got1 # <<>>
      BY ONLY <3>1, <3>2
    <3> QED
      BY ONLY <1>10, <1>11, <2>1, <3>1, <3>2, <3>3
  <2>2. CASE ~Capped(o, Len(all))
    <3>1. got1 = all /\ ~cut1
      BY <1>9, <1>11, <2>2
    <3>2. ~(o.cap > 0 /\ Len(all) >= o.cap)
      BY <2>2 DEF Capped
    <3>3. f.error => all # <<>>
      BY <1>9
    <3> QED
      BY ONLY o.cap \in Nat, <1>10, <3>1, <3>2, <3>3
  <2> QED
    BY <2>1, <2>2
<1>13. StreamOK(s, o, g1, f)
  <2>1. g1.got = got1 /\ g1.cut = cut1 /\ g1.pc = "over" /\ E[t] = all /\ E = EventsSent(s.script) /\ t = Taken(f)
    BY <1>1, <1>5, <1>6, <1>9, Zenon
  <2>2. /\ Len(g1.got) = Len(EventsSent(s.script)[Taken(f)]) \/ (o.cap > 0 /\ Len(g1.got) = o.cap)
        /\ Len(g1.got) <= Len(EventsSent(s.script)[Taken(f)])
        /\ \A i \in DOMAIN g1.got : g1.got[i] = EventsSent(s.script)[Taken(f)][i]
        /\ o.cap > 0 => Len(g1.got) <= o.cap
        /\ g1.cut <=> o.cap > 0 /\ Len(g1.got) = o.cap
        /\ f.error => g1.got # <<>>
    BY ONLY <1>12, <2>1
  <2> QED
    <3>1. g1.pc \notin {"idle", "open", "send"} /\ g1.pc = "over"
      BY <2>1
    <3> QED
      BY <1>6, <2>2, <3>1, Zenon DEF StreamOK
<1> QED
  BY <1>3, <1>4, <1>13 DEF GnCallOK

\* What one RPC of a read shows: its box and how that box is, or a failure.
AnswerOK(s, o, rev, st, b, r) ==
  \/ st = "ok" /\ b \in DOMAIN s.address /\ r = rev[b] /\ (Sure(s, o) => b = o.dev)
  \/ st = "error" /\ b = "none" /\ r = 0
Entry(path, st, b, r) == [path |-> path, status |-> st, box |-> b, rev |-> r]
Shown(o, m, n, st, b, r) == [i \in 1..n |-> Entry(o.paths[m + i], st, b, r)]
Behind(o, got, n, st, b, r, got1) == got1 = got \o Shown(o, Len(got), n, st, b, r)

Joinable(s, o, rev, got, st, b, r, n, got1) ==
  /\ rev \in [DOMAIN s.address -> Nat] /\ n \in Nat
  /\ IsList(o.paths) /\ EntriesOK(s, o, got, rev) /\ AnswerOK(s, o, rev, st, b, r)
  /\ Len(got) + n <= Len(o.paths) /\ Behind(o, got, n, st, b, r, got1)
JoinedOK(s, o, rev, got, st, r, n, got1) ==
  /\ EntriesOK(s, o, got1, rev) /\ Len(got1) = Len(got) + n
  /\ \A i \in 1..n : got1[Len(got) + i].status = st /\ got1[Len(got) + i].rev = r

\* The entries of one RPC behind those of the earlier ones.
LEMMA Joins ==
  ASSUME NEW s, NEW o, NEW rev, NEW got, NEW st, NEW b, NEW r, NEW n, NEW got1,
         Joinable(s, o, rev, got, st, b, r, n, got1)
  PROVE  JoinedOK(s, o, rev, got, st, r, n, got1)
<1>0. /\ rev \in [DOMAIN s.address -> Nat] /\ n \in Nat
      /\ IsList(o.paths) /\ EntriesOK(s, o, got, rev) /\ AnswerOK(s, o, rev, st, b, r)
      /\ Len(got) + n <= Len(o.paths) /\ Behind(o, got, n, st, b, r, got1)
  BY DEF Joinable
<1>1. PICK E, paths, m, e : /\ E = GnEntries(s, o) /\ paths = o.paths /\ m = Len(got)
                            /\ e = Shown(o, m, n, st, b, r) /\ got1 = got \o e
  BY <1>0 DEF Behind
<1>2. got \in Seq(E) /\ m \in Nat /\ DOMAIN got = 1..m /\ Len(got) = m
  <2>1. got \in Seq(E)
    BY <1>0, <1>1 DEF EntriesOK
  <2> QED
    BY ONLY <1>1, <2>1
<1>3. Len(paths) \in Nat /\ DOMAIN paths = 1..Len(paths) /\ m + n <= Len(paths)
  <2>1. IsList(paths)
    BY <1>0, <1>1
  <2>2. Len(paths) \in Nat /\ DOMAIN paths = 1..Len(paths)
    BY ONLY <2>1 DEF IsList
  <2> QED
    BY <1>0, <1>1, <2>2
<1>4. st \in {"ok", "error"} /\ b \in DOMAIN s.address \cup {"none"} /\ r \in Nat
  BY <1>0 DEF AnswerOK
<1>5. ASSUME NEW i \in 1..n PROVE Entry(paths[m + i], st, b, r) \in E
  <2>1. m + i \in DOMAIN paths
    BY ONLY <1>2, <1>3, <1>0, i \in 1..n
  <2>2. PICK p : p = paths[m + i]
    OBVIOUS
  <2>3. p \in {paths[k] : k \in DOMAIN paths}
    BY <2>1, <2>2
  <2> QED
    BY <1>1, <1>4, <2>2, <2>3 DEF Entry, GnEntries
<1>6. e \in [1..n -> E]
  <2>1. e = [i \in 1..n |-> Entry(paths[m + i], st, b, r)]
    BY <1>1 DEF Shown
  <2> QED
    BY <1>5, <2>1
<1>7. e \in Seq(E) /\ Len(e) = n
  BY ONLY <1>6, <1>0, Tabled
<1>8. /\ got1 \in Seq(E) /\ Len(got1) = m + n
      /\ \A i \in 1..m : got1[i] = got[i]
      /\ \A i \in 1..n : got1[m + i] = e[i]
  <2>1. got1 = got \o e
    BY <1>1
  <2> QED
    <3>1. /\ got1 \in Seq(E) /\ Len(got1) = Len(got) + Len(e)
          /\ \A i \in 1..Len(got) : got1[i] = got[i]
          /\ \A i \in 1..Len(e) : got1[Len(got) + i] = e[i]
      <4>1. got \in Seq(E) /\ e \in Seq(E)
        BY <1>2, <1>7
      <4> QED
        BY ONLY <2>1, <4>1, Joined
    <3> QED
      BY <1>2, <1>7, <3>1, Zenon
<1>9. \A i \in 1..n : got1[m + i] = Entry(paths[m + i], st, b, r)
  <2>1. e = [i \in 1..n |-> Entry(paths[m + i], st, b, r)]
    BY <1>1 DEF Shown
  <2> QED
    BY <1>8, <2>1
<1>10. ASSUME NEW i \in 1..n
       PROVE  /\ got1[m + i].path = paths[m + i] /\ got1[m + i].status = st
              /\ got1[m + i].box = b /\ got1[m + i].rev = r
  <2>1. PICK p, x : p = paths[m + i] /\ x = got1[m + i]
    OBVIOUS
  <2>2. x = Entry(p, st, b, r)
    BY <1>9, <2>1
  <2>3. x.path = p /\ x.status = st /\ x.box = b /\ x.rev = r
    BY ONLY <2>2 DEF Entry
  <2> QED
    BY <2>1, <2>3
<1>11. DOMAIN got1 = 1..(m + n)
  BY ONLY <1>2, <1>8, <1>0
<1>12. \A i \in 1..(m + n) : i \in 1..m \/ \E k \in 1..n : i = m + k
  <2>1. ASSUME NEW i \in 1..(m + n), i \notin 1..m PROVE \E k \in 1..n : i = m + k
    <3>1. i - m \in 1..n /\ i = m + (i - m)
      BY ONLY <1>2, <1>0, <2>1, i \in 1..(m + n)
    <3> QED
      BY <3>1
  <2> QED
    BY <2>1
<1>13. /\ \A i \in 1..m :
            /\ got[i].path = paths[i]
            /\ got[i].status = "ok" => got[i].box \in DOMAIN s.address /\ got[i].rev <= rev[got[i].box]
            /\ got[i].status = "ok" /\ Sure(s, o) => got[i].box = o.dev
            /\ got[i].status # "ok" => got[i].box = "none" /\ got[i].rev = 0
       /\ \A i, j \in 1..m :
            i < j /\ got[i].status = "ok" /\ got[j].status = "ok" /\ got[i].box = got[j].box => got[i].rev <= got[j].rev
  BY <1>0, <1>1, <1>2, Zenon DEF EntriesOK
<1>14. ASSUME NEW i \in 1..(m + n)
       PROVE  /\ got1[i].path = paths[i]
              /\ got1[i].status = "ok" => got1[i].box \in DOMAIN s.address /\ got1[i].rev <= rev[got1[i].box]
              /\ got1[i].status = "ok" /\ Sure(s, o) => got1[i].box = o.dev
              /\ got1[i].status # "ok" => got1[i].box = "none" /\ got1[i].rev = 0
  <2>1. CASE i \in 1..m
    BY <1>8, <1>13, <2>1, Zenon
  <2>2. ASSUME NEW k \in 1..n, i = m + k
        PROVE  /\ got1[i].path = paths[i]
               /\ got1[i].status = "ok" => got1[i].box \in DOMAIN s.address /\ got1[i].rev <= rev[got1[i].box]
               /\ got1[i].status = "ok" /\ Sure(s, o) => got1[i].box = o.dev
               /\ got1[i].status # "ok" => got1[i].box = "none" /\ got1[i].rev = 0
    <3>1. got1[i].path = paths[i] /\ got1[i].status = st /\ got1[i].box = b /\ got1[i].rev = r
      BY <1>10, <2>2
    <3>2. st = "ok" => b \in DOMAIN s.address /\ r <= rev[b]
      BY <1>0 DEF AnswerOK
    <3>3. st = "ok" /\ Sure(s, o) => b = o.dev
      BY <1>0 DEF AnswerOK
    <3>4. st # "ok" => b = "none" /\ r = 0
      BY <1>0 DEF AnswerOK
    <3> QED
      BY ONLY <3>1, <3>2, <3>3, <3>4, Zenon
  <2> QED
    BY <1>12, <2>1, <2>2
<1>15. ASSUME NEW i \in 1..(m + n), NEW j \in 1..(m + n),
              i < j, got1[i].status = "ok", got1[j].status = "ok", got1[i].box = got1[j].box
       PROVE  got1[i].rev <= got1[j].rev
  <2>1. CASE j \in 1..m
    <3>1. i \in 1..m
      BY ONLY <1>2, <1>0, i \in 1..(m + n), i < j, <2>1
    <3> QED
      BY <1>8, <1>13, <1>15, <2>1, <3>1
  <2>2. CASE j \notin 1..m
    <3>1. PICK k \in 1..n : j = m + k
      BY <1>12, <2>2
    <3>2. got1[j].status = st /\ got1[j].box = b /\ got1[j].rev = r
      BY <1>10, <3>1
    <3>3. st = "ok" /\ r = rev[b] /\ r \in Nat
      BY <1>0, <1>4, <1>15, <3>2 DEF AnswerOK
    <3>4. got1[i].rev <= rev[got1[i].box]
      BY <1>14, <1>15
    <3> QED
      BY <1>15, <3>2, <3>3, <3>4
  <2> QED
    BY <2>1, <2>2
<1>16. EntriesOK(s, o, got1, rev)
  <2>1. got1 \in Seq(GnEntries(s, o)) /\ Len(got1) <= Len(o.paths)
    BY <1>1, <1>3, <1>8
  <2>2. \A i, j \in DOMAIN got1 :
          i < j /\ got1[i].status = "ok" /\ got1[j].status = "ok" /\ got1[i].box = got1[j].box => got1[i].rev <= got1[j].rev
    BY <1>11, <1>15
  <2>3. \A i \in DOMAIN got1 :
          /\ got1[i].path = o.paths[i]
          /\ got1[i].status = "ok" => got1[i].box \in DOMAIN s.address /\ got1[i].rev <= rev[got1[i].box]
          /\ got1[i].status = "ok" /\ Sure(s, o) => got1[i].box = o.dev
          /\ got1[i].status # "ok" => got1[i].box = "none" /\ got1[i].rev = 0
    BY <1>1, <1>11, <1>14
  <2> QED
    BY <2>1, <2>2, <2>3, Zenon DEF EntriesOK
<1> QED
  BY <1>1, <1>8, <1>10, <1>16 DEF JoinedOK

\* What a read has after an RPC, and how it goes on.
TookOK(s, o, rev, pc1, got1, v) ==
  /\ EntriesOK(s, o, got1, rev)
  /\ pc1 = "open" => o.tool = "get_many" /\ v = "none" /\ Len(got1) < Len(o.paths)
  /\ o.tool # "get_many" => \A i, j \in DOMAIN got1 : got1[i].rev = got1[j].rev
  /\ v \in {"ok", "error"} =>
       Len(got1) = Len(o.paths) /\ (v = "ok" <=> \E i \in DOMAIN got1 : got1[i].status = "ok")

\* A read that has taken an answer, and goes on with its next path or is over.
LEMMA Reads ==
  ASSUME NEW s, NEW o, NEW g, NEW f, NEW h, NEW rev, NEW pc1 \in {"open", "over"}, NEW got1, NEW v \in GnVerdicts, NEW g1,
         GnCallOK(s, o, g, f, h, rev), g.pc \in {"open", "send"}, o.tool \in GnReads, TookOK(s, o, rev, pc1, got1, v),
         g1 = CallRec(pc1, g.host, got1, g.synced, g.cut, v)
  PROVE  GnCallOK(s, o, g1, f, h, rev)
<1>1. /\ g1.pc = pc1 /\ g1.host = g.host /\ g1.got = got1 /\ g1.synced = g.synced /\ g1.cut = g.cut /\ g1.verdict = v
      /\ g1 = CallRec(g1.pc, g1.host, g1.got, g1.synced, g1.cut, g1.verdict)
  BY DEF CallRec
<1>2. GnTyped(o, s.script, g1, f)
  <2>1. g1.pc # "over" => g1.verdict = "none"
    BY <1>1 DEF TookOK
  <2>2. g1.pc \in GnPcs /\ g1.pc \notin {"stream", "blocked", "last"} /\ g1.verdict \in GnVerdicts
    BY <1>1 DEF GnPcs
  <2> QED
    BY <1>1, <2>1, <2>2 DEF GnCallOK, GnTyped
<1>3. HostOK(s, o, g1)
  BY <1>1 DEF HostOK
<1>4. SetOK(s, o, g1, h)
  BY <1>1 DEF GnCallOK, GnTyped, SetOK, GnReads
<1>5. ReadOK(s, o, g1, rev)
  <2>0. PICK d : d = DOMAIN got1 /\ DOMAIN g1.got = d
    BY <1>1
  <2>1. g1.pc \in {"open", "over"} /\ (g1.pc = "open" => o.tool = "get_many")
    BY <1>1 DEF TookOK
  <2>2. ~(g1.pc = "idle" \/ (o.tool # "get_many" /\ g1.pc # "over"))
    BY <2>1
  <2>3. g1.pc \in {"open", "send"} => Len(g1.got) < Len(o.paths)
    BY <1>1 DEF TookOK
  <2>4. EntriesOK(s, o, g1.got, rev)
    BY <1>1 DEF TookOK
  <2>5. o.tool # "get_many" => \A i, j \in DOMAIN g1.got : g1.got[i].rev = g1.got[j].rev
    <3>1. o.tool # "get_many" => \A i, j \in d : got1[i].rev = got1[j].rev
      BY <2>0 DEF TookOK
    <3> QED
      BY ONLY <1>1, <2>0, <3>1
  <2>6. g1.verdict \in {"ok", "error"} =>
          Len(g1.got) = Len(o.paths) /\ (g1.verdict = "ok" <=> \E i \in DOMAIN g1.got : g1.got[i].status = "ok")
    BY <1>1, Zenon DEF TookOK
  <2> QED
    BY <2>2, <2>3, <2>4, <2>5, <2>6, Zenon DEF ReadOK
<1>6. StreamOK(s, o, g1, f)
  BY DEF StreamOK, GnReads
<1> QED
  BY <1>2, <1>3, <1>4, <1>5, <1>6 DEF GnCallOK

\* The forms in which a read takes an answer.
Takable(s, o, g, rev, st, b, r, got1, v, all, n) ==
  /\ rev \in [DOMAIN s.address -> Nat] /\ v \in {"ok", "error", "connect_error"}
  /\ g.pc \in {"open", "send"} /\ o.tool \in GnReads /\ IsList(o.paths)
  /\ AnswerOK(s, o, rev, st, b, r) /\ (v = "ok" <=> st = "ok")
  /\ n = (IF o.tool = "get_many" THEN 1 ELSE Len(o.paths)) /\ Behind(o, g.got, n, st, b, r, got1)
  /\ all = IF \A i \in DOMAIN got1 : got1[i].status # "ok" THEN "error" ELSE "ok"
TakesTo(o, g, got1, v, all) ==
  IF o.tool # "get_many" THEN CallRec("over", g.host, got1, g.synced, g.cut, v)
  ELSE IF Len(got1) < Len(o.paths) THEN CallRec("open", g.host, got1, g.synced, g.cut, g.verdict)
  ELSE CallRec("over", g.host, got1, g.synced, g.cut, all)

\* A read takes the answer of an RPC, in one of these forms.
LEMMA Takes ==
  ASSUME NEW s, NEW o, NEW g, NEW f, NEW h, NEW rev, NEW st, NEW b, NEW r, NEW got1, NEW v, NEW all, NEW n,
         GnCallOK(s, o, g, f, h, rev), Takable(s, o, g, rev, st, b, r, got1, v, all, n)
  PROVE  GnCallOK(s, o, TakesTo(o, g, got1, v, all), f, h, rev)
<1>0. /\ rev \in [DOMAIN s.address -> Nat] /\ v \in {"ok", "error", "connect_error"}
      /\ g.pc \in {"open", "send"} /\ o.tool \in GnReads /\ IsList(o.paths)
      /\ AnswerOK(s, o, rev, st, b, r) /\ (v = "ok" <=> st = "ok")
      /\ n = (IF o.tool = "get_many" THEN 1 ELSE Len(o.paths)) /\ Behind(o, g.got, n, st, b, r, got1)
      /\ all = IF \A i \in DOMAIN got1 : got1[i].status # "ok" THEN "error" ELSE "ok"
  BY DEF Takable
<1>10. PICK g1 : g1 = TakesTo(o, g, got1, v, all)
  OBVIOUS
<1>1. /\ EntriesOK(s, o, g.got, rev) /\ Len(g.got) < Len(o.paths) /\ g.verdict = "none"
      /\ o.tool # "get_many" => g.got = <<>>
  BY <1>0 DEF GnCallOK, ReadOK, GnTyped
<1>2. PICK m, k : m = Len(g.got) /\ k = Len(o.paths)
  OBVIOUS
<1>3. m \in Nat /\ k \in Nat /\ m < k /\ (o.tool # "get_many" => m = 0)
  <2>1. g.got \in Seq(GnEntries(s, o)) /\ o.paths \in Seq({o.paths[i] : i \in DOMAIN o.paths})
    BY <1>0, <1>1, Zenon DEF EntriesOK, IsList
  <2>2. PICK x, y, X, Y : x = g.got /\ y = o.paths /\ X = GnEntries(s, o) /\ Y = {o.paths[i] : i \in DOMAIN o.paths}
    OBVIOUS
  <2>3. x \in Seq(X) /\ y \in Seq(Y) /\ m = Len(x) /\ k = Len(y)
    BY <1>2, <2>1, <2>2, Zenon
  <2>4. m \in Nat /\ k \in Nat /\ (x = <<>> => m = 0)
    BY ONLY <2>3
  <2> QED
    BY <1>1, <1>2, <2>2, <2>4, Zenon
<1>4. n \in Nat /\ n > 0 /\ m + n <= k /\ (o.tool # "get_many" => n = k)
  <2>1. CASE o.tool = "get_many"
    <3>1. n = 1
      BY <1>0, <2>1
    <3> QED
      BY ONLY <1>3, <2>1, <3>1
  <2>2. CASE o.tool # "get_many"
    <3>1. n = k
      BY <1>0, <1>2, <2>2
    <3> QED
      BY ONLY <1>3, <2>2, <3>1
  <2> QED
    BY <2>1, <2>2
<1>5. /\ EntriesOK(s, o, got1, rev) /\ Len(got1) = m + n
      /\ \A i \in 1..n : got1[m + i].status = st /\ got1[m + i].rev = r
  <2>1. Len(g.got) + n <= Len(o.paths) /\ n \in Nat /\ EntriesOK(s, o, g.got, rev)
    BY <1>1, <1>2, <1>4
  <2>2. /\ EntriesOK(s, o, got1, rev) /\ Len(got1) = Len(g.got) + n
        /\ \A i \in 1..n : got1[Len(g.got) + i].status = st /\ got1[Len(g.got) + i].rev = r
    <3>1. Joinable(s, o, rev, g.got, st, b, r, n, got1)
      BY <1>0, <2>1, Zenon DEF Joinable
    <3>2. JoinedOK(s, o, rev, g.got, st, r, n, got1)
      BY ONLY <3>1, Joins, Zenon
    <3> QED
      BY <3>2, Zenon DEF JoinedOK
  <2> QED
    BY <1>2, <2>2
<1>6. DOMAIN got1 = 1..(m + n)
  <2>1. got1 \in Seq(GnEntries(s, o))
    BY <1>5, Zenon DEF EntriesOK
  <2> QED
    BY ONLY <1>5, <2>1
<1>7. CASE o.tool # "get_many"
  <2>1. m = 0 /\ n = k /\ \A i \in DOMAIN got1 : got1[i].status = st /\ got1[i].rev = r
    <3>1. m = 0 /\ n = k
      BY <1>3, <1>4, <1>7
    <3>2. ASSUME NEW i \in DOMAIN got1 PROVE got1[i].status = st /\ got1[i].rev = r
      <4>1. i \in 1..n /\ m + i = i
        BY ONLY <1>3, <1>4, <1>6, <3>1, i \in DOMAIN got1
      <4> QED
        BY <1>5, <4>1
    <3> QED
      BY <3>1, <3>2
  <2>2. 1 \in DOMAIN got1
    BY ONLY <1>3, <1>4, <1>6, <2>1
  <2>3. \A i, j \in DOMAIN got1 : got1[i].rev = got1[j].rev
    <3>1. \A i \in DOMAIN got1 : got1[i].rev = r
      BY <2>1, Zenon
    <3> QED
      BY ONLY <3>1, Zenon
  <2>4. Len(got1) = Len(o.paths)
    BY ONLY <1>2, <1>3, <1>5, <2>1
  <2>5. st = "ok" <=> \E i \in DOMAIN got1 : got1[i].status = "ok"
    BY <1>0, <2>1, <2>2
  <2>6. g1 = CallRec("over", g.host, got1, g.synced, g.cut, v) /\ v \in GnVerdicts
    BY <1>0, <1>7, <1>10 DEF GnVerdicts, TakesTo
  <2>7. v \in {"ok", "error"} =>
          Len(got1) = Len(o.paths) /\ (v = "ok" <=> \E i \in DOMAIN got1 : got1[i].status = "ok")
    BY <1>0, <2>4, <2>5
  <2> QED
    <3>1. TookOK(s, o, rev, "over", got1, v)
      BY <1>5, <2>3, <2>7, Zenon DEF TookOK
    <3> QED
      BY <1>0, <2>6, <3>1, Reads, <1>10
<1>8. CASE o.tool = "get_many" /\ Len(got1) < Len(o.paths)
  <2>1. g1 = CallRec("open", g.host, got1, g.synced, g.cut, "none") /\ "none" \in GnVerdicts
    BY <1>1, <1>8, <1>10 DEF GnVerdicts, TakesTo
  <2> QED
    <3>1. TookOK(s, o, rev, "open", got1, "none")
      BY <1>5, <1>8, Zenon DEF TookOK
    <3> QED
      BY <1>0, <2>1, <3>1, Reads, <1>10
<1>9. CASE o.tool = "get_many" /\ ~(Len(got1) < Len(o.paths))
  <2>1. g1 = CallRec("over", g.host, got1, g.synced, g.cut, all) /\ all \in GnVerdicts
    BY <1>0, <1>9, <1>10 DEF GnVerdicts, TakesTo
  <2>2. Len(got1) = Len(o.paths)
    <3>1. n = 1 /\ ~(Len(got1) < k)
      BY <1>0, <1>2, <1>9
    <3> QED
      BY ONLY <1>2, <1>3, <1>4, <1>5, <3>1
  <2>3. all = "ok" <=> \E i \in DOMAIN got1 : got1[i].status = "ok"
    BY <1>0
  <2> QED
    <3>1. TookOK(s, o, rev, "over", got1, all)
      BY <1>5, <1>9, <2>2, <2>3, Zenon DEF TookOK
    <3> QED
      BY ONLY <1>0, <2>1, <3>1, Reads, <1>10, GnCallOK(s, o, g, f, h, rev)
<1> QED
  BY <1>7, <1>8, <1>9

\* Boxes change on; nothing that was read of them is undone.
LEMMA RevGrows ==
  ASSUME NEW s, NEW o, NEW g, NEW f, NEW h, NEW rev \in [DOMAIN s.address -> Nat], NEW rev1 \in [DOMAIN s.address -> Nat],
         \A b \in DOMAIN s.address : rev[b] <= rev1[b], GnCallOK(s, o, g, f, h, rev)
  PROVE  GnCallOK(s, o, g, f, h, rev1)
<1>1. ASSUME NEW got, EntriesOK(s, o, got, rev) PROVE EntriesOK(s, o, got, rev1)
  <2>0. PICK P, D : P = {o.paths[i] : i \in DOMAIN o.paths} /\ D = DOMAIN s.address \cup {"none"}
    OBVIOUS
  <2>1. PICK E : E = GnEntries(s, o) /\ E = [path : P, status : {"ok", "error"}, box : D, rev : Nat]
    BY <2>0 DEF GnEntries
  <2>4. \A x \in E : x.rev \in Nat
    BY ONLY <2>1
  <2>2. got \in Seq(E) /\ \A i \in DOMAIN got : got[i] \in E
    <3>1. got \in Seq(E)
      BY <1>1, <2>1, Zenon DEF EntriesOK
    <3> QED
      BY ONLY <3>1
  <2>3. ASSUME NEW i \in DOMAIN got, got[i].status = "ok"
        PROVE  got[i].box \in DOMAIN s.address /\ got[i].rev <= rev1[got[i].box]
    <3>1. got[i].box \in DOMAIN s.address /\ got[i].rev <= rev[got[i].box]
      BY <1>1, <2>3, Zenon DEF EntriesOK
    <3>2. PICK b, r : b = got[i].box /\ r = got[i].rev
      BY <3>1
    <3>3. r \in Nat
      BY <2>4, <2>2, <3>2
    <3>4. r <= rev[b] /\ rev[b] <= rev1[b] /\ rev[b] \in Nat /\ rev1[b] \in Nat
      BY <3>1, <3>2
    <3>5. PICK y, z : y = rev[b] /\ z = rev1[b]
      OBVIOUS
    <3>6. r <= z
      BY ONLY <3>3, <3>4, <3>5
    <3> QED
      BY <3>1, <3>2, <3>5, <3>6, Zenon
  <2> QED
    BY <1>1, <2>3, Zenon DEF EntriesOK
<1> QED
  BY <1>1, Zenon DEF GnCallOK, ReadOK

\* A call moves on.
LEMMA SetPc ==
  ASSUME NEW g, g = CallRec(g.pc, g.host, g.got, g.synced, g.cut, g.verdict), NEW pc
  PROVE  [g EXCEPT !.pc = pc] = CallRec(pc, g.host, g.got, g.synced, g.cut, g.verdict)
BY DEF CallRec

\* A call ends.
LEMMA SetPcVerdict ==
  ASSUME NEW g, g = CallRec(g.pc, g.host, g.got, g.synced, g.cut, g.verdict), NEW pc, NEW verdict
  PROVE  [g EXCEPT !.pc = pc, !.verdict = verdict] = CallRec(pc, g.host, g.got, g.synced, g.cut, verdict)
<1>1. PICK q1 : q1 = [g EXCEPT !.pc = pc]
  OBVIOUS
<1>2. q1 = CallRec(pc, g.host, g.got, g.synced, g.cut, g.verdict)
  BY <1>1 DEF CallRec
<1>3. PICK q2 : q2 = [q1 EXCEPT !.verdict = verdict]
  OBVIOUS
<1>4. q2 = CallRec(pc, g.host, g.got, g.synced, g.cut, verdict)
  BY <1>3, <1>2 DEF CallRec
<1> QED
  BY <1>1, <1>2, <1>3, <1>4

\* A call has an address.
LEMMA SetPcHost ==
  ASSUME NEW g, g = CallRec(g.pc, g.host, g.got, g.synced, g.cut, g.verdict), NEW pc, NEW host
  PROVE  [g EXCEPT !.pc = pc, !.host = host] = CallRec(pc, host, g.got, g.synced, g.cut, g.verdict)
<1>1. PICK q1 : q1 = [g EXCEPT !.pc = pc]
  OBVIOUS
<1>2. q1 = CallRec(pc, g.host, g.got, g.synced, g.cut, g.verdict)
  BY <1>1 DEF CallRec
<1>3. PICK q2 : q2 = [q1 EXCEPT !.host = host]
  OBVIOUS
<1>4. q2 = CallRec(pc, host, g.got, g.synced, g.cut, g.verdict)
  BY <1>3, <1>2 DEF CallRec
<1> QED
  BY <1>1, <1>2, <1>3, <1>4

\* A call has something, and moves on.
LEMMA SetPcGot ==
  ASSUME NEW g, g = CallRec(g.pc, g.host, g.got, g.synced, g.cut, g.verdict), NEW pc, NEW got
  PROVE  [g EXCEPT !.pc = pc, !.got = got] = CallRec(pc, g.host, got, g.synced, g.cut, g.verdict)
<1>1. PICK q1 : q1 = [g EXCEPT !.pc = pc]
  OBVIOUS
<1>2. q1 = CallRec(pc, g.host, g.got, g.synced, g.cut, g.verdict)
  BY <1>1 DEF CallRec
<1>3. PICK q2 : q2 = [q1 EXCEPT !.got = got]
  OBVIOUS
<1>4. q2 = CallRec(pc, g.host, got, g.synced, g.cut, g.verdict)
  BY <1>3, <1>2 DEF CallRec
<1> QED
  BY <1>1, <1>2, <1>3, <1>4

\* A call is cut short.
LEMMA SetPcCut ==
  ASSUME NEW g, g = CallRec(g.pc, g.host, g.got, g.synced, g.cut, g.verdict), NEW pc, NEW cut
  PROVE  [g EXCEPT !.pc = pc, !.cut = cut] = CallRec(pc, g.host, g.got, g.synced, cut, g.verdict)
<1>1. PICK q1 : q1 = [g EXCEPT !.pc = pc]
  OBVIOUS
<1>2. q1 = CallRec(pc, g.host, g.got, g.synced, g.cut, g.verdict)
  BY <1>1 DEF CallRec
<1>3. PICK q2 : q2 = [q1 EXCEPT !.cut = cut]
  OBVIOUS
<1>4. q2 = CallRec(pc, g.host, g.got, g.synced, cut, g.verdict)
  BY <1>3, <1>2 DEF CallRec
<1> QED
  BY <1>1, <1>2, <1>3, <1>4

\* A call has an answer.
LEMMA SetGot ==
  ASSUME NEW g, g = CallRec(g.pc, g.host, g.got, g.synced, g.cut, g.verdict), NEW got
  PROVE  [g EXCEPT !.got = got] = CallRec(g.pc, g.host, got, g.synced, g.cut, g.verdict)
BY DEF CallRec

\* A call has an answer, or the first of it.
LEMMA SetGotCut ==
  ASSUME NEW g, g = CallRec(g.pc, g.host, g.got, g.synced, g.cut, g.verdict), NEW got, NEW cut
  PROVE  [g EXCEPT !.got = got, !.cut = cut] = CallRec(g.pc, g.host, got, g.synced, cut, g.verdict)
<1>1. PICK q1 : q1 = [g EXCEPT !.got = got]
  OBVIOUS
<1>2. q1 = CallRec(g.pc, g.host, got, g.synced, g.cut, g.verdict)
  BY <1>1 DEF CallRec
<1>3. PICK q2 : q2 = [q1 EXCEPT !.cut = cut]
  OBVIOUS
<1>4. q2 = CallRec(g.pc, g.host, got, g.synced, cut, g.verdict)
  BY <1>3, <1>2 DEF CallRec
<1> QED
  BY <1>1, <1>2, <1>3, <1>4

\* A call has taken a message.
SyncedGot(g, pc, synced, got) == [g EXCEPT !.pc = pc, !.synced = synced, !.got = got]

\* The message is taken.
LEMMA SetPcSyncedGot ==
  ASSUME NEW g, g = CallRec(g.pc, g.host, g.got, g.synced, g.cut, g.verdict), NEW pc, NEW synced, NEW got
  PROVE  SyncedGot(g, pc, synced, got) = CallRec(pc, g.host, got, synced, g.cut, g.verdict)
<1>1. PICK q1 : q1 = [g EXCEPT !.pc = pc]
  OBVIOUS
<1>2. q1 = CallRec(pc, g.host, g.got, g.synced, g.cut, g.verdict)
  BY <1>1 DEF CallRec
<1>3. PICK q2 : q2 = [q1 EXCEPT !.synced = synced]
  OBVIOUS
<1>4. q2 = CallRec(pc, g.host, g.got, synced, g.cut, g.verdict)
  BY <1>3, <1>2 DEF CallRec
<1>5. PICK q3 : q3 = [q2 EXCEPT !.got = got]
  OBVIOUS
<1>6. q3 = CallRec(pc, g.host, got, synced, g.cut, g.verdict)
  BY <1>5, <1>4 DEF CallRec
<1> QED
  BY <1>1, <1>2, <1>3, <1>4, <1>5, <1>6 DEF SyncedGot

\* A feed has a message more.
LEMMA FeedSentQueue ==
  ASSUME NEW f, f = FeedRec(f.sent, f.queue, f.error, f.late), NEW sent, NEW queue
  PROVE  [f EXCEPT !.sent = sent, !.queue = queue] = FeedRec(sent, queue, f.error, f.late)
<1>1. PICK q1 : q1 = [f EXCEPT !.sent = sent]
  OBVIOUS
<1>2. q1 = FeedRec(sent, f.queue, f.error, f.late)
  BY <1>1 DEF FeedRec
<1>3. PICK q2 : q2 = [q1 EXCEPT !.queue = queue]
  OBVIOUS
<1>4. q2 = FeedRec(sent, queue, f.error, f.late)
  BY <1>3, <1>2 DEF FeedRec
<1> QED
  BY <1>1, <1>2, <1>3, <1>4

\* A feed has a message less.
LEMMA FeedQueue ==
  ASSUME NEW f, f = FeedRec(f.sent, f.queue, f.error, f.late), NEW queue
  PROVE  [f EXCEPT !.queue = queue] = FeedRec(f.sent, queue, f.error, f.late)
BY DEF FeedRec

\* A feed fails.
LEMMA FeedError ==
  ASSUME NEW f, f = FeedRec(f.sent, f.queue, f.error, f.late), NEW error
  PROVE  [f EXCEPT !.error = error] = FeedRec(f.sent, f.queue, error, f.late)
BY DEF FeedRec

\* A feed is late.
LEMMA FeedLate ==
  ASSUME NEW f, f = FeedRec(f.sent, f.queue, f.error, f.late), NEW late
  PROVE  [f EXCEPT !.late = late] = FeedRec(f.sent, f.queue, f.error, late)
BY DEF FeedRec

\* Everything but one place stays.
Only(F, F1, c, x) == DOMAIN F1 = DOMAIN F /\ F1[c] = x /\ \A d \in DOMAIN F : d # c => F1[d] = F[d]

\* So it is when one place is changed, and when nothing is.
LEMMA OnlyOne ==
  ASSUME NEW F, NEW c \in DOMAIN F, NEW x
  PROVE  Only(F, [F EXCEPT ![c] = x], c, x) /\ Only(F, F, c, F[c])
BY DEF Only

\* Boxes only change on.
Grows(s, rev, rev1) ==
  /\ rev \in [DOMAIN s.address -> Nat] /\ rev1 \in [DOMAIN s.address -> Nat]
  /\ \A b \in DOMAIN s.address : rev[b] <= rev1[b]

\* Calls stay as they should be.
LEMMA Grown ==
  ASSUME NEW s, NEW o, NEW g, NEW f, NEW h, NEW rev, NEW rev1, Grows(s, rev, rev1), GnCallOK(s, o, g, f, h, rev)
  PROVE  GnCallOK(s, o, g, f, h, rev1)
BY RevGrows DEF Grows

\* A step of one call.
LEMMA OneCall ==
  ASSUME NEW c \in DOMAIN gnCall, NEW g1, NEW f1, NEW h1, GnInv, NetStays, Grows(gnSetting, gnRev, gnRev'),
         Only(gnCall, gnCall', c, g1), Only(feed, feed', c, f1), Only(gnHits, gnHits', c, h1),
         GnCallOK(gnSetting, gnSetting.orders[c], g1, f1, h1, gnRev')
  PROVE  GnInv'
<1>1. PICK s, C, F, H, rev1 : s = gnSetting /\ C = gnCall' /\ F = feed' /\ H = gnHits' /\ rev1 = gnRev'
  OBVIOUS
<1>2. gnSetting' = s /\ gnAddress' = gnAddress /\ gnSetting' \in GnSettings
  BY <1>1 DEF NetStays, GnInv
<1>3. GnBoxes(s, gnAddress, rev1)
  BY <1>1 DEF GnInv, GnBoxes, Grows
<1>4. {DOMAIN C, DOMAIN F, DOMAIN H} = {DOMAIN s.orders}
  BY <1>1 DEF GnInv, Only
<1>5. ASSUME NEW d \in DOMAIN C PROVE GnCallOK(s, s.orders[d], C[d], F[d], H[d], rev1)
  <2>1. d \in DOMAIN gnCall /\ d \in DOMAIN feed /\ d \in DOMAIN gnHits
    BY <1>1 DEF GnInv, Only
  <2>2. CASE d = c
    <3>1. C[c] = g1 /\ F[c] = f1 /\ H[c] = h1
      BY <1>1 DEF Only
    <3>2. GnCallOK(s, s.orders[c], g1, f1, h1, rev1)
      BY <1>1
    <3> QED
      BY <2>2, <3>1, <3>2
  <2>3. CASE d # c
    <3>1. C[d] = gnCall[d] /\ F[d] = feed[d] /\ H[d] = gnHits[d]
      BY <1>1, <2>1, <2>3 DEF Only
    <3>2. GnCallOK(s, s.orders[d], gnCall[d], feed[d], gnHits[d], gnRev)
      BY <1>1, <2>1 DEF GnInv
    <3>3. Grows(s, gnRev, rev1)
      BY <1>1
    <3>4. GnCallOK(s, s.orders[d], gnCall[d], feed[d], gnHits[d], rev1)
      BY <3>2, <3>3, Grown
    <3> QED
      BY <3>1, <3>4
  <2> QED
    BY <2>2, <2>3
<1> QED
  BY <1>1, <1>2, <1>3, <1>4, <1>5 DEF GnInv

\* What is known of a call and of its setting.
GnGood(s, o) ==
  /\ o.dev \in DOMAIN s.address /\ IsList(o.paths) /\ o.cap \in Nat /\ ScriptOK(s.script)
  /\ \A m, n \in DOMAIN s.address : s.address[m] = s.address[n] => m = n

\* It follows from the invariant.
LEMMA Settled ==
  ASSUME GnInv, NEW c \in DOMAIN gnCall
  PROVE  /\ GnGood(gnSetting, gnSetting.orders[c])
         /\ GnBoxes(gnSetting, gnAddress, gnRev) /\ Grows(gnSetting, gnRev, gnRev)
         /\ c \in DOMAIN feed /\ c \in DOMAIN gnHits
         /\ GnCallOK(gnSetting, gnSetting.orders[c], gnCall[c], feed[c], gnHits[c], gnRev)
         /\ gnCall[c] = CallRec(gnCall[c].pc, gnCall[c].host, gnCall[c].got, gnCall[c].synced, gnCall[c].cut, gnCall[c].verdict)
         /\ feed[c] = FeedRec(feed[c].sent, feed[c].queue, feed[c].error, feed[c].late)
<1>1. gnSetting \in GnSettings /\ c \in DOMAIN gnSetting.orders /\ c \in DOMAIN feed /\ c \in DOMAIN gnHits
  BY DEF GnInv
<1>2. GnGood(gnSetting, gnSetting.orders[c])
  <2>1. PICK s : s = gnSetting /\ s \in GnSettings /\ c \in DOMAIN s.orders
    BY <1>1
  <2>2. GnGood(s, s.orders[c])
    BY <2>1, GnAssumption, Zenon DEF GnSettingsOK, GnGood, ScriptOK
  <2> QED
    BY <2>1, <2>2
<1>3. GnCallOK(gnSetting, gnSetting.orders[c], gnCall[c], feed[c], gnHits[c], gnRev) /\ GnBoxes(gnSetting, gnAddress, gnRev)
  BY DEF GnInv
<1>4. Grows(gnSetting, gnRev, gnRev)
  <2>1. gnRev \in [DOMAIN gnSetting.address -> Nat]
    BY <1>3 DEF GnBoxes
  <2>2. \A b \in DOMAIN gnSetting.address : gnRev[b] \in Nat /\ gnRev[b] <= gnRev[b]
    BY <2>1
  <2> QED
    BY <2>1, <2>2 DEF Grows
<1> QED
  BY <1>1, <1>2, <1>3, <1>4 DEF GnCallOK, GnTyped

\* A step that changes only the call.
LEMMA CallMoved ==
  ASSUME GnInv, NEW c \in DOMAIN gnCall, NEW g1, GnMoves(c, g1), UNCHANGED <<gnRev, feed, gnHits>>, NetStays,
         GnCallOK(gnSetting, gnSetting.orders[c], g1, feed[c], gnHits[c], gnRev)
  PROVE  GnInv'
<1>1. c \in DOMAIN feed /\ c \in DOMAIN gnHits /\ Grows(gnSetting, gnRev, gnRev)
  BY Settled
<1>2. Only(gnCall, gnCall', c, g1) /\ Only(feed, feed', c, feed[c]) /\ Only(gnHits, gnHits', c, gnHits[c])
  BY <1>1, OnlyOne DEF GnMoves
<1>3. Grows(gnSetting, gnRev, gnRev') /\ GnCallOK(gnSetting, gnSetting.orders[c], g1, feed[c], gnHits[c], gnRev')
  BY <1>1
<1> QED
  BY <1>2, <1>3, OneCall

\* A step that changes only the feed.
LEMMA FeedMoved ==
  ASSUME GnInv, NEW c \in DOMAIN gnCall, NEW f1, feed' = [feed EXCEPT ![c] = f1], UNCHANGED <<gnRev, gnCall, gnHits>>, NetStays,
         GnCallOK(gnSetting, gnSetting.orders[c], gnCall[c], f1, gnHits[c], gnRev)
  PROVE  GnInv'
<1>1. c \in DOMAIN feed /\ c \in DOMAIN gnHits /\ Grows(gnSetting, gnRev, gnRev)
  BY Settled
<1>2. Only(gnCall, gnCall', c, gnCall[c]) /\ Only(feed, feed', c, f1) /\ Only(gnHits, gnHits', c, gnHits[c])
  BY <1>1, OnlyOne
<1>3. Grows(gnSetting, gnRev, gnRev') /\ GnCallOK(gnSetting, gnSetting.orders[c], gnCall[c], f1, gnHits[c], gnRev')
  BY <1>1
<1> QED
  BY <1>2, <1>3, OneCall

\* A call that stops.
LEMMA OverIs ==
  ASSUME GnInv, NEW c \in DOMAIN gnCall, NEW v
  PROVE  GnOver(c, v) = CallRec("over", gnCall[c].host, gnCall[c].got, gnCall[c].synced, gnCall[c].cut, v)
<1>1. PICK g, over : g = gnCall[c] /\ over = "over"
  OBVIOUS
<1>2. g = CallRec(g.pc, g.host, g.got, g.synced, g.cut, g.verdict)
  BY <1>1, Settled
<1>3. [g EXCEPT !.pc = over, !.verdict = v] = CallRec(over, g.host, g.got, g.synced, g.cut, v)
  BY <1>2, SetPcVerdict
<1> QED
  BY <1>1, <1>3 DEF GnOver

\* A call that moves on.
LEMMA MovesTo ==
  ASSUME GnInv, NEW c \in DOMAIN gnCall, NEW pc
  PROVE  [gnCall[c] EXCEPT !.pc = pc] =
           CallRec(pc, gnCall[c].host, gnCall[c].got, gnCall[c].synced, gnCall[c].cut, gnCall[c].verdict)
<1>1. PICK g : g = gnCall[c]
  OBVIOUS
<1>2. g = CallRec(g.pc, g.host, g.got, g.synced, g.cut, g.verdict)
  BY <1>1, Settled
<1>3. [g EXCEPT !.pc = pc] = CallRec(pc, g.host, g.got, g.synced, g.cut, g.verdict)
  BY <1>2, SetPc
<1> QED
  BY <1>1, <1>3

\* A call that stops without an answer of its own.
LEMMA EndsHere ==
  ASSUME GnInv, NEW c \in DOMAIN gnCall, NEW v \in GnVerdicts, gnCall[c].pc # "over", v # "ok",
         Wants(c).tool \in GnReads => v # "error"
  PROVE  GnCallOK(gnSetting, gnSetting.orders[c], GnOver(c, v), feed[c], gnHits[c], gnRev)
<1>1. PICK s, o, g, f, h, rev : /\ s = gnSetting /\ o = gnSetting.orders[c] /\ g = gnCall[c] /\ f = feed[c]
                                /\ h = gnHits[c] /\ rev = gnRev
  OBVIOUS
<1>2. GnCallOK(s, o, g, f, h, rev)
  BY <1>1, Settled
<1>3. PICK g1 : g1 = GnOver(c, v)
  OBVIOUS
<1>4. g1 = CallRec("over", g.host, g.got, g.synced, g.cut, v)
  BY <1>1, <1>3, OverIs
<1>5. g.pc # "over" /\ (o.tool \in GnReads => g.got = g.got /\ v \notin {"ok", "error"}) /\ (v = "ok" => o.tool = "capabilities")
  BY <1>1 DEF Wants
<1>6. GnCallOK(s, o, g1, f, h, rev)
  BY ONLY <1>2, <1>4, <1>5, v \in GnVerdicts, Ends
<1> QED
  BY <1>1, <1>3, <1>6

\* The checks of a call.
LEMMA CheckStep ==
  ASSUME GnInv, NEW c \in DOMAIN gnCall, Check(c)
  PROVE  GnInv'
<1>1. PICK s, o, g, f, h, rev : /\ s = gnSetting /\ o = gnSetting.orders[c] /\ g = gnCall[c] /\ f = feed[c]
                                /\ h = gnHits[c] /\ rev = gnRev
  OBVIOUS
<1>2. GnCallOK(s, o, g, f, h, rev) /\ IsList(o.paths) /\ g.pc = "idle" /\ g.pc # "over"
  BY <1>1, Settled DEF GnGood, Check
<1>3. PICK g1 : g1 = IF o.tool = "set" THEN SetChecked(c) ELSE ReadChecked(c)
  OBVIOUS
<1>4. \/ g1 = GnOver(c, "refused") \/ g1 = GnOver(c, "dry_run")
      \/ /\ g1 = [gnCall[c] EXCEPT !.pc = "open"] /\ (o.tool = "set" => o.confirm)
         /\ o.tool # "capabilities" => o.paths # <<>>
  BY <1>1, <1>3, Zenon DEF SetChecked, ReadChecked, HasOperation, Wants
<1>5. GnCallOK(s, o, g1, f, h, rev)
  <2>1. CASE g1 = GnOver(c, "refused")
    BY <1>1, <1>2, <2>1, EndsHere DEF GnVerdicts
  <2>2. CASE g1 = GnOver(c, "dry_run")
    BY <1>1, <1>2, <2>2, EndsHere DEF GnVerdicts
  <2>3. CASE /\ g1 = [gnCall[c] EXCEPT !.pc = "open"] /\ (o.tool = "set" => o.confirm)
             /\ o.tool # "capabilities" => o.paths # <<>>
    <3>1. g1 = CallRec("open", g.host, g.got, g.synced, g.cut, g.verdict)
      BY <1>1, <2>3, MovesTo
    <3> QED
      BY ONLY <1>2, <2>3, <3>1, ToOpen
  <2> QED
    BY <1>4, <2>1, <2>2, <2>3
<1>6. GnMoves(c, g1) /\ UNCHANGED <<gnRev, feed, gnHits>> /\ NetStays
  BY <1>1, <1>3 DEF Check, Wants
<1> QED
  BY <1>1, <1>5, <1>6, CallMoved

\* The entries of the Get under way, in the lemmas' form.
LEMMA NowIs ==
  ASSUME GnInv, NEW c \in DOMAIN gnCall, Wants(c).tool \in GnReads, gnCall[c].pc \in {"open", "send"},
         NEW st, NEW b, NEW r, NEW n, n = IF Wants(c).tool = "get_many" THEN 1 ELSE Len(gnSetting.orders[c].paths),
         NEW e, e = [i \in DOMAIN Now(c) |-> [path |-> Now(c)[i], status |-> st, box |-> b, rev |-> r]]
  PROVE  e = Shown(gnSetting.orders[c], Len(gnCall[c].got), n, st, b, r)
<1>1. PICK o, g, paths, now, m : /\ o = gnSetting.orders[c] /\ g = gnCall[c] /\ paths = o.paths /\ now = Now(c)
                                 /\ m = Len(g.got)
  OBVIOUS
<1>2. IsList(paths) /\ (o.tool # "get_many" => g.got = <<>>)
  BY <1>1, Settled DEF GnGood, GnCallOK, ReadOK, Wants
<1>3. CASE o.tool = "get_many"
  <2>1. now = <<paths[m + 1]>>
    BY <1>1, <1>3 DEF Now, Wants
  <2>2. DOMAIN now = 1..1 /\ \A i \in 1..1 : now[i] = paths[m + i]
    BY ONLY <2>1
  <2>3. [i \in DOMAIN now |-> [path |-> now[i], status |-> st, box |-> b, rev |-> r]] = Shown(o, m, 1, st, b, r)
    BY <1>1, <2>2 DEF Shown, Entry
  <2> QED
    BY <1>1, <1>3, <2>3 DEF Wants
<1>4. CASE o.tool # "get_many"
  <2>1. now = paths /\ m = 0
    BY <1>1, <1>2, <1>4 DEF Now, Wants
  <2>2. DOMAIN now = 1..Len(paths) /\ Len(paths) \in Nat
    BY ONLY <1>2, <2>1 DEF IsList
  <2>3. \A i \in 1..Len(paths) : now[i] = paths[m + i]
    BY ONLY <2>1
  <2>4. [i \in DOMAIN now |-> [path |-> now[i], status |-> st, box |-> b, rev |-> r]] = Shown(o, m, Len(paths), st, b, r)
    BY <1>1, <2>2, <2>3 DEF Shown, Entry
  <2> QED
    BY <1>1, <1>4, <2>4 DEF Wants
<1> QED
  BY <1>3, <1>4

\* A read takes the answer of an RPC.
LEMMA TookStep ==
  ASSUME GnInv, NEW c \in DOMAIN gnCall, Wants(c).tool \in GnReads, gnCall[c].pc \in {"open", "send"},
         NEW st, NEW b, NEW r, NEW v \in {"ok", "error", "connect_error"}, (v = "ok") <=> (st = "ok"),
         AnswerOK(gnSetting, gnSetting.orders[c], gnRev, st, b, r), NEW e,
         e = [i \in DOMAIN Now(c) |-> [path |-> Now(c)[i], status |-> st, box |-> b, rev |-> r]]
  PROVE  GnCallOK(gnSetting, gnSetting.orders[c], Took(c, e, v), feed[c], gnHits[c], gnRev)
<1>1. PICK s, o, g, f, h, rev : /\ s = gnSetting /\ o = gnSetting.orders[c] /\ g = gnCall[c] /\ f = feed[c]
                                /\ h = gnHits[c] /\ rev = gnRev
  OBVIOUS
<1>2. /\ GnCallOK(s, o, g, f, h, rev) /\ IsList(o.paths) /\ rev \in [DOMAIN s.address -> Nat]
      /\ g = CallRec(g.pc, g.host, g.got, g.synced, g.cut, g.verdict)
      /\ AnswerOK(s, o, rev, st, b, r) /\ o.tool \in GnReads /\ g.pc \in {"open", "send"}
  BY <1>1, Settled DEF GnGood, GnBoxes, Wants
<1>3. PICK n, got1 : n = (IF o.tool = "get_many" THEN 1 ELSE Len(o.paths)) /\ got1 = g.got \o e
  OBVIOUS
<1>4. e = Shown(o, Len(g.got), n, st, b, r)
  <2>1. n = IF Wants(c).tool = "get_many" THEN 1 ELSE Len(gnSetting.orders[c].paths)
    BY <1>1, <1>3 DEF Wants
  <2>2. e = Shown(gnSetting.orders[c], Len(gnCall[c].got), n, st, b, r)
    BY <2>1, NowIs
  <2> QED
    BY <1>1, <2>2
<1>5. Behind(o, g.got, n, st, b, r, got1)
  BY <1>3, <1>4 DEF Behind
<1>6. PICK all : all = IF \A i \in DOMAIN got1 : got1[i].status # "ok" THEN "error" ELSE "ok"
  OBVIOUS
<1>7. PICK g1 : g1 = Took(c, e, v)
  OBVIOUS
<1>8. g1 = TakesTo(o, g, got1, v, all)
  <2>1. CASE o.tool # "get_many"
    <3>1. PICK x : x = GnOver(c, v)
      OBVIOUS
    <3>2. x = CallRec("over", g.host, g.got, g.synced, g.cut, v)
      BY <1>1, <3>1, OverIs
    <3>3. x.pc = "over" /\ x.host = g.host /\ x.synced = g.synced /\ x.cut = g.cut /\ x.verdict = v
      BY ONLY <3>2 DEF CallRec
    <3>4. x = CallRec(x.pc, x.host, x.got, x.synced, x.cut, x.verdict)
      BY ONLY <3>2 DEF CallRec
    <3>5. [x EXCEPT !.got = e] = CallRec("over", g.host, e, g.synced, g.cut, v)
      BY <3>3, <3>4, SetGot
    <3>6. got1 = e
      <4>1. g.got = <<>>
        BY <1>2, <2>1 DEF GnCallOK, ReadOK
      <4>2. e \in [1..n -> {e[i] : i \in 1..n}] /\ n \in Nat
        <5>1. n \in Nat
          BY <1>2, <1>3, <2>1 DEF IsList
        <5> QED
          BY <1>4, <5>1 DEF Shown
      <4>3. e \in Seq({e[i] : i \in 1..n})
        BY ONLY <4>2, Tabled
      <4>4. <<>> \o e = e
        BY ONLY <4>3
      <4> QED
        BY <1>3, <4>1, <4>4
    <3>7. g1 = [x EXCEPT !.got = e]
      BY <1>1, <1>7, <2>1, <3>1 DEF Took, Wants
    <3> QED
      BY <2>1, <3>5, <3>6, <3>7 DEF TakesTo
  <2>2. CASE o.tool = "get_many" /\ Len(got1) < Len(o.paths)
    <3>1. PICK open : open = "open"
      OBVIOUS
    <3>2. [g EXCEPT !.pc = open, !.got = got1] = CallRec(open, g.host, got1, g.synced, g.cut, g.verdict)
      BY <1>2, SetPcGot
    <3>3. g1 = [g EXCEPT !.pc = open, !.got = got1]
      BY <1>1, <1>3, <1>7, <2>2, <3>1 DEF Took, TookNext, Wants
    <3> QED
      BY <2>2, <3>1, <3>2, <3>3 DEF TakesTo
  <2>3. CASE o.tool = "get_many" /\ ~(Len(got1) < Len(o.paths))
    <3>1. PICK x : x = GnOver(c, all)
      OBVIOUS
    <3>2. x = CallRec("over", g.host, g.got, g.synced, g.cut, all)
      BY <1>1, <3>1, OverIs
    <3>3. x.pc = "over" /\ x.host = g.host /\ x.synced = g.synced /\ x.cut = g.cut /\ x.verdict = all
      BY ONLY <3>2 DEF CallRec
    <3>4. x = CallRec(x.pc, x.host, x.got, x.synced, x.cut, x.verdict)
      BY ONLY <3>2 DEF CallRec
    <3>5. [x EXCEPT !.got = got1] = CallRec("over", g.host, got1, g.synced, g.cut, all)
      BY <3>3, <3>4, SetGot
    <3>6. g1 = [x EXCEPT !.got = got1]
      BY <1>1, <1>3, <1>6, <1>7, <2>3, <3>1 DEF Took, TookNext, Wants
    <3> QED
      BY <2>3, <3>5, <3>6 DEF TakesTo
  <2> QED
    BY <2>1, <2>2, <2>3
<1>9. GnCallOK(s, o, g1, f, h, rev)
  <2>1. Takable(s, o, g, rev, st, b, r, got1, v, all, n)
    BY <1>2, <1>3, <1>5, <1>6, Zenon DEF Takable
  <2>2. GnCallOK(s, o, TakesTo(o, g, got1, v, all), f, h, rev)
    BY ONLY <1>2, <2>1, Takes, Zenon
  <2> QED
    BY ONLY <1>8, <2>2
<1> QED
  BY <1>1, <1>7, <1>9

\* Who answers is a box, and a call's own device if it is sure of its address.
LEMMA BoxIs ==
  ASSUME GnInv, NEW c \in DOMAIN gnCall, gnCall[c].pc = "send", NEW b \in BoxHas(gnCall[c].host)
  PROVE  b \in DOMAIN gnSetting.address /\ (Sure(gnSetting, gnSetting.orders[c]) => b = gnSetting.orders[c].dev)
<1>1. PICK s, o, g, A : s = gnSetting /\ o = gnSetting.orders[c] /\ g = gnCall[c] /\ A = gnAddress
  OBVIOUS
<1>2. /\ DOMAIN A = DOMAIN s.address /\ (s.swaps = 0 => A = s.address) /\ HostOK(s, o, g)
      /\ o.dev \in DOMAIN s.address /\ \A m, n \in DOMAIN s.address : s.address[m] = s.address[n] => m = n
  BY <1>1, Settled DEF GnBoxes, GnGood, GnCallOK
<1>3. b \in DOMAIN s.address /\ A[b] = g.host /\ g.pc = "send"
  BY <1>1, <1>2 DEF BoxHas
<1>4. ASSUME Sure(s, o) PROVE b = o.dev
  <2>1. A = s.address /\ g.host = s.address[o.dev]
    BY <1>2, <1>3, <1>4 DEF Sure, HostOK
  <2> QED
    BY <1>2, <1>3, <2>1
<1> QED
  BY <1>1, <1>3, <1>4

\* A call opens its client.
LEMMA OpenStep ==
  ASSUME GnInv, NEW c \in DOMAIN gnCall, Open(c)
  PROVE  GnInv'
<1>1. PICK s, o, g, f, h, rev : /\ s = gnSetting /\ o = gnSetting.orders[c] /\ g = gnCall[c] /\ f = feed[c]
                                /\ h = gnHits[c] /\ rev = gnRev
  OBVIOUS
<1>2. /\ GnCallOK(s, o, g, f, h, rev) /\ g.pc = "open" /\ g.pc # "over"
      /\ g = CallRec(g.pc, g.host, g.got, g.synced, g.cut, g.verdict)
      /\ s.swaps = 0 => gnAddress = s.address
  BY <1>1, Settled DEF GnBoxes, Open
<1>3. UNCHANGED <<gnRev, feed, gnHits>> /\ NetStays
  BY DEF Open
<1>4. CASE GnMoves(c, [gnCall[c] EXCEPT !.pc = "send", !.host =
             IF Wants(c).verify THEN gnAddress[Wants(c).dev] ELSE gnSetting.cached[Wants(c).dev]])
  <2>1. PICK host, send, g1 :
          /\ host = IF o.verify THEN gnAddress[o.dev] ELSE s.cached[o.dev]
          /\ send = "send" /\ g1 = [g EXCEPT !.pc = send, !.host = host]
    OBVIOUS
  <2>2. g1 = CallRec(send, host, g.got, g.synced, g.cut, g.verdict)
    BY <1>2, <2>1, SetPcHost
  <2>3. GnMoves(c, g1)
    BY <1>1, <1>4, <2>1 DEF Wants
  <2>4. Sure(s, o) => host = s.address[o.dev]
    BY <1>2, <2>1 DEF Sure
  <2>5. GnCallOK(s, o, g1, f, h, rev)
    BY ONLY <1>2, <2>1, <2>2, <2>4, ToSend
  <2> QED
    BY <1>1, <1>3, <2>3, <2>5, CallMoved
<1>5. CASE Wants(c).tool \in GnReads /\ GnMoves(c, Took(c, Failed(c), "connect_error"))
  <2>1. PICK e : e = Failed(c)
    OBVIOUS
  <2>2. e = [i \in DOMAIN Now(c) |-> [path |-> Now(c)[i], status |-> "error", box |-> "none", rev |-> 0]]
    BY <2>1 DEF Failed
  <2>3. AnswerOK(s, o, rev, "error", "none", 0)
    BY DEF AnswerOK
  <2>4. GnCallOK(gnSetting, gnSetting.orders[c], Took(c, e, "connect_error"), feed[c], gnHits[c], gnRev)
    BY <1>1, <1>2, <1>5, <2>2, <2>3, TookStep
  <2> QED
    BY <1>3, <1>5, <2>1, <2>4, CallMoved
<1>6. CASE Wants(c).tool \notin GnReads /\ GnMoves(c, GnOver(c, "connect_error"))
  <2>1. GnCallOK(gnSetting, gnSetting.orders[c], GnOver(c, "connect_error"), feed[c], gnHits[c], gnRev)
    BY <1>1, <1>2, <1>6, EndsHere DEF GnVerdicts
  <2> QED
    BY <1>3, <1>6, <2>1, CallMoved
<1> QED
  BY <1>4, <1>5, <1>6 DEF Open

\* A Get.
LEMMA GetStep ==
  ASSUME GnInv, NEW c \in DOMAIN gnCall, Get(c)
  PROVE  GnInv'
<1>1. PICK s, o, g, f, h, rev : /\ s = gnSetting /\ o = gnSetting.orders[c] /\ g = gnCall[c] /\ f = feed[c]
                                /\ h = gnHits[c] /\ rev = gnRev
  OBVIOUS
<1>2. g.pc = "send" /\ o.tool \in GnReads
  BY <1>1 DEF Get, Wants
<1>3. UNCHANGED <<gnRev, feed, gnHits>> /\ NetStays
  BY DEF Get
<1>4. ASSUME NEW b \in BoxHas(gnCall[c].host),
             GnMoves(c, Took(c, [i \in DOMAIN Now(c) |->
                                   [path |-> Now(c)[i], status |-> "ok", box |-> b, rev |-> gnRev[b]]], "ok"))
      PROVE  GnInv'
  <2>1. b \in DOMAIN s.address /\ (Sure(s, o) => b = o.dev)
    BY <1>1, <1>2, BoxIs
  <2>2. PICK r, e : r = rev[b] /\ e = [i \in DOMAIN Now(c) |-> [path |-> Now(c)[i], status |-> "ok", box |-> b, rev |-> r]]
    OBVIOUS
  <2>3. AnswerOK(s, o, rev, "ok", b, r)
    BY <2>1, <2>2 DEF AnswerOK
  <2>4. GnCallOK(gnSetting, gnSetting.orders[c], Took(c, e, "ok"), feed[c], gnHits[c], gnRev)
    BY <1>1, <1>2, <2>2, <2>3, TookStep DEF Wants
  <2>5. GnMoves(c, Took(c, e, "ok"))
    BY <1>1, <1>4, <2>2
  <2> QED
    BY <1>3, <2>4, <2>5, CallMoved
<1>5. CASE GnMoves(c, Took(c, Failed(c), "error"))
  <2>1. PICK e : e = Failed(c)
    OBVIOUS
  <2>2. e = [i \in DOMAIN Now(c) |-> [path |-> Now(c)[i], status |-> "error", box |-> "none", rev |-> 0]]
    BY <2>1 DEF Failed
  <2>3. AnswerOK(s, o, rev, "error", "none", 0)
    BY DEF AnswerOK
  <2>4. GnCallOK(gnSetting, gnSetting.orders[c], Took(c, e, "error"), feed[c], gnHits[c], gnRev)
    BY <1>1, <1>2, <2>2, <2>3, TookStep DEF Wants
  <2> QED
    BY <1>3, <1>5, <2>1, <2>4, CallMoved
<1> QED
  BY <1>4, <1>5 DEF Get

\* A Set.
LEMMA SetStep ==
  ASSUME GnInv, NEW c \in DOMAIN gnCall, Set(c)
  PROVE  GnInv'
<1>1. PICK s, o, g, f, h, rev : /\ s = gnSetting /\ o = gnSetting.orders[c] /\ g = gnCall[c] /\ f = feed[c]
                                /\ h = gnHits[c] /\ rev = gnRev
  OBVIOUS
<1>2. /\ g.pc = "send" /\ g.pc # "over" /\ o.tool = "set" /\ o.tool \notin GnReads /\ GnCallOK(s, o, g, f, h, rev)
      /\ c \in DOMAIN feed /\ c \in DOMAIN gnHits
  BY <1>1, Settled DEF Set, Wants, GnReads
<1>3. UNCHANGED feed /\ NetStays
  BY DEF Set
<1>4. ASSUME NEW b \in BoxHas(gnCall[c].host), CarriedOut(c, b), NEW v \in {"ok", "error"}, GnMoves(c, GnOver(c, v))
      PROVE  GnInv'
  <2>1. b \in DOMAIN s.address /\ (Sure(s, o) => b = o.dev)
    BY <1>1, <1>2, BoxIs
  <2>2. PICK g1, h1, rev1 : g1 = GnOver(c, v) /\ h1 = Append(h, b) /\ rev1 = gnRev'
    OBVIOUS
  <2>3. g1 = CallRec("over", g.host, g.got, g.synced, g.cut, v)
    BY <1>1, <2>2, OverIs
  <2>4. GnCallOK(s, o, g1, f, h1, rev)
    BY <1>2, <2>1, <2>2, <2>3, SetHits
  <2>5. Grows(s, rev, rev1)
    <3>1. rev \in [DOMAIN s.address -> Nat] /\ rev1 = [rev EXCEPT ![b] = @ + 1]
      BY <1>1, <2>2, <1>4, Settled DEF GnBoxes, CarriedOut
    <3>2. rev1 \in [DOMAIN s.address -> Nat] /\ \A d \in DOMAIN s.address : rev[d] <= rev1[d]
      BY ONLY <2>1, <3>1
    <3> QED
      BY <3>1, <3>2 DEF Grows
  <2>6. GnCallOK(s, o, g1, f, h1, rev1)
    BY <2>4, <2>5, Grown
  <2>7. Only(gnCall, gnCall', c, g1) /\ Only(feed, feed', c, f)
    BY <1>1, <1>2, <1>3, <1>4, <2>2, OnlyOne DEF GnMoves
  <2>8. Only(gnHits, gnHits', c, h1)
    <3>1. gnHits' = [gnHits EXCEPT ![c] = h1]
      BY <1>1, <1>4, <2>2 DEF CarriedOut
    <3> QED
      BY <1>2, <3>1, OnlyOne
  <2>9. Grows(gnSetting, gnRev, gnRev') /\ GnCallOK(gnSetting, gnSetting.orders[c], g1, f, h1, gnRev')
    BY <1>1, <2>2, <2>5, <2>6
  <2> QED
    BY <1>3, <2>7, <2>8, <2>9, OneCall
<1>5. CASE UNCHANGED <<gnRev, gnHits>> /\ GnMoves(c, GnOver(c, "error"))
  <2>1. GnCallOK(gnSetting, gnSetting.orders[c], GnOver(c, "error"), feed[c], gnHits[c], gnRev)
    BY <1>1, <1>2, EndsHere DEF GnVerdicts, Wants
  <2> QED
    BY <1>3, <1>5, <2>1, CallMoved
<1>6. {"ok"} \cup (IF GnFault("lose") THEN {"error"} ELSE {}) \subseteq {"ok", "error"}
  OBVIOUS
<1> QED
  BY <1>4, <1>5, <1>6 DEF Set

\* The capabilities of a device.
LEMMA CapabilitiesStep ==
  ASSUME GnInv, NEW c \in DOMAIN gnCall, Capabilities(c)
  PROVE  GnInv'
<1>1. PICK s, o, g, f, h, rev : /\ s = gnSetting /\ o = gnSetting.orders[c] /\ g = gnCall[c] /\ f = feed[c]
                                /\ h = gnHits[c] /\ rev = gnRev
  OBVIOUS
<1>2. g.pc = "send" /\ g.pc # "over" /\ o.tool = "capabilities" /\ o.tool \notin GnReads /\ GnCallOK(s, o, g, f, h, rev)
  BY <1>1, Settled DEF Capabilities, Wants, GnReads
<1>3. UNCHANGED <<gnRev, feed, gnHits>> /\ NetStays
  BY DEF Capabilities
<1>4. ASSUME NEW b, GnMoves(c, [GnOver(c, "ok") EXCEPT !.got = <<[box |-> b]>>])
      PROVE  GnInv'
  <2>1. PICK x, got, g1 : x = GnOver(c, "ok") /\ got = <<[box |-> b]>> /\ g1 = [x EXCEPT !.got = got]
    OBVIOUS
  <2>2. x = CallRec("over", g.host, g.got, g.synced, g.cut, "ok")
    BY <1>1, <2>1, OverIs
  <2>3. x.pc = "over" /\ x.host = g.host /\ x.synced = g.synced /\ x.cut = g.cut /\ x.verdict = "ok"
    BY ONLY <2>2 DEF CallRec
  <2>4. x = CallRec(x.pc, x.host, x.got, x.synced, x.cut, x.verdict)
    BY ONLY <2>2 DEF CallRec
  <2>5. g1 = CallRec("over", g.host, got, g.synced, g.cut, "ok")
    BY <2>1, <2>3, <2>4, SetGot
  <2>6. GnCallOK(s, o, g1, f, h, rev)
    <3>1. "ok" \in GnVerdicts
      BY DEF GnVerdicts
    <3> QED
      BY ONLY <1>2, <2>5, <3>1, Ends
  <2>7. GnMoves(c, g1)
    BY <1>4, <2>1
  <2> QED
    BY <1>1, <1>3, <2>6, <2>7, CallMoved
<1>5. CASE GnMoves(c, GnOver(c, "connect_error"))
  <2>1. GnCallOK(gnSetting, gnSetting.orders[c], GnOver(c, "connect_error"), feed[c], gnHits[c], gnRev)
    BY <1>1, <1>2, EndsHere DEF GnVerdicts
  <2> QED
    BY <1>3, <1>5, <2>1, CallMoved
<1> QED
  BY <1>4, <1>5 DEF Capabilities

\* A subscription is opened.
LEMMA SubscribeStep ==
  ASSUME GnInv, NEW c \in DOMAIN gnCall, Subscribe(c)
  PROVE  GnInv'
<1>1. PICK s, o, g, f, h, rev : /\ s = gnSetting /\ o = gnSetting.orders[c] /\ g = gnCall[c] /\ f = feed[c]
                                /\ h = gnHits[c] /\ rev = gnRev
  OBVIOUS
<1>2. g.pc = "send" /\ g.pc # "over" /\ o.tool = "subscribe" /\ o.tool \notin GnReads /\ GnCallOK(s, o, g, f, h, rev)
  BY <1>1, Settled DEF Subscribe, Wants, GnReads
<1>3. UNCHANGED <<gnRev, feed, gnHits>> /\ NetStays
  BY DEF Subscribe
<1>4. CASE GnMoves(c, GnOver(c, "error"))
  <2>1. GnCallOK(gnSetting, gnSetting.orders[c], GnOver(c, "error"), feed[c], gnHits[c], gnRev)
    BY <1>1, <1>2, EndsHere DEF GnVerdicts, Wants
  <2> QED
    BY <1>3, <1>4, <2>1, CallMoved
<1>5. CASE GnMoves(c, [gnCall[c] EXCEPT !.pc = "stream"])
  <2>1. PICK stream, g1 : stream = "stream" /\ g1 = [g EXCEPT !.pc = stream]
    OBVIOUS
  <2>2. g1 = CallRec(stream, g.host, g.got, g.synced, g.cut, g.verdict)
    BY <1>1, <2>1, MovesTo
  <2>3. g.cut \in BOOLEAN /\ ~g.cut
    BY <1>2 DEF GnCallOK, GnTyped, StreamOK
  <2>4. GnCallOK(s, o, g1, f, h, rev)
    BY ONLY <1>2, <2>1, <2>2, <2>3, InLoop
  <2>5. GnMoves(c, g1)
    BY <1>1, <1>5, <2>1
  <2> QED
    BY <1>1, <1>3, <2>4, <2>5, CallMoved
<1> QED
  BY <1>4, <1>5 DEF Subscribe

\* The client's thread.
LEMMA FeedStep ==
  ASSUME GnInv, NEW c \in DOMAIN gnCall, Feed(c)
  PROVE  GnInv'
<1>1. PICK s, o, g, f, h, rev : /\ s = gnSetting /\ o = gnSetting.orders[c] /\ g = gnCall[c] /\ f = feed[c]
                                /\ h = gnHits[c] /\ rev = gnRev
  OBVIOUS
<1>2. /\ GnCallOK(s, o, g, f, h, rev) /\ g.pc \in {"stream", "blocked", "last"} /\ ScriptOK(s.script)
      /\ f = FeedRec(f.sent, f.queue, f.error, f.late) /\ c \in DOMAIN feed
  BY <1>1, Settled DEF GnGood, Feed, Streams
<1>3. UNCHANGED <<gnRev, gnCall, gnHits>> /\ NetStays
  BY DEF Feed
<1>4. CASE /\ feed[c].sent < Len(gnSetting.script)
           /\ feed' = [feed EXCEPT ![c].sent = @ + 1, ![c].queue = Append(@, gnSetting.script[feed[c].sent + 1])]
  <2>1. PICK n, q, f1 : /\ n = f.sent + 1 /\ q = Append(f.queue, s.script[f.sent + 1])
                        /\ f1 = [f EXCEPT !.sent = n, !.queue = q]
    OBVIOUS
  <2>2. f1 = FeedRec(n, q, f.error, f.late)
    BY <1>2, <2>1, FeedSentQueue
  <2>3. feed' = [feed EXCEPT ![c] = f1]
    BY <1>1, <1>2, <1>4, <2>1
  <2>4. GnCallOK(s, o, g, f1, h, rev)
    BY <1>1, <1>2, <1>4, <2>1, <2>2, Fed
  <2> QED
    BY <1>1, <1>3, <2>3, <2>4, FeedMoved
<1>5. CASE feed' = [feed EXCEPT ![c].error = TRUE]
  <2>1. PICK e, f1 : e = TRUE /\ f1 = [f EXCEPT !.error = e]
    OBVIOUS
  <2>2. f1 = FeedRec(f.sent, f.queue, e, f.late)
    BY <1>2, <2>1, FeedError
  <2>3. feed' = [feed EXCEPT ![c] = f1]
    BY <1>1, <1>2, <1>5, <2>1
  <2>4. GnCallOK(s, o, g, f1, h, rev)
    BY <1>2, <2>1, <2>2, FeedMarks
  <2> QED
    BY <1>1, <1>3, <2>3, <2>4, FeedMoved
<1> QED
  BY <1>4, <1>5 DEF Feed

\* The time of a subscription is up.
LEMMA DeadlineStep ==
  ASSUME GnInv, NEW c \in DOMAIN gnCall, Deadline(c)
  PROVE  GnInv'
<1>1. PICK s, o, g, f, h, rev : /\ s = gnSetting /\ o = gnSetting.orders[c] /\ g = gnCall[c] /\ f = feed[c]
                                /\ h = gnHits[c] /\ rev = gnRev
  OBVIOUS
<1>2. /\ GnCallOK(s, o, g, f, h, rev) /\ g.pc \in {"stream", "blocked", "last"} /\ f.error \in BOOLEAN
      /\ f = FeedRec(f.sent, f.queue, f.error, f.late) /\ c \in DOMAIN feed
  BY <1>1, Settled DEF Deadline, GnCallOK, GnTyped
<1>3. UNCHANGED <<gnRev, gnCall, gnHits>> /\ NetStays /\ feed' = [feed EXCEPT ![c].late = TRUE]
  BY DEF Deadline
<1>4. PICK late, f1 : late = TRUE /\ f1 = [f EXCEPT !.late = late]
  OBVIOUS
<1>5. f1 = FeedRec(f.sent, f.queue, f.error, late)
  BY <1>2, <1>4, FeedLate
<1>6. feed' = [feed EXCEPT ![c] = f1]
  BY <1>1, <1>2, <1>3, <1>4
<1>7. GnCallOK(s, o, g, f1, h, rev)
  BY <1>2, <1>5, FeedMarks
<1> QED
  BY <1>1, <1>3, <1>6, <1>7, FeedMoved

\* A turn of a subscription's loop.
LEMMA TurnStep ==
  ASSUME GnInv, NEW c \in DOMAIN gnCall, Turn(c)
  PROVE  GnInv'
<1>1. PICK s, o, g, f, h, rev : /\ s = gnSetting /\ o = gnSetting.orders[c] /\ g = gnCall[c] /\ f = feed[c]
                                /\ h = gnHits[c] /\ rev = gnRev
  OBVIOUS
<1>2. /\ GnCallOK(s, o, g, f, h, rev) /\ g.pc = "stream" /\ g.pc # "over" /\ o.tool = "subscribe" /\ o.tool \notin GnReads
      /\ g = CallRec(g.pc, g.host, g.got, g.synced, g.cut, g.verdict) /\ g.cut \in BOOLEAN /\ ~g.cut
  BY <1>1, Settled DEF Turn, GnCallOK, GnTyped, StreamOK, GnReads
<1>3. UNCHANGED <<gnRev, feed, gnHits>> /\ NetStays
  BY DEF Turn
<1>4. ASSUME NEW pc \in {"last", "blocked"}, GnMoves(c, [gnCall[c] EXCEPT !.pc = pc]) PROVE GnInv'
  <2>1. PICK g1 : g1 = [g EXCEPT !.pc = pc]
    OBVIOUS
  <2>2. g1 = CallRec(pc, g.host, g.got, g.synced, g.cut, g.verdict)
    BY <1>1, <2>1, MovesTo
  <2>3. GnCallOK(s, o, g1, f, h, rev)
    BY ONLY <1>2, <2>2, pc \in {"last", "blocked"}, InLoop
  <2>4. GnMoves(c, g1)
    BY <1>1, <1>4, <2>1
  <2> QED
    BY <1>1, <1>3, <2>3, <2>4, CallMoved
<1>5. CASE Full(c) /\ GnMoves(c, [gnCall[c] EXCEPT !.pc = "last", !.cut = TRUE])
  <2>1. PICK last, cut, g1 : last = "last" /\ cut = TRUE /\ g1 = [g EXCEPT !.pc = last, !.cut = cut]
    OBVIOUS
  <2>2. g1 = CallRec(last, g.host, g.got, g.synced, cut, g.verdict)
    BY <1>2, <2>1, SetPcCut
  <2>3. Capped(o, Len(g.got))
    BY <1>1, <1>5 DEF Full, Capped, Wants
  <2>4. GnCallOK(s, o, g1, f, h, rev)
    BY ONLY <1>2, <2>1, <2>2, <2>3, InLoop
  <2>5. GnMoves(c, g1)
    BY <1>1, <1>5, <2>1
  <2> QED
    BY <1>1, <1>3, <2>4, <2>5, CallMoved
<1>6. CASE GnMoves(c, [GnOver(c, "error") EXCEPT !.got = <<>>])
  <2>1. PICK x, got, g1 : x = GnOver(c, "error") /\ got = <<>> /\ g1 = [x EXCEPT !.got = got]
    OBVIOUS
  <2>2. x = CallRec("over", g.host, g.got, g.synced, g.cut, "error")
    BY <1>1, <2>1, OverIs
  <2>3. x.pc = "over" /\ x.host = g.host /\ x.synced = g.synced /\ x.cut = g.cut /\ x.verdict = "error"
    BY ONLY <2>2 DEF CallRec
  <2>4. x = CallRec(x.pc, x.host, x.got, x.synced, x.cut, x.verdict)
    BY ONLY <2>2 DEF CallRec
  <2>5. g1 = CallRec("over", g.host, got, g.synced, g.cut, "error")
    <3>1. [x EXCEPT !.got = got] = CallRec(x.pc, x.host, got, x.synced, x.cut, x.verdict)
      BY ONLY <2>4, SetGot
    <3> QED
      BY <2>1, <2>3, <3>1, Zenon
  <2>6. GnCallOK(s, o, g1, f, h, rev)
    <3>1. "error" \in GnVerdicts /\ "error" # "ok"
      BY DEF GnVerdicts
    <3> QED
      BY ONLY <1>2, <2>5, <3>1, Ends
  <2>7. GnMoves(c, g1)
    BY <1>6, <2>1
  <2> QED
    BY <1>1, <1>3, <2>6, <2>7, CallMoved
<1> QED
  BY <1>4, <1>5, <1>6 DEF Turn

\* A subscription takes a message.
LEMMA ReceiveStep ==
  ASSUME GnInv, NEW c \in DOMAIN gnCall, Receive(c)
  PROVE  GnInv'
<1>1. PICK s, o, g, f, h, rev : /\ s = gnSetting /\ o = gnSetting.orders[c] /\ g = gnCall[c] /\ f = feed[c]
                                /\ h = gnHits[c] /\ rev = gnRev
  OBVIOUS
<1>2. /\ GnCallOK(s, o, g, f, h, rev) /\ g.pc = "blocked" /\ f.queue # <<>> /\ ScriptOK(s.script)
      /\ g = CallRec(g.pc, g.host, g.got, g.synced, g.cut, g.verdict)
      /\ f = FeedRec(f.sent, f.queue, f.error, f.late) /\ c \in DOMAIN feed /\ c \in DOMAIN gnHits
      /\ Grows(s, rev, rev)
  BY <1>1, Settled DEF Receive, GnGood
<1>3. /\ UNCHANGED <<gnRev, gnHits>> /\ NetStays /\ feed' = [feed EXCEPT ![c].queue = Tail(@)]
      /\ LET note == Head(feed[c].queue) IN
         GnMoves(c, [gnCall[c] EXCEPT !.pc = "stream",
                       !.synced = @ \/ note.kind = "sync",
                       !.got = IF note.kind = "note" THEN Collected(c, note) ELSE @])
  BY DEF Receive
<1>4. PICK note, synced, got, stream, g1 :
        /\ note = Head(f.queue) /\ synced = (g.synced \/ note.kind = "sync") /\ stream = "stream"
        /\ got = IF note.kind = "note" THEN g.got \o EventsOf(note, ~g.synced) ELSE g.got
        /\ g1 = [g EXCEPT !.pc = stream, !.synced = synced, !.got = got]
  OBVIOUS
<1>5. g1 = CallRec(stream, g.host, got, synced, g.cut, g.verdict)
  <2>1. SyncedGot(g, stream, synced, got) = CallRec(stream, g.host, got, synced, g.cut, g.verdict)
    BY <1>2, SetPcSyncedGot, Zenon
  <2> QED
    BY <1>4, <2>1, Zenon DEF SyncedGot
<1>6. PICK q, f1 : q = Tail(f.queue) /\ f1 = [f EXCEPT !.queue = q]
  OBVIOUS
<1>7. f1 = FeedRec(f.sent, q, f.error, f.late)
  BY <1>2, <1>6, FeedQueue
<1>8. GnCallOK(s, o, g1, f1, h, rev)
  <2>1. Receivable(s, g, f, note, got, synced)
    BY <1>2, <1>4, Zenon DEF Receivable
  <2>2. g1 = CallRec("stream", g.host, got, synced, g.cut, g.verdict)
    BY <1>4, <1>5, Zenon
  <2>3. f1 = FeedRec(f.sent, Tail(f.queue), f.error, f.late)
    BY <1>6, <1>7, Zenon
  <2> QED
    BY ONLY <1>2, <2>1, <2>2, <2>3, Received
<1>9. GnMoves(c, g1)
  BY <1>1, <1>3, <1>4 DEF Collected
<1>10. feed' = [feed EXCEPT ![c] = f1]
  BY <1>1, <1>2, <1>3, <1>6
<1>11. Only(gnCall, gnCall', c, g1) /\ Only(feed, feed', c, f1) /\ Only(gnHits, gnHits', c, h)
  <2>1. gnCall' = [gnCall EXCEPT ![c] = g1] /\ c \in DOMAIN gnCall
    BY <1>9 DEF GnMoves
  <2>2. Only(gnCall, gnCall', c, g1)
    BY ONLY <2>1, OnlyOne
  <2>3. c \in DOMAIN feed /\ c \in DOMAIN gnHits
    BY <1>2
  <2>4. Only(feed, feed', c, f1)
    BY ONLY <1>10, <2>3, OnlyOne
  <2>5. gnHits' = gnHits /\ h = gnHits[c]
    BY <1>1, <1>3
  <2>6. Only(gnHits, gnHits', c, h)
    BY ONLY <2>3, <2>5, OnlyOne
  <2> QED
    BY <2>2, <2>4, <2>6
<1>12. Grows(gnSetting, gnRev, gnRev') /\ GnCallOK(gnSetting, gnSetting.orders[c], g1, f1, h, gnRev')
  BY <1>1, <1>2, <1>3, <1>8
<1> QED
  BY <1>3, <1>11, <1>12, OneCall

\* A subscription waits no longer.
LEMMA TimesOutStep ==
  ASSUME GnInv, NEW c \in DOMAIN gnCall, TimesOut(c)
  PROVE  GnInv'
<1>1. PICK s, o, g, f, h, rev : /\ s = gnSetting /\ o = gnSetting.orders[c] /\ g = gnCall[c] /\ f = feed[c]
                                /\ h = gnHits[c] /\ rev = gnRev
  OBVIOUS
<1>2. GnCallOK(s, o, g, f, h, rev) /\ g.pc = "blocked" /\ o.tool = "subscribe" /\ g.cut \in BOOLEAN /\ ~g.cut
  BY <1>1, Settled DEF TimesOut, GnCallOK, GnTyped, StreamOK
<1>3. UNCHANGED <<gnRev, feed, gnHits>> /\ NetStays /\ GnMoves(c, [gnCall[c] EXCEPT !.pc = "last"])
  BY DEF TimesOut
<1>4. PICK last, g1 : last = "last" /\ g1 = [g EXCEPT !.pc = last]
  OBVIOUS
<1>5. g1 = CallRec(last, g.host, g.got, g.synced, g.cut, g.verdict)
  BY <1>1, <1>4, MovesTo
<1>6. GnCallOK(s, o, g1, f, h, rev)
  BY ONLY <1>2, <1>4, <1>5, InLoop
<1>7. GnMoves(c, g1)
  BY <1>1, <1>3, <1>4
<1> QED
  BY <1>1, <1>3, <1>6, <1>7, CallMoved

\* A subscription answers.
LEMMA ReportStep ==
  ASSUME GnInv, NEW c \in DOMAIN gnCall, Report(c)
  PROVE  GnInv'
<1>1. PICK s, o, g, f, h, rev : /\ s = gnSetting /\ o = gnSetting.orders[c] /\ g = gnCall[c] /\ f = feed[c]
                                /\ h = gnHits[c] /\ rev = gnRev
  OBVIOUS
<1>2. /\ GnCallOK(s, o, g, f, h, rev) /\ g.pc = "last" /\ g.pc # "over" /\ o.tool = "subscribe" /\ o.tool \notin GnReads
      /\ ScriptOK(s.script) /\ o.cap \in Nat
  BY <1>1, Settled DEF Report, GnCallOK, GnTyped, GnGood, GnReads
<1>3. UNCHANGED <<gnRev, feed, gnHits>> /\ NetStays
  BY DEF Report
<1>4. CASE GnMoves(c, GnOver(c, "error"))
  <2>1. GnCallOK(gnSetting, gnSetting.orders[c], GnOver(c, "error"), feed[c], gnHits[c], gnRev)
    BY <1>1, <1>2, EndsHere DEF GnVerdicts, Wants
  <2> QED
    BY <1>3, <1>4, <2>1, CallMoved
<1>5. CASE /\ ~(f.error /\ g.got = <<>>)
           /\ GnMoves(c, [GnOver(c, "ok") EXCEPT !.got = IF Full(c) THEN SubSeq(@, 1, Wants(c).cap) ELSE @,
                                                 !.cut = @ \/ Full(c)])
  <2>1. PICK x, got, cut, g1 : /\ x = GnOver(c, "ok") /\ cut = (g.cut \/ Capped(o, Len(g.got)))
                               /\ got = IF Capped(o, Len(g.got)) THEN SubSeq(g.got, 1, o.cap) ELSE g.got
                               /\ g1 = [x EXCEPT !.got = got, !.cut = cut]
    OBVIOUS
  <2>2. x = CallRec("over", g.host, g.got, g.synced, g.cut, "ok")
    BY <1>1, <2>1, OverIs
  <2>3. x.pc = "over" /\ x.host = g.host /\ x.got = g.got /\ x.synced = g.synced /\ x.cut = g.cut /\ x.verdict = "ok"
    BY ONLY <2>2 DEF CallRec
  <2>4. x = CallRec(x.pc, x.host, x.got, x.synced, x.cut, x.verdict)
    BY ONLY <2>2 DEF CallRec
  <2>5. g1 = CallRec("over", g.host, got, g.synced, cut, "ok")
    <3>1. [x EXCEPT !.got = got, !.cut = cut] = CallRec(x.pc, x.host, got, x.synced, cut, x.verdict)
      BY ONLY <2>4, SetGotCut
    <3> QED
      BY <2>1, <2>3, <3>1, Zenon
  <2>6. GnCallOK(s, o, g1, f, h, rev)
    BY <1>2, <1>5, <2>1, <2>5, Reported
  <2>7. Full(c) = Capped(o, Len(g.got))
    BY <1>1 DEF Full, Capped, Wants
  <2>8. GnMoves(c, g1)
    BY <1>1, <1>5, <2>1, <2>3, <2>7 DEF Wants
  <2> QED
    BY <1>1, <1>3, <2>6, <2>8, CallMoved
<1> QED
  BY <1>1, <1>4, <1>5 DEF Report

\* Somebody else changes a box.
LEMMA EditStep ==
  ASSUME GnInv, EditElsewhere
  PROVE  GnInv'
<1>1. PICK b \in DOMAIN gnRev : gnRev' = [gnRev EXCEPT ![b] = @ + 1]
  BY DEF EditElsewhere
<1>2. UNCHANGED <<gnCall, feed, gnHits>> /\ NetStays
  BY DEF EditElsewhere
<1>3. PICK s, rev, rev1 : s = gnSetting /\ rev = gnRev /\ rev1 = gnRev'
  OBVIOUS
<1>4. Grows(s, rev, rev1)
  <2>1. rev \in [DOMAIN s.address -> Nat] /\ rev1 = [rev EXCEPT ![b] = @ + 1] /\ b \in DOMAIN s.address
    BY <1>1, <1>3 DEF GnInv, GnBoxes
  <2>2. rev1 \in [DOMAIN s.address -> Nat] /\ \A d \in DOMAIN s.address : rev[d] <= rev1[d]
    BY ONLY <2>1
  <2> QED
    BY <2>1, <2>2 DEF Grows
<1>5. GnBoxes(s, gnAddress, rev1)
  BY <1>3, <1>4 DEF GnInv, GnBoxes, Grows
<1>6. \A c \in DOMAIN gnCall : GnCallOK(s, s.orders[c], gnCall[c], feed[c], gnHits[c], rev1)
  <2>1. \A c \in DOMAIN gnCall : GnCallOK(s, s.orders[c], gnCall[c], feed[c], gnHits[c], rev)
    BY <1>3 DEF GnInv
  <2> QED
    BY <1>4, <2>1, Grown
<1> QED
  BY <1>2, <1>3, <1>5, <1>6 DEF GnInv, NetStays

\* Two boxes swap their addresses.
LEMMA SwapStep ==
  ASSUME GnInv, SwapAddresses
  PROVE  GnInv'
<1>1. PICK m, n \in DOMAIN gnAddress : gnAddress' = [gnAddress EXCEPT ![m] = gnAddress[n], ![n] = gnAddress[m]]
  BY DEF SwapAddresses
<1>2. UNCHANGED <<gnSetting, gnRev, gnCall, feed, gnHits>> /\ gnSetting.swaps > 0
  BY DEF SwapAddresses
<1>3. DOMAIN gnAddress' = DOMAIN gnAddress
  BY <1>1
<1>4. gnSetting.swaps # 0
  <2>1. gnSetting.swaps \in Nat
    BY GnAssumption DEF GnInv, GnSettingsOK
  <2> QED
    BY <1>2, <2>1
<1>5. PICK s, A, rev : s = gnSetting /\ A = gnAddress' /\ rev = gnRev
  OBVIOUS
<1>6. GnBoxes(s, A, rev)
  BY <1>3, <1>4, <1>5 DEF GnInv, GnBoxes
<1> QED
  BY <1>2, <1>5, <1>6 DEF GnInv

\* A call and its feed, before anything has happened.
LEMMA GnFresh ==
  ASSUME NEW s, NEW o, NEW rev \in [DOMAIN s.address -> Nat], GnGood(s, o), NEW g, NEW f, NEW h,
         g = CallRec("idle", "none", <<>>, FALSE, FALSE, "none"), f = FeedRec(0, <<>>, FALSE, FALSE), h = <<>>
  PROVE  GnCallOK(s, o, g, f, h, rev)
<1>1. /\ g.pc = "idle" /\ g.got = <<>> /\ g.synced = FALSE /\ g.cut = FALSE /\ g.verdict = "none"
      /\ g = CallRec(g.pc, g.host, g.got, g.synced, g.cut, g.verdict)
  BY DEF CallRec
<1>2. /\ f.sent = 0 /\ f.queue = <<>> /\ f.error = FALSE /\ f = FeedRec(f.sent, f.queue, f.error, f.late)
  BY DEF FeedRec
<1>3. Len(s.script) \in Nat /\ EventsSent(s.script)[0] = <<>>
  BY EventsAre DEF GnGood
<1>4. GnTyped(o, s.script, g, f)
  <2>1. f.sent \in 0..Len(s.script) /\ f.error \in BOOLEAN
    <3>1. PICK n : n = Len(s.script) /\ n \in Nat
      BY <1>3
    <3>2. 0 \in 0..n
      BY ONLY <3>1
    <3> QED
      BY <1>2, <3>1, <3>2
  <2>2. g.pc \in GnPcs /\ g.verdict \in GnVerdicts /\ g.synced \in BOOLEAN /\ g.cut \in BOOLEAN
    BY <1>1 DEF GnPcs, GnVerdicts
  <2>3. g.pc \notin {"stream", "blocked", "last"} /\ g.verdict = "none"
    BY <1>1
  <2> QED
    BY <1>1, <1>2, <2>1, <2>2, <2>3 DEF GnTyped
<1>5. HostOK(s, o, g) /\ SetOK(s, o, g, h)
  BY <1>1 DEF HostOK, SetOK
<1>6. ReadOK(s, o, g, rev)
  <2>1. Len(o.paths) \in Nat
    BY DEF GnGood, IsList
  <2>2. PICK x, E : x = <<>> /\ E = GnEntries(s, o)
    OBVIOUS
  <2>3. x \in Seq(E) /\ Len(x) = 0 /\ DOMAIN x = {}
    BY ONLY <2>2
  <2>4. EntriesOK(s, o, x, rev)
    BY <2>1, <2>2, <2>3 DEF EntriesOK
  <2> QED
    BY <1>1, <2>2, <2>3, <2>4 DEF ReadOK
<1>7. StreamOK(s, o, g, f)
  <2>1. PICK x, M : x = <<>> /\ M = {s.script[i] : i \in DOMAIN s.script}
    OBVIOUS
  <2>2. x \in Seq(M) /\ Len(x) = 0 /\ DOMAIN x = {}
    BY ONLY <2>1
  <2>3. QueueOK(s.script, f) /\ Taken(f) = 0
    <3>1. f.queue = x /\ f.sent = 0
      BY <1>2, <2>1
    <3>2. x \in Seq({s.script[i] : i \in DOMAIN s.script})
      BY <2>1, <2>2, Zenon
    <3>3. Len(x) <= 0 /\ 0 - Len(x) = 0
      BY ONLY <2>2
    <3>4. Taken(f) = 0
      BY <3>1, <3>3 DEF Taken
    <3> QED
      BY <2>2, <3>1, <3>2, <3>3, <3>4, Zenon DEF QueueOK
  <2>4. 1..0 = {}
    OBVIOUS
  <2> QED
    BY <1>1, <1>2, <1>3, <2>3, <2>4 DEF StreamOK
<1> QED
  BY <1>4, <1>5, <1>6, <1>7 DEF GnCallOK

\* The invariant holds at the start.
LEMMA GnStarts == GnInit => GnInv
<1> SUFFICES ASSUME GnInit PROVE GnInv
  OBVIOUS
<1>1. gnSetting \in GnSettings /\ gnAddress = gnSetting.address /\ gnRev = [b \in DOMAIN gnAddress |-> 1]
  BY DEF GnInit
<1>2. GnBoxes(gnSetting, gnAddress, gnRev)
  BY <1>1 DEF GnBoxes
<1>3. DOMAIN gnCall = DOMAIN gnSetting.orders /\ DOMAIN feed = DOMAIN gnSetting.orders /\ DOMAIN gnHits = DOMAIN gnSetting.orders
  BY DEF GnInit
<1>4. ASSUME NEW c \in DOMAIN gnCall
      PROVE  GnCallOK(gnSetting, gnSetting.orders[c], gnCall[c], feed[c], gnHits[c], gnRev)
  <2>1. PICK s, o, g, f, h, rev : /\ s = gnSetting /\ o = gnSetting.orders[c] /\ g = gnCall[c] /\ f = feed[c]
                                  /\ h = gnHits[c] /\ rev = gnRev
    OBVIOUS
  <2>2. c \in DOMAIN s.orders
    BY <1>3, <2>1
  <2>3. g = CallRec("idle", "none", <<>>, FALSE, FALSE, "none") /\ f = FeedRec(0, <<>>, FALSE, FALSE) /\ h = <<>>
    BY <2>1, <2>2 DEF GnInit, CallRec, FeedRec
  <2>4. GnGood(s, o)
    BY <1>1, <2>1, <2>2, GnAssumption, Zenon DEF GnSettingsOK, GnGood, ScriptOK
  <2>5. rev \in [DOMAIN s.address -> Nat]
    BY <1>2, <2>1 DEF GnBoxes
  <2> QED
    BY <2>1, <2>3, <2>4, <2>5, GnFresh
<1> QED
  BY <1>1, <1>2, <1>3, <1>4 DEF GnInv

\* Every step keeps it.
LEMMA GnSteps == GnInv /\ [GnNext]_gnVars => GnInv'
<1> SUFFICES ASSUME GnInv, [GnNext]_gnVars PROVE GnInv'
  OBVIOUS
<1>1. ASSUME NEW c \in DOMAIN gnCall, GnStep(c) PROVE GnInv'
  BY <1>1, CheckStep, OpenStep, GetStep, SetStep, CapabilitiesStep, SubscribeStep, FeedStep, DeadlineStep, TurnStep,
     ReceiveStep, TimesOutStep, ReportStep, Zenon DEF GnStep
<1>2. CASE EditElsewhere
  BY <1>2, EditStep
<1>3. CASE SwapAddresses
  BY <1>3, SwapStep
<1>4. CASE UNCHANGED gnVars
  BY <1>4 DEF gnVars, GnInv
<1> QED
  BY <1>1, <1>2, <1>3, <1>4 DEF GnNext

\* The inductive invariant of gNMI holds throughout.
THEOREM GnInvariance == GnSpec => []GnInv
<1>1. GnInit => GnInv
  BY GnStarts
<1>2. GnInv /\ [GnNext]_gnVars => GnInv'
  BY GnSteps
<1> QED
  BY <1>1, <1>2, PTL DEF GnSpec

\* What a subscription has told is what StreamsHold asks, a read and a Set
\* likewise.
LEMMA GnHolds == GnInv => GnmiHolds
<1> SUFFICES ASSUME GnInv PROVE GnmiHolds
  OBVIOUS
<1>1. ASSUME NEW c \in DOMAIN gnCall
      PROVE  /\ Len(gnHits[c]) <= 1
             /\ Wants(c).tool = "set" /\ gnCall[c].verdict = "ok" => Len(gnHits[c]) = 1
             /\ gnHits[c] # <<>> => Wants(c).confirm /\ gnCall[c].verdict \in {"ok", "error"}
             /\ Firm(c) => \A i \in DOMAIN gnHits[c] : gnHits[c][i] = Wants(c).dev
  <2>1. PICK s, o, g, h : s = gnSetting /\ o = gnSetting.orders[c] /\ g = gnCall[c] /\ h = gnHits[c]
    OBVIOUS
  <2>2. SetOK(s, o, g, h)
    BY <2>1, Settled DEF GnCallOK
  <2>3. h = <<>> \/ \E b : h = <<b>> /\ (Sure(s, o) => b = o.dev)
    BY <2>2 DEF SetOK
  <2>4. Len(h) <= 1 /\ (h # <<>> => Len(h) = 1) /\ (Sure(s, o) => \A i \in DOMAIN h : h[i] = o.dev)
    <3>1. CASE h = <<>>
      BY ONLY <3>1
    <3>2. ASSUME NEW b, h = <<b>>, Sure(s, o) => b = o.dev
          PROVE  Len(h) <= 1 /\ (h # <<>> => Len(h) = 1) /\ (Sure(s, o) => \A i \in DOMAIN h : h[i] = o.dev)
      <4>1. Len(h) = 1 /\ \A i \in DOMAIN h : h[i] = b
        BY ONLY <3>2
      <4> QED
        BY <3>2, <4>1
    <3> QED
      BY <2>3, <3>1, <3>2
  <2>5. /\ h # <<>> => o.confirm /\ g.verdict \in {"ok", "error"}
        /\ o.tool = "set" /\ g.verdict = "ok" => h # <<>>
    BY <2>2 DEF SetOK
  <2>6. Firm(c) => Sure(s, o)
    BY <2>1 DEF Firm, Sure, Wants
  <2> QED
    BY <2>1, <2>4, <2>5, <2>6 DEF Wants
<1>2. ASSUME NEW c \in DOMAIN gnCall, NEW got, got = gnCall[c].got,
             Wants(c).tool \in GnReads, gnCall[c].verdict \in {"ok", "error"}
      PROVE  /\ Len(got) = Len(Wants(c).paths) /\ \A i \in DOMAIN got : got[i].path = Wants(c).paths[i]
             /\ Wants(c).tool # "get_many" => \A i, j \in DOMAIN got : got[i].rev = got[j].rev
             /\ (gnCall[c].verdict = "ok") = (\E i \in DOMAIN got : got[i].status = "ok")
             /\ Firm(c) => \A i, j \in DOMAIN got :
                  /\ got[i].box \in {Wants(c).dev, "none"}
                  /\ i < j /\ got[i].status = "ok" /\ got[j].status = "ok" => got[i].rev <= got[j].rev
  <2>1. PICK s, o, g, rev : s = gnSetting /\ o = gnSetting.orders[c] /\ g = gnCall[c] /\ rev = gnRev
    OBVIOUS
  <2>2. ReadOK(s, o, g, rev) /\ o.tool \in GnReads /\ g.verdict \in {"ok", "error"} /\ g.got = got
    BY <1>2, <2>1, Settled DEF GnCallOK, Wants
  <2>3. /\ EntriesOK(s, o, got, rev) /\ Len(got) = Len(o.paths)
        /\ o.tool # "get_many" => \A i, j \in DOMAIN got : got[i].rev = got[j].rev
        /\ g.verdict = "ok" <=> \E i \in DOMAIN got : got[i].status = "ok"
    BY <2>2 DEF ReadOK
  <2>4. /\ \A i \in DOMAIN got : got[i].path = o.paths[i]
        /\ \A i \in DOMAIN got : got[i].status = "ok" /\ Sure(s, o) => got[i].box = o.dev
        /\ \A i \in DOMAIN got : got[i].status # "ok" => got[i].box = "none"
        /\ \A i, j \in DOMAIN got :
             i < j /\ got[i].status = "ok" /\ got[j].status = "ok" /\ got[i].box = got[j].box => got[i].rev <= got[j].rev
    BY <2>3, Zenon DEF EntriesOK
  <2>5. ASSUME Firm(c), NEW i \in DOMAIN got, NEW j \in DOMAIN got
        PROVE  /\ got[i].box \in {Wants(c).dev, "none"}
               /\ i < j /\ got[i].status = "ok" /\ got[j].status = "ok" => got[i].rev <= got[j].rev
    <3>1. Sure(s, o) /\ Wants(c).dev = o.dev
      BY <2>1, <2>5 DEF Firm, Sure, Wants
    <3>2. got[i].box = o.dev \/ got[i].box = "none"
      BY <2>4, <3>1, Zenon
    <3>3. got[i].status = "ok" /\ got[j].status = "ok" => got[i].box = got[j].box
      BY <2>4, <3>1
    <3>4. i < j /\ got[i].status = "ok" /\ got[j].status = "ok" => got[i].rev <= got[j].rev
      BY <2>4, <3>3, Zenon
    <3> QED
      BY <3>1, <3>2, <3>4, Zenon
  <2>6. Wants(c) = o /\ gnCall[c] = g
    BY <2>1 DEF Wants
  <2>7. (gnCall[c].verdict = "ok") = (\E i \in DOMAIN got : got[i].status = "ok")
    BY <2>3, <2>6
  <2> QED
    BY <2>3, <2>4, <2>5, <2>6, <2>7, Zenon
<1>3. ASSUME NEW c \in DOMAIN gnCall, NEW all, all = EventsSent(gnSetting.script)[feed[c].sent - Len(feed[c].queue)],
             Wants(c).tool = "subscribe", gnCall[c].verdict = "ok"
      PROVE  /\ Len(gnCall[c].got) = Len(all) \/ (Wants(c).cap > 0 /\ Len(gnCall[c].got) = Wants(c).cap)
             /\ Len(gnCall[c].got) <= Len(all) /\ \A i \in DOMAIN gnCall[c].got : gnCall[c].got[i] = all[i]
             /\ Wants(c).cap > 0 => Len(gnCall[c].got) <= Wants(c).cap
             /\ gnCall[c].cut <=> Wants(c).cap > 0 /\ Len(gnCall[c].got) = Wants(c).cap
             /\ feed[c].error => gnCall[c].got # <<>>
  <2>1. PICK s, o, g, f : s = gnSetting /\ o = gnSetting.orders[c] /\ g = gnCall[c] /\ f = feed[c]
    OBVIOUS
  <2>2. StreamOK(s, o, g, f) /\ o.tool = "subscribe" /\ g.verdict = "ok" /\ Wants(c) = o
    BY <1>3, <2>1, Settled DEF GnCallOK, Wants
  <2>3. all = EventsSent(s.script)[Taken(f)]
    BY <1>3, <2>1 DEF Taken
  <2>4. /\ Len(g.got) = Len(all) \/ (o.cap > 0 /\ Len(g.got) = o.cap)
        /\ Len(g.got) <= Len(all) /\ \A i \in DOMAIN g.got : g.got[i] = all[i]
        /\ o.cap > 0 => Len(g.got) <= o.cap
        /\ g.cut <=> o.cap > 0 /\ Len(g.got) = o.cap
        /\ f.error => g.got # <<>>
    BY <2>2, <2>3, Zenon DEF StreamOK
  <2> QED
    BY <2>1, <2>2, <2>4, Zenon
<1>4. SetsHold
  BY <1>1, Zenon DEF SetsHold
<1>5. ReadsHold
  BY <1>2, Zenon DEF ReadsHold
<1>6. StreamsHold
  BY <1>3, Zenon DEF StreamsHold
<1> QED
  BY <1>4, <1>5, <1>6 DEF GnmiHolds

\* GnmiHolds, in every behaviour of the gNMI tools: a Set is carried out at
\* most once and where it was meant, a read shows its paths in order out of a
\* device that does not go back, and a subscription tells all it was sent.
THEOREM GnmiSound == GnSpec => []GnmiHolds
<1>1. GnSpec => []GnInv
  BY GnInvariance
<1>2. GnInv => GnmiHolds
  BY GnHolds
<1> QED
  BY <1>1, <1>2, PTL

\* The types of gNMI's variables.
THEOREM GnTypeCorrect == GnSpec => []GnTypeOK
<1>1. GnSpec => []GnInv
  BY GnInvariance
<1>2. GnInv => GnTypeOK
  <2> SUFFICES ASSUME GnInv, NEW c \in DOMAIN gnCall
               PROVE  /\ gnCall[c].pc \in {"idle", "open", "send", "stream", "blocked", "last", "over"}
                      /\ gnCall[c].verdict \in {"none", "ok", "error", "refused", "dry_run", "connect_error"}
                      /\ feed[c].sent \in 0..Len(gnSetting.script) /\ gnCall[c].synced \in BOOLEAN
    BY DEF GnTypeOK
  <2>1. PICK s, o, g, f : s = gnSetting /\ o = gnSetting.orders[c] /\ g = gnCall[c] /\ f = feed[c]
    OBVIOUS
  <2>2. GnTyped(o, s.script, g, f)
    BY <2>1, Settled DEF GnCallOK
  <2>3. g.pc \in GnPcs /\ g.verdict \in GnVerdicts /\ f.sent \in 0..Len(s.script) /\ g.synced \in BOOLEAN
    BY <2>2 DEF GnTyped
  <2> QED
    BY <2>1, <2>3 DEF GnPcs, GnVerdicts
<1> QED
  BY <1>1, <1>2, PTL
==============================================================================

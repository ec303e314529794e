--------------------------------- MODULE Gnmi ---------------------------------
(***************************************************************************)
(* The gNMI tools: gnmi_get, gnmi_get_many, gnmi_enumerate_keys and gnmi_set *)
(* of qactl/dnos/gnmi/tools/rw.py, gnmi_subscribe of tools/subscribe.py, the *)
(* capabilities of tools/diag.py, and the resolution of a device in          *)
(* core/session.py.  A call opens a client to the address the device was     *)
(* found at and makes its RPC there; the pacing between the two is           *)
(* RateGate's.  A subscription is fed by a thread of the client, which       *)
(* leaves messages in a queue and a failure beside it.                       *)
(***************************************************************************)
EXTENDS Naturals, Sequences

CONSTANTS
  GnCallers,   \* the calls
  GnSettings   \* what a run lets happen, see GnSettingsOK

GnFaults == {"unverified", "lose", "drop"}
GnReads == {"get", "get_many", "one_call", "keys"}

\* A message of a subscription: a sync_response, one the client could not
\* decode, or a notification of updates and deletes.
GnMessages == {"sync", "junk", "note"}

IsList(s) == s \in Seq({s[i] : i \in DOMAIN s})

\* A setting: what each call is; the address every box has, no other's, and
\* the one the map of devices holds; the paths the device refuses; what a
\* subscription sends; the faults; and (bounds) how often somebody else
\* changes a configuration and two boxes swap their addresses.
GnSettingsOK == \A s \in GnSettings :
  /\ DOMAIN s.orders \subseteq GnCallers /\ s.faults \subseteq GnFaults
  /\ \A c \in DOMAIN s.orders :
       /\ s.orders[c].tool \in GnReads \cup {"set", "subscribe", "capabilities"} /\ s.orders[c].dev \in DOMAIN s.address
       /\ IsList(s.orders[c].paths) /\ s.orders[c].cap \in Nat
  /\ \A m, n \in DOMAIN s.address : s.address[m] = s.address[n] => m = n
  /\ IsList(s.script)
  /\ \A i \in DOMAIN s.script :
       s.script[i].kind \in GnMessages /\ IsList(s.script[i].updates) /\ IsList(s.script[i].deletes)
  /\ {s.edits, s.swaps} \subseteq Nat

ASSUME GnAssumption == GnSettingsOK

VARIABLES
  gnSetting,  \* which of GnSettings this behaviour runs under
  gnAddress,  \* of each box: the address it has
  gnRev,      \* of each box: how often its configuration has changed
  gnCall,     \* of each call: see GnTypeOK
  feed,       \* of each call: the client's thread, its queue, error and deadline
  gnHits      \* history: of each call, the boxes that carried out its set

gnVars == <<gnSetting, gnAddress, gnRev, gnCall, feed, gnHits>>

Wants(c) == gnSetting.orders[c]

GnInit ==
  /\ gnSetting \in GnSettings
  /\ gnAddress = gnSetting.address
  /\ gnRev = [b \in DOMAIN gnAddress |-> 1]
  /\ gnCall = [c \in DOMAIN gnSetting.orders |->
       [pc |-> "idle", host |-> "none", got |-> <<>>, synced |-> FALSE, cut |-> FALSE, verdict |-> "none"]]
  /\ feed = [c \in DOMAIN gnSetting.orders |-> [sent |-> 0, queue |-> <<>>, error |-> FALSE, late |-> FALSE]]
  /\ gnHits = [c \in DOMAIN gnSetting.orders |-> <<>>]

GnFault(f) == f \in gnSetting.faults
GnMoves(c, next) == gnCall' = [gnCall EXCEPT ![c] = next]
GnOver(c, v) == [gnCall[c] EXCEPT !.pc = "over", !.verdict = v]
NetStays == UNCHANGED <<gnSetting, gnAddress>>
BoxHas(addr) == {b \in DOMAIN gnAddress : gnAddress[b] = addr}

(***************************************************************************)
(* Opening a client                                                         *)
(***************************************************************************)
HasOperation(c) == Wants(c).paths # <<>>

\* A set without an operation is refused; one without confirm says what it
\* would send and touches nothing.
SetChecked(c) ==
  IF ~HasOperation(c) THEN GnOver(c, "refused")
  ELSE IF ~Wants(c).confirm THEN GnOver(c, "dry_run")
  ELSE [gnCall[c] EXCEPT !.pc = "open"]

\* A read or a subscription without a path is refused.
ReadChecked(c) ==
  IF Wants(c).paths = <<>> /\ Wants(c).tool # "capabilities" THEN GnOver(c, "refused")
  ELSE [gnCall[c] EXCEPT !.pc = "open"]

Check(c) ==
  /\ gnCall[c].pc = "idle"
  /\ GnMoves(c, IF Wants(c).tool = "set" THEN SetChecked(c) ELSE ReadChecked(c))
  /\ UNCHANGED <<gnRev, feed, gnHits>> /\ NetStays

\* The paths of the Get under way: one of get_many's, or all there are.
Now(c) == IF Wants(c).tool = "get_many" THEN <<Wants(c).paths[Len(gnCall[c].got) + 1]>> ELSE Wants(c).paths

\* gnmi_get_many goes on with its next path whatever became of this one.
TookNext(c, entries) ==
  LET got == gnCall[c].got \o entries
      failed == \A i \in DOMAIN got : got[i].status # "ok" IN
  IF Len(got) < Len(Wants(c).paths) THEN [gnCall[c] EXCEPT !.pc = "open", !.got = got]
  ELSE [GnOver(c, IF failed THEN "error" ELSE "ok") EXCEPT !.got = got]

\* What a Get adds to the answer, and what the call does then.
Took(c, entries, v) ==
  IF Wants(c).tool = "get_many" THEN TookNext(c, entries) ELSE [GnOver(c, v) EXCEPT !.got = entries]

Failed(c) == [i \in DOMAIN Now(c) |-> [path |-> Now(c)[i], status |-> "error", box |-> "none", rev |-> 0]]

\* resolve_host: the address the chassis confirms, or the map's; an address
\* that is not confirmed stops the call.
Open(c) ==
  /\ gnCall[c].pc = "open"
  /\ \/ GnMoves(c, [gnCall[c] EXCEPT !.pc = "send", !.host =
          IF Wants(c).verify THEN gnAddress[Wants(c).dev] ELSE gnSetting.cached[Wants(c).dev]])
     \/ /\ Wants(c).verify /\ GnFault("unverified")
        /\ GnMoves(c, IF Wants(c).tool \in GnReads THEN Took(c, Failed(c), "connect_error")
                      ELSE GnOver(c, "connect_error"))
  /\ UNCHANGED <<gnRev, feed, gnHits>> /\ NetStays

(***************************************************************************)
(* Get and Set                                                              *)
(***************************************************************************)
Refuses(paths) == \E i \in DOMAIN paths : paths[i] \in gnSetting.bad

\* One RPC is answered out of one state of the box; a path it refuses fails
\* the whole of it.
Get(c) ==
  /\ gnCall[c].pc = "send" /\ Wants(c).tool \in GnReads
  /\ \/ \E b \in BoxHas(gnCall[c].host) :
          /\ ~Refuses(Now(c))
          /\ GnMoves(c, Took(c, [i \in DOMAIN Now(c) |->
               [path |-> Now(c)[i], status |-> "ok", box |-> b, rev |-> gnRev[b]]], "ok"))
     \/ /\ Refuses(Now(c)) \/ GnFault("lose") \/ BoxHas(gnCall[c].host) = {}
        /\ GnMoves(c, Took(c, Failed(c), "error"))
  /\ UNCHANGED <<gnRev, feed, gnHits>> /\ NetStays

CarriedOut(c, b) ==
  /\ gnRev' = [gnRev EXCEPT ![b] = @ + 1]
  /\ gnHits' = [gnHits EXCEPT ![c] = Append(@, b)]

\* The box applies all of a Set or nothing; the answer may be lost.
Set(c) ==
  /\ gnCall[c].pc = "send" /\ Wants(c).tool = "set"
  /\ \/ \E b \in BoxHas(gnCall[c].host) :
          /\ ~Refuses(Wants(c).paths) /\ CarriedOut(c, b)
          /\ \E v \in {"ok"} \cup IF GnFault("lose") THEN {"error"} ELSE {} : GnMoves(c, GnOver(c, v))
     \/ /\ Refuses(Wants(c).paths) \/ GnFault("lose") \/ BoxHas(gnCall[c].host) = {}
        /\ UNCHANGED <<gnRev, gnHits>> /\ GnMoves(c, GnOver(c, "error"))
  /\ UNCHANGED feed /\ NetStays

\* gnmi_ping and gnmi_capabilities, which are not paced.
Capabilities(c) ==
  /\ gnCall[c].pc = "send" /\ Wants(c).tool = "capabilities"
  /\ \/ \E b \in BoxHas(gnCall[c].host) :
          GnMoves(c, [GnOver(c, "ok") EXCEPT !.got = <<[box |-> b]>>])
     \/ (GnFault("lose") \/ BoxHas(gnCall[c].host) = {}) /\ GnMoves(c, GnOver(c, "connect_error"))
  /\ UNCHANGED <<gnRev, feed, gnHits>> /\ NetStays

(***************************************************************************)
(* Subscribe                                                                *)
(***************************************************************************)
Subscribe(c) ==
  /\ gnCall[c].pc = "send" /\ Wants(c).tool = "subscribe"
  /\ GnMoves(c, IF BoxHas(gnCall[c].host) = {} THEN GnOver(c, "error") ELSE [gnCall[c] EXCEPT !.pc = "stream"])
  /\ UNCHANGED <<gnRev, feed, gnHits>> /\ NetStays

Streams(c) == gnCall[c].pc \in {"stream", "blocked", "last"}

\* The client's thread: the next message, or the end of the stream; a path
\* the device refuses ends it at once.
Feed(c) ==
  /\ Streams(c) /\ ~feed[c].error
  /\ \/ /\ ~Refuses(Wants(c).paths) /\ feed[c].sent < Len(gnSetting.script)
        /\ feed' = [feed EXCEPT ![c].sent = @ + 1, ![c].queue = Append(@, gnSetting.script[feed[c].sent + 1])]
     \/ Refuses(Wants(c).paths) /\ feed' = [feed EXCEPT ![c].error = TRUE]
     \/ GnFault("drop") /\ feed' = [feed EXCEPT ![c].error = TRUE]
  /\ UNCHANGED <<gnRev, gnCall, gnHits>> /\ NetStays

\* duration_s is over.
Deadline(c) ==
  /\ gnCall[c].pc \in {"stream", "blocked"} /\ ~feed[c].late
  /\ feed' = [feed EXCEPT ![c].late = TRUE]
  /\ UNCHANGED <<gnRev, gnCall, gnHits>> /\ NetStays

\* Fault: the cap is one event late.
Full_Late(c) == Wants(c).cap > 0 /\ Len(gnCall[c].got) > Wants(c).cap

Full(c) == Wants(c).cap > 0 /\ Len(gnCall[c].got) >= Wants(c).cap

\* The head of the loop: the deadline, the cap, the thread's failure.
Turn(c) ==
  /\ gnCall[c].pc = "stream"
  /\ GnMoves(c, IF feed[c].late THEN [gnCall[c] EXCEPT !.pc = "last"]
                ELSE IF Full(c) THEN [gnCall[c] EXCEPT !.pc = "last", !.cut = TRUE]
                ELSE IF feed[c].error THEN [GnOver(c, "error") EXCEPT !.got = <<>>]
                ELSE [gnCall[c] EXCEPT !.pc = "blocked"])
  /\ UNCHANGED <<gnRev, feed, gnHits>> /\ NetStays

\* _collect_events: the updates of a notification, then its deletes, marked
\* if no sync_response has come.
EventsOf(note, pre) ==
  LET all == note.updates \o note.deletes IN [i \in DOMAIN all |-> [event |-> all[i], pre |-> pre]]
Collected(c, note) == gnCall[c].got \o EventsOf(note, ~gnCall[c].synced)

Receive(c) ==
  /\ gnCall[c].pc = "blocked" /\ feed[c].queue # <<>>
  /\ LET note == Head(feed[c].queue) IN
     GnMoves(c, [gnCall[c] EXCEPT !.pc = "stream",
                   !.synced = @ \/ note.kind = "sync",
                   !.got = IF note.kind = "note" THEN Collected(c, note) ELSE @])
  /\ feed' = [feed EXCEPT ![c].queue = Tail(@)]
  /\ UNCHANGED <<gnRev, gnHits>> /\ NetStays

TimesOut(c) ==
  /\ gnCall[c].pc = "blocked" /\ feed[c].queue = <<>> /\ feed[c].late
  /\ GnMoves(c, [gnCall[c] EXCEPT !.pc = "last"])
  /\ UNCHANGED <<gnRev, feed, gnHits>> /\ NetStays

\* A failure is told only if there is no event to tell of.
Report(c) ==
  /\ gnCall[c].pc = "last"
  /\ GnMoves(c, IF feed[c].error /\ gnCall[c].got = <<>> THEN GnOver(c, "error")
                ELSE [GnOver(c, "ok") EXCEPT !.got = IF Full(c) THEN SubSeq(@, 1, Wants(c).cap) ELSE @,
                                             !.cut = @ \/ Full(c)])
  /\ UNCHANGED <<gnRev, feed, gnHits>> /\ NetStays

(***************************************************************************)
(* The world                                                                *)
(***************************************************************************)
EditElsewhere ==
  /\ \E b \in DOMAIN gnRev :
       gnRev[b] <= gnSetting.edits /\ gnRev' = [gnRev EXCEPT ![b] = @ + 1]
  /\ UNCHANGED <<gnCall, feed, gnHits>> /\ NetStays

SwapAddresses ==
  /\ gnSetting.swaps > 0 /\ gnAddress = gnSetting.address
  /\ \E m, n \in DOMAIN gnAddress :
       m # n /\ gnAddress' = [gnAddress EXCEPT ![m] = gnAddress[n], ![n] = gnAddress[m]]
  /\ UNCHANGED <<gnSetting, gnRev, gnCall, feed, gnHits>>

GnStep(c) ==
  \/ Check(c) \/ Open(c) \/ Get(c) \/ Set(c) \/ Capabilities(c)
  \/ Subscribe(c) \/ Feed(c) \/ Deadline(c) \/ Turn(c) \/ Receive(c) \/ TimesOut(c) \/ Report(c)

GnNext == (\E c \in DOMAIN gnCall : GnStep(c)) \/ EditElsewhere \/ SwapAddresses

GnSpec == GnInit /\ [][GnNext]_gnVars

(***************************************************************************)
(* Properties                                                               *)
(***************************************************************************)
\* The types of the variables.
GnTypeOK ==
  /\ \A c \in DOMAIN gnCall :
       /\ gnCall[c].pc \in {"idle", "open", "send", "stream", "blocked", "last", "over"}
       /\ gnCall[c].verdict \in {"none", "ok", "error", "refused", "dry_run", "connect_error"}
       /\ feed[c].sent \in 0..Len(gnSetting.script) /\ gnCall[c].synced \in BOOLEAN

\* The device has one address throughout, and the call takes that one.
Firm(c) == gnSetting.swaps = 0
           /\ (Wants(c).verify \/ gnSetting.cached[Wants(c).dev] = gnSetting.address[Wants(c).dev])

\* A Set is carried out at most once, by its own device, when it was answered
\* ok, and never when it was a dry run, was refused or got no client.
SetsHold == \A c \in DOMAIN gnCall :
  /\ Len(gnHits[c]) <= 1
  /\ Wants(c).tool = "set" /\ gnCall[c].verdict = "ok" => Len(gnHits[c]) = 1
  /\ gnHits[c] # <<>> => Wants(c).confirm /\ gnCall[c].verdict \in {"ok", "error"}
  /\ Firm(c) => \A i \in DOMAIN gnHits[c] : gnHits[c][i] = Wants(c).dev

\* A read that is answered ok has an entry for every path, in their order, of
\* its own device; one RPC shows one state of it, and several in turn never go
\* back to an older one; a get_many fails only when every path has failed.
ReadsHold == \A c \in DOMAIN gnCall :
  LET got == gnCall[c].got IN
  Wants(c).tool \in GnReads /\ gnCall[c].verdict \in {"ok", "error"} =>
    /\ Len(got) = Len(Wants(c).paths) /\ \A i \in DOMAIN got : got[i].path = Wants(c).paths[i]
    /\ Wants(c).tool # "get_many" => \A i, j \in DOMAIN got : got[i].rev = got[j].rev
    /\ (gnCall[c].verdict = "ok") = (\E i \in DOMAIN got : got[i].status = "ok")
    /\ Firm(c) => \A i, j \in DOMAIN got :
         /\ got[i].box \in {Wants(c).dev, "none"}
         /\ i < j /\ got[i].status = "ok" /\ got[j].status = "ok" => got[i].rev <= got[j].rev

\* The events of the first n messages, marked as before or after the
\* sync_response as they were sent.
EventsSent(script) ==
  LET upto[n \in 0..Len(script)] ==
        IF n = 0 THEN <<>>
        ELSE upto[n - 1] \o (IF script[n].kind = "note"
                             THEN EventsOf(script[n], \A k \in 1..(n - 1) : script[k].kind # "sync") ELSE <<>>)
  IN upto

\* What a subscription reports is all it was sent until it stopped, in order
\* and without a gap, or the first of it up to the cap; truncated says that
\* the cap was reached; and a stream that was refused is never a quiet ok.
StreamsHold == \A c \in DOMAIN gnCall :
  Wants(c).tool = "subscribe" /\ gnCall[c].verdict = "ok" =>
    /\ LET all == EventsSent(gnSetting.script)[feed[c].sent - Len(feed[c].queue)] IN
       /\ Len(gnCall[c].got) = Len(all) \/ (Wants(c).cap > 0 /\ Len(gnCall[c].got) = Wants(c).cap)
       /\ Len(gnCall[c].got) <= Len(all) /\ \A i \in DOMAIN gnCall[c].got : gnCall[c].got[i] = all[i]
    /\ Wants(c).cap > 0 => Len(gnCall[c].got) <= Wants(c).cap
    /\ gnCall[c].cut <=> Wants(c).cap > 0 /\ Len(gnCall[c].got) = Wants(c).cap
    /\ feed[c].error => gnCall[c].got # <<>>

\* The three of gNMI.
GnmiHolds == SetsHold /\ ReadsHold /\ StreamsHold
=============================================================================

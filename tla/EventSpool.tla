------------------------------ MODULE EventSpool ------------------------------
(***************************************************************************)
(* The event collector, `qactl cli monitor tick` and `monitor reset`        *)
(* (qactl/dnos/cli/tools/monitor.py), and its memory between ticks, the     *)
(* spool file (cli/core/event_spool.py): per device a cursor, the events    *)
(* already seen and the last state of its link.                             *)
(*                                                                         *)
(* A tick loads the spool once, goes through its devices one after the      *)
(* other, reads, records and posts, and saves the spool once, at the end.   *)
(* Threads of a process exclude each other; processes do not.               *)
(***************************************************************************)
EXTENDS Naturals, Sequences, FiniteSets, Functions

CONSTANTS
  Tickers,       \* threads that run ticks
  ProcessOf,     \* the process each belongs to
  DeviceOrder,   \* the devices, in the order a tick visits them
  Events,        \* the lines of the devices' event logs
  On, Stamp,     \* device and time stamp of an event
  Alertworthy,   \* the events that pass severity, match and exclude
  Overlap,       \* how far a tick reads back behind the cursor
  Lookback,      \* how far a tick reads back with no cursor
  SeenCap,       \* how many seen events the spool keeps per device
  MaxPerDevice,  \* max_events_per_device
  MaxTime,       \* bound: the time the behaviour ends
  NoCursor,
  SpoolSettings  \* what a run lets happen, see SpoolAssumption

Monitored == Range(DeviceOrder)
SpoolFaults == {"read", "slack", "disk", "crash"}

\* A setting: the threads that tick, what may fail, whether the memory is
\* reset, and as bounds the ticks, the setbacks and the link changes.
SpoolAssumption ==
  /\ \A s \in SpoolSettings :
       /\ s.tickers \subseteq Tickers /\ s.faults \subseteq SpoolFaults
       /\ s.resets \in BOOLEAN /\ {s.ticks, s.setbacks, s.flips} \subseteq Nat
  /\ DeviceOrder \in Seq(Monitored) \ {<<>>}
  /\ On \in [Events -> Monitored] /\ Stamp \in [Events -> Nat]
  /\ Alertworthy \subseteq Events /\ "down" \notin Events /\ NoCursor \notin Nat
  /\ {Overlap, Lookback, MaxTime} \subseteq Nat /\ {SeenCap, MaxPerDevice} \subseteq Nat \ {0}

ASSUME SpoolAssumption

VARIABLES
  plan,      \* which of SpoolSettings this behaviour runs under
  now, log,  \* the time, and the lines that can be read by now
  link,      \* the state of each device's link
  file,      \* the spool file: device -> [cursor, seen, link]
  tick,      \* what each thread is doing, see EventTypeOK
  ticksLeft, flipsLeft,
  told,      \* history: how often each event was posted
  missed,    \* history: events cut from a tick or refused by Slack
  early,     \* history: events before the lookback of a tick with no cursor
  downs,     \* history: of each device, downs of its link, and posts of them
  setbacks   \* history: crashes, failed saves and resets

eventVars == <<plan, now, log, link, file, tick, ticksLeft, flipsLeft, told,
               missed, early, downs, setbacks>>
history == <<told, missed, early, downs, setbacks>>

Forgotten == [cursor |-> NoCursor, seen |-> <<>>, link |-> "unknown"]
AtRest == [pc |-> "idle", dry |-> FALSE, todo |-> <<>>, spool |-> <<>>, found |-> {}, posts |-> <<>>]

EventInit ==
  /\ plan \in SpoolSettings
  /\ now = 0 /\ log = {} /\ link = [d \in Monitored |-> "UP"]
  /\ file = [d \in Monitored |-> Forgotten]
  /\ tick = [p \in Tickers |-> AtRest]
  /\ ticksLeft = plan.ticks /\ flipsLeft = plan.flips
  /\ told = [e \in Events |-> 0] /\ missed = {} /\ early = {}
  /\ downs = [d \in Monitored |-> [real |-> 0, told |-> 0]] /\ setbacks = 0

-----------------------------------------------------------------------------
(* The devices.                                                            *)

Clock == now < MaxTime /\ now' = now + 1
         /\ UNCHANGED <<plan, log, link, file, tick, ticksLeft, flipsLeft, history>>

\* A line is merged into the readable log late, but no later than Overlap.
Arrive(e) ==
  /\ e \notin log /\ Stamp[e] <= now /\ now <= Stamp[e] + Overlap
  /\ log' = log \cup {e}
  /\ UNCHANGED <<plan, now, link, file, tick, ticksLeft, flipsLeft, history>>

Flip(d) ==
  /\ flipsLeft > 0 /\ flipsLeft' = flipsLeft - 1
  /\ link' = [link EXCEPT ![d] = IF @ = "UP" THEN "DOWN" ELSE "UP"]
  /\ downs' = [downs EXCEPT ![d].real = @ + (IF link[d] = "UP" THEN 1 ELSE 0)]
  /\ UNCHANGED <<plan, now, log, file, tick, ticksLeft, told, missed, early, setbacks>>

-----------------------------------------------------------------------------
(* A tick.                                                                 *)

Unlocked(p) == \A q \in Tickers : ProcessOf[q] = ProcessOf[p] => tick[q].pc = "idle"

\* Fault: the spool is loaded before the lock is taken.
StartTick_Unlocked(p, dry) ==
  /\ p \in plan.tickers /\ tick[p].pc = "idle" /\ ticksLeft > 0
  /\ ticksLeft' = ticksLeft - 1
  /\ tick' = [tick EXCEPT ![p] = [AtRest EXCEPT !.pc = "log", !.dry = dry,
                                                !.todo = DeviceOrder, !.spool = file]]
  /\ UNCHANGED <<plan, now, log, link, file, flipsLeft, history>>

\* monitor_tick takes the lock of the process and loads the spool.
StartTick(p, dry) ==
  /\ p \in plan.tickers /\ Unlocked(p) /\ ticksLeft > 0
  /\ ticksLeft' = ticksLeft - 1
  /\ tick' = [tick EXCEPT ![p] = [AtRest EXCEPT !.pc = "log", !.dry = dry,
                                                !.todo = DeviceOrder, !.spool = file]]
  /\ UNCHANGED <<plan, now, log, link, file, flipsLeft, history>>

At(p) == Head(tick[p].todo)
Mem(p) == tick[p].spool[At(p)]

\* Fault: the window starts at the cursor.
Since_AtCursor(cursor, e) ==
  IF cursor = NoCursor THEN Stamp[e] + Lookback >= now ELSE Stamp[e] >= cursor

\* Whether e is inside the window a tick asks for.
Since(cursor, e) ==
  IF cursor = NoCursor THEN Stamp[e] + Lookback >= now ELSE Stamp[e] + Overlap >= cursor

IsNew(mem, e) == e \notin Range(mem.seen)

Newest(cursor, lines) ==
  LET stamps == {Stamp[e] : e \in lines} \cup ({cursor} \ {NoCursor})
  IN IF stamps = {} THEN NoCursor ELSE CHOOSE t \in stamps : \A u \in stamps : u <= t

\* In the order of the log, by time stamp.
InOrder(lines) ==
  CHOOSE s \in [1..Cardinality(lines) -> lines] :
    IsInjective(s) /\ \A i, j \in DOMAIN s : i < j => Stamp[s[i]] <= Stamp[s[j]]

\* Fault: the ring keeps one event less than its cap.
LastSeen_OneShort(seen) ==
  IF Len(seen) >= SeenCap THEN SubSeq(seen, Len(seen) - SeenCap + 2, Len(seen)) ELSE seen

LastSeen(seen) ==
  IF Len(seen) > SeenCap THEN SubSeq(seen, Len(seen) - SeenCap + 1, Len(seen)) ELSE seen

\* The alerts of the window are appended unless seen; the cursor moves to the
\* newest of all lines, forward only.
Record(mem, lines) ==
  [mem EXCEPT !.seen = LastSeen(mem.seen \o InOrder({e \in lines \cap Alertworthy : IsNew(mem, e)})),
              !.cursor = Newest(mem.cursor, lines)]

\* get_system_events of the device at hand, and what the tick makes of it.
ReadLog(p) ==
  /\ tick[p].pc = "log"
  /\ LET d == At(p)
         lines == {e \in log : On[e] = d /\ Since(Mem(p).cursor, e)} IN
     \/ /\ tick' = [tick EXCEPT ![p] = [tick[p] EXCEPT !.pc = "links",
              !.found = {e \in lines \cap Alertworthy : IsNew(Mem(p), e)},
              !.spool[d] = IF tick[p].dry THEN Mem(p) ELSE Record(Mem(p), lines)]]
        /\ early' = IF Mem(p).cursor # NoCursor \/ tick[p].dry THEN early
                    ELSE early \cup {e \in Events : On[e] = d /\ ~Since(NoCursor, e)}
     \/ "read" \in plan.faults /\ tick' = [tick EXCEPT ![p].pc = "links"] /\ UNCHANGED early
  /\ UNCHANGED <<plan, now, log, link, file, ticksLeft, flipsLeft, told, missed, downs, setbacks>>

\* What is posted: the link that went down is the newest, then the events,
\* newest first.
Alerts(found, down) ==
  LET up == InOrder(found) IN
  (IF down THEN <<"down">> ELSE <<>>) \o [i \in DOMAIN up |-> up[Len(up) + 1 - i]]

\* The link state over gNMI and its difference to the snapshot, and then the
\* alerts of the device, cut at max_events_per_device.
ReadLinks(p) ==
  /\ tick[p].pc = "links"
  /\ \E read \in IF "read" \in plan.faults THEN BOOLEAN ELSE {TRUE} :
       LET d == At(p)
           down == read /\ Mem(p).link = "UP" /\ link[d] = "DOWN"
           alerts == Alerts(tick[p].found, down)
           kept == SubSeq(alerts, 1, IF Len(alerts) > MaxPerDevice THEN MaxPerDevice ELSE Len(alerts))
       IN /\ tick' = [tick EXCEPT ![p] = [tick[p] EXCEPT !.pc = "post", !.found = {},
                !.posts = IF tick[p].dry THEN <<>> ELSE kept,
                !.spool[d].link = IF read /\ ~tick[p].dry THEN link[d] ELSE Mem(p).link]]
          /\ missed' = IF tick[p].dry THEN missed
                       ELSE missed \cup (tick[p].found \ Range(kept))
  /\ UNCHANGED <<plan, now, log, link, file, ticksLeft, flipsLeft, told, early, downs, setbacks>>

\* One alert goes to Slack: it is taken, refused, or taken with its answer lost.
Post(p) ==
  /\ tick[p].pc = "post" /\ tick[p].posts # <<>>
  /\ \E taken \in BOOLEAN, heard \in BOOLEAN :
       /\ (taken /\ heard) \/ ("slack" \in plan.faults /\ ~heard)
       /\ LET alert == Head(tick[p].posts)  d == At(p) IN
          IF alert = "down"
          THEN /\ downs' = [downs EXCEPT ![d].told = @ + (IF taken THEN 1 ELSE 0)]
               /\ UNCHANGED <<told, missed>>
          ELSE /\ told' = [told EXCEPT ![alert] = @ + (IF taken THEN 1 ELSE 0)]
               /\ missed' = IF heard THEN missed ELSE missed \cup {alert}
               /\ UNCHANGED downs
  /\ tick' = [tick EXCEPT ![p].posts = Tail(@)]
  /\ UNCHANGED <<plan, now, log, link, file, ticksLeft, flipsLeft, early, setbacks>>

NextDevice(p) ==
  /\ tick[p].pc = "post" /\ tick[p].posts = <<>> /\ Len(tick[p].todo) > 1
  /\ tick' = [tick EXCEPT ![p].pc = "log", ![p].todo = Tail(@)]
  /\ UNCHANGED <<plan, now, log, link, file, ticksLeft, flipsLeft, history>>

SetBack == setbacks < plan.setbacks /\ setbacks' = setbacks + 1

\* The spool is saved, unless the tick was a dry run; a save that fails is
\* not reported.
Save(p) ==
  /\ tick[p].pc = "post" /\ tick[p].posts = <<>> /\ Len(tick[p].todo) = 1
  /\ \/ file' = (IF tick[p].dry THEN file ELSE tick[p].spool) /\ UNCHANGED setbacks
     \/ "disk" \in plan.faults /\ ~tick[p].dry /\ SetBack /\ UNCHANGED file
  /\ tick' = [tick EXCEPT ![p] = AtRest]
  /\ UNCHANGED <<plan, now, log, link, ticksLeft, flipsLeft, told, missed, early, downs>>

\* The process of p dies.
Die(p) ==
  /\ "crash" \in plan.faults /\ tick[p].pc # "idle" /\ SetBack
  /\ tick' = [q \in Tickers |-> IF ProcessOf[q] = ProcessOf[p] THEN AtRest ELSE tick[q]]
  /\ UNCHANGED <<plan, now, log, link, file, ticksLeft, flipsLeft, told, missed, early, downs>>

\* monitor_reset of some devices, under the same lock.
Reset(p, ds) ==
  /\ plan.resets /\ p \in plan.tickers /\ Unlocked(p) /\ SetBack
  /\ file' = [d \in Monitored |-> IF d \in ds THEN Forgotten ELSE file[d]]
  /\ UNCHANGED <<plan, now, log, link, tick, ticksLeft, flipsLeft, told, missed, early, downs>>

TickStep(p) == ReadLog(p) \/ ReadLinks(p) \/ Post(p) \/ NextDevice(p) \/ Save(p)

EventNext ==
  \/ Clock
  \/ \E e \in Events : Arrive(e)
  \/ \E d \in Monitored : Flip(d)
  \/ \E p \in Tickers :
       \/ \E dry \in BOOLEAN : StartTick(p, dry)
       \/ TickStep(p)
       \/ Die(p)
       \/ \E ds \in SUBSET Monitored \ {{}} : Reset(p, ds)

EventSpec == EventInit /\ [][EventNext]_eventVars

-----------------------------------------------------------------------------
IsSpool(s) ==
  /\ DOMAIN s = Monitored
  /\ \A d \in Monitored :
       /\ s[d].cursor \in Nat \cup {NoCursor} /\ s[d].link \in {"unknown", "UP", "DOWN"}
       /\ Range(s[d].seen) \subseteq Alertworthy
       /\ Len(s[d].seen) <= SeenCap /\ IsInjective(s[d].seen)

\* The types of the variables.
EventTypeOK ==
  /\ now \in 0..MaxTime /\ log \subseteq Events
  /\ IsSpool(file)
  /\ \A p \in Tickers :
       /\ tick[p].pc \in {"idle", "log", "links", "post"}
       /\ tick[p].pc # "idle" => IsSpool(tick[p].spool) /\ tick[p].todo # <<>>

OneProcess == \A p, q \in plan.tickers : ProcessOf[p] = ProcessOf[q]

\* What the spool has put behind it was told: an alertworthy event that it has
\* marked as seen, or that no later window reaches, was posted, or its tick
\* reported it as cut or refused, or it came before the lookback of a tick
\* with no cursor.  It holds for lines that arrive late, across crashes,
\* failed saves and resets, and for processes that tick at the same time.
NothingFallsThrough ==
  \A e \in log \cap Alertworthy :
    LET mem == file[On[e]] IN
    ~IsNew(mem, e) \/ (mem.cursor # NoCursor /\ ~Since(mem.cursor, e))
    => told[e] > 0 \/ e \in missed \cup early

\* "A genuinely-old event alerts exactly once" (cli/tools/monitor.py:133): in
\* one process every setback - a crash, a failed save, a reset - costs at most
\* one more post of an event, or of a link that went down.
AlertedOnce ==
  OneProcess => /\ \A e \in Events : told[e] <= 1 + setbacks
                /\ \A d \in Monitored : downs[d].told <= downs[d].real + setbacks

\* The ring is large enough: no more alerts than it holds fall within one
\* overlap of another.
RingHolds == \A e \in Alertworthy :
  LET near == {f \in Alertworthy : /\ On[f] = On[e]
                                   /\ Stamp[f] <= Stamp[e] + Overlap
                                   /\ Stamp[e] <= Stamp[f] + Overlap}
  IN IsFiniteSet(near) /\ Cardinality(near) <= SeenCap

\* An event is told, and told no more often than it must.
EventsHold == NothingFallsThrough /\ AlertedOnce
=============================================================================

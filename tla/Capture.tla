------------------------------- MODULE Capture -------------------------------
(***************************************************************************)
(* Packet captures on one device: qactl/dnos/cli/tools/capture.py and       *)
(* core/capture_driver.py.  A capture drives one shell channel through the  *)
(* steps below.  A routing capture runs a tcpdump of its own; the datapath  *)
(* captures of an NCP share its one sink (wbox-cli) and the switch for      *)
(* dropped packets.  The file is pushed to the local host (scp), or pulled  *)
(* over the channel from a cdnos node, and judged where it landed.          *)
(***************************************************************************)
EXTENDS Naturals, FiniteSets

CONSTANTS
  Caps,         \* the captures of a behaviour
  CapSettings,  \* what they may be: [capture -> [mode, path]]
  CapPaths,     \* names of pcap files: prefix, device and second of the start
  MaxCapFaults  \* bound: commands that fail or never answer

Closed == "closed"
NoFile == [of |-> "none", whole |-> FALSE]

ASSUME CaptureAssumption ==
  /\ MaxCapFaults \in Nat
  /\ Closed \notin Caps /\ NoFile.of \notin Caps
  /\ CapSettings \subseteq [Caps -> [mode : {"routing", "cdnos", "datapath"}, path : CapPaths]]

VARIABLES
  capOf,    \* of each capture, its mode ("routing", "cdnos", "datapath") and file
  capAt,    \* of each capture: where it stands, see CapTypeOK
  pcaps,    \* of each path, the file in /tmp of the device
  landed,   \* of each path, the file on the local host
  sink,     \* the capture that opened the NCP's sink, or Closed
  dropped,  \* the NCP records dropped packets
  capFaults

capVars == <<capOf, capAt, pcaps, landed, sink, dropped, capFaults>>

\* The packets of a capture, all of them or not.
Pcap(c, whole) == [of |-> c, whole |-> whole]
Pcaps == {NoFile} \cup [of : Caps, whole : BOOLEAN]
PathOf(c) == capOf[c].path

CapOver == {"ok", "error", "killed"}

CapInit ==
  /\ capOf \in CapSettings
  /\ capAt = [c \in Caps |-> [pc |-> "new", tries |-> 0, met |-> FALSE, left |-> FALSE,
                                lost |-> FALSE]]
  /\ pcaps = [p \in CapPaths |-> NoFile] /\ landed = pcaps
  /\ sink = Closed /\ dropped = FALSE /\ capFaults = 0

CapGoto(c, pc) == capAt' = [capAt EXCEPT ![c].pc = pc]
CapFault == capFaults < MaxCapFaults /\ capFaults' = capFaults + 1

\* run start shell; then rm -f of the one path.
EnterShell(c) ==
  /\ capAt[c].pc = "new"
  /\ \/ CapGoto(c, "remove") /\ UNCHANGED capFaults
     \/ CapFault /\ CapGoto(c, "error")
  /\ UNCHANGED <<capOf, pcaps, landed, sink, dropped>>

RemoveOld(c) ==
  /\ capAt[c].pc = "remove"
  /\ pcaps' = [pcaps EXCEPT ![PathOf(c)] = NoFile]
  /\ CapGoto(c, IF capOf[c].mode = "datapath" THEN "space" ELSE "dump")
  /\ UNCHANGED <<capOf, landed, sink, dropped, capFaults>>

\* The tcpdump of a routing capture, which may not answer in time.
Tcpdump(c) ==
  /\ capAt[c].pc = "dump"
  /\ pcaps' = [pcaps EXCEPT ![PathOf(c)] = Pcap(c, FALSE)]
  /\ CapGoto(c, "dumping")
  /\ UNCHANGED <<capOf, landed, sink, dropped, capFaults>>

\* timeout(1) ends it: its file is whole, unless another capture of the same
\* name has removed it or writes to it.
TcpdumpEnds(c) ==
  /\ capAt[c].pc = "dumping"
  /\ pcaps' = [pcaps EXCEPT ![PathOf(c)] = IF @ = Pcap(c, FALSE) THEN Pcap(c, TRUE) ELSE @]
  /\ \/ CapGoto(c, "verify") /\ UNCHANGED capFaults
     \/ CapFault /\ CapGoto(c, "error")
  /\ UNCHANGED <<capOf, landed, sink, dropped>>

-----------------------------------------------------------------------------
(* The datapath: one sink for all.                                         *)

\* Too little space in /tmp ends the capture before it has touched anything.
FreeSpace(c) ==
  /\ capAt[c].pc = "space"
  /\ \/ CapGoto(c, "reset") /\ UNCHANGED capFaults
     \/ CapFault /\ CapGoto(c, "error")
  /\ UNCHANGED <<capOf, pcaps, landed, sink, dropped>>

\* The sink is closed, whoever holds it, who then has lost packets.
CloseSink ==
  /\ sink' = Closed
  /\ pcaps' = IF sink = Closed THEN pcaps
              ELSE [pcaps EXCEPT ![PathOf(sink)] = IF @.of = sink THEN Pcap(sink, FALSE) ELSE @]

\* Those that hold the sink, or are about to, have met another capture.
Meet(c) == [k \in Caps |-> IF k # c /\ capAt[k].pc \in {"open", "hold", "close"}
                           THEN [capAt[k] EXCEPT !.met = TRUE] ELSE capAt[k]]

\* Any prior sink is reset, then dropped packets are recorded.
ResetSink(c) ==
  /\ capAt[c].pc = "reset"
  /\ CloseSink /\ dropped' = TRUE
  /\ capAt' = [Meet(c) EXCEPT ![c].pc = "open",
                 ![c].met = \E k \in Caps \ {c} : capAt[k].pc \in {"open", "hold", "close"}]
  /\ UNCHANGED <<capOf, landed, capFaults>>

\* "trying to open pcap when it is open": closed, and tried again, three
\* times.  What gives up, or is refused, leaves dropped packets recorded.  A
\* late reply of an earlier command may be taken for a refused one's.
OpenSink(c) ==
  /\ capAt[c].pc = "open"
  /\ IF sink = Closed
     THEN \/ /\ sink' = c /\ pcaps' = [pcaps EXCEPT ![PathOf(c)] = Pcap(c, FALSE)]
             /\ CapGoto(c, "hold") /\ UNCHANGED capFaults
          \/ CapFault /\ capAt' = [capAt EXCEPT ![c].pc = "error", ![c].left = TRUE]
             /\ UNCHANGED <<sink, pcaps>>
          \/ CapFault /\ CapGoto(c, "hold") /\ UNCHANGED <<sink, pcaps>>
     ELSE /\ CloseSink
          /\ capAt' = [Meet(c) EXCEPT ![c].tries = @ + 1, ![c].met = TRUE,
                         ![c].pc = IF capAt[c].tries = 2 THEN "error" ELSE "open",
                         ![c].left = capAt[c].tries = 2]
          /\ UNCHANGED capFaults
  /\ UNCHANGED <<capOf, landed, dropped>>

\* Held for the duration, or until the size cap is hit.
Hold(c) ==
  /\ capAt[c].pc = "hold" /\ CapGoto(c, "close")
  /\ UNCHANGED <<capOf, pcaps, landed, sink, dropped, capFaults>>

\* The end closes whatever sink is open, and stops the recording for all.
CloseCapture(c) ==
  /\ capAt[c].pc = "close"
  /\ IF sink = c THEN sink' = Closed /\ pcaps' = [pcaps EXCEPT ![PathOf(c)] = Pcap(c, TRUE)]
     ELSE CloseSink
  /\ dropped' = FALSE
  /\ capAt' = [Meet(c) EXCEPT ![c].pc = "verify"]
  /\ UNCHANGED <<capOf, landed, capFaults>>

-----------------------------------------------------------------------------
\* ls -l of the file.
VerifyPcap(c) ==
  /\ capAt[c].pc = "verify"
  /\ CapGoto(c, IF pcaps[PathOf(c)] = NoFile THEN "error" ELSE "egress")
  /\ UNCHANGED <<capOf, pcaps, landed, sink, dropped, capFaults>>

Pushed(c) ==
  /\ pcaps[PathOf(c)] # NoFile
  /\ landed' = [landed EXCEPT ![PathOf(c)] = pcaps[PathOf(c)]]
  /\ pcaps' = [pcaps EXCEPT ![PathOf(c)] = NoFile]
  /\ CapGoto(c, "judge") /\ UNCHANGED capFaults

\* What a failed scp leaves on the local host: nothing, or a part.
PushedPart(c) ==
  /\ IF pcaps[PathOf(c)] = NoFile THEN UNCHANGED capFaults ELSE CapFault
  /\ landed' \in {landed, [landed EXCEPT ![PathOf(c)] = Pcap(pcaps[PathOf(c)].of, FALSE)]}
  /\ UNCHANGED pcaps

\* Fault: what scp says is not looked at.
Push_Believed(c) ==
  /\ capAt[c].pc = "egress" /\ capOf[c].mode # "cdnos"
  /\ Pushed(c) \/ (PushedPart(c) /\ CapGoto(c, "judge"))
  /\ UNCHANGED <<capOf, sink, dropped>>

\* scp && rm -f.  The words of some failures are known (_looks_like_error);
\* "lost connection" is not, and passes for a success.
Push(c) ==
  /\ capAt[c].pc = "egress" /\ capOf[c].mode # "cdnos"
  /\ \/ Pushed(c)
     \/ PushedPart(c) /\ CapGoto(c, "error")
     \/ /\ pcaps[PathOf(c)] # NoFile /\ PushedPart(c)
        /\ capAt' = [capAt EXCEPT ![c].pc = "judge", ![c].lost = TRUE]
  /\ UNCHANGED <<capOf, sink, dropped>>

\* base64 over the channel: markers around it, decoded, written; only then is
\* the file removed from the device.
Pull(c) ==
  LET p == PathOf(c) IN
  /\ capAt[c].pc = "egress" /\ capOf[c].mode = "cdnos"
  /\ \/ /\ pcaps[p] # NoFile
        /\ landed' = [landed EXCEPT ![p] = pcaps[p]]
        /\ CapGoto(c, "tidy") /\ UNCHANGED capFaults
     \/ /\ IF pcaps[p] = NoFile THEN UNCHANGED capFaults ELSE CapFault
        /\ CapGoto(c, "error") /\ UNCHANGED landed
  /\ UNCHANGED <<capOf, pcaps, sink, dropped>>

Tidy(c) ==
  /\ capAt[c].pc = "tidy"
  /\ pcaps' = [pcaps EXCEPT ![PathOf(c)] = NoFile] /\ CapGoto(c, "judge")
  /\ UNCHANGED <<capOf, landed, sink, dropped, capFaults>>

\* The landed file is there and holds at least the header.
JudgePcap(c) ==
  /\ capAt[c].pc = "judge"
  /\ CapGoto(c, IF landed[PathOf(c)] = NoFile THEN "error" ELSE "ok")
  /\ UNCHANGED <<capOf, pcaps, landed, sink, dropped, capFaults>>

\* Ctrl-C, a kill or a lost connection: the channel closes where it stands.
CutCapture(c) ==
  /\ CapFault /\ capAt[c].pc \notin CapOver \cup {"new"}
  /\ capAt' = [capAt EXCEPT ![c].pc = "killed",
                            ![c].left = capAt[c].pc \in {"open", "hold", "close"}]
  /\ UNCHANGED <<capOf, pcaps, landed, sink, dropped>>

\* Every capture that is not cut off goes on: each of its commands has a
\* deadline.
CapStep(c) ==
  \/ EnterShell(c) \/ RemoveOld(c) \/ Tcpdump(c) \/ TcpdumpEnds(c)
  \/ FreeSpace(c) \/ ResetSink(c) \/ OpenSink(c) \/ Hold(c) \/ CloseCapture(c)
  \/ VerifyPcap(c) \/ Push(c) \/ Pull(c) \/ Tidy(c) \/ JudgePcap(c)

CapNext == \E c \in Caps : CapStep(c) \/ CutCapture(c)

CapSpec == CapInit /\ [][CapNext]_capVars

-----------------------------------------------------------------------------
\* The types of the variables.
CapTypeOK ==
  /\ pcaps \in [CapPaths -> Pcaps] /\ landed \in [CapPaths -> Pcaps]
  /\ sink \in Caps \cup {Closed} /\ dropped \in BOOLEAN
  /\ \A c \in Caps : capAt[c].tries \in 0..3

\* A capture that says ok has landed its own packets, and all of them, unless
\* another capture of its second has its name, or another one of its NCP was
\* at the sink at the same time, or scp lost its connection: never the part
\* that a refused scp left.
OkIsOwnPcap ==
  \A c \in Caps :
    capAt[c].pc = "ok" /\ (\A k \in Caps \ {c} : PathOf(k) # PathOf(c))
      => /\ landed[PathOf(c)].of = c
         /\ landed[PathOf(c)].whole \/ capAt[c].met \/ capAt[c].lost

\* The forwarding engine does not go on recording: no sink is open and
\* dropped packets are not recorded once no capture is at it, but for one
\* that was refused its sink, gave up or was cut off.
EngineIsQuiet ==
  dropped \/ sink # Closed =>
    \E c \in Caps : capAt[c].left \/ capAt[c].pc \in {"open", "hold", "close"}

\* Captures deliver what they took and leave the engine as they found it.
CapturesAreSound == OkIsOwnPcap /\ EngineIsQuiet

CapQuiet == \A c \in Caps : capAt[c].pc \in CapOver
=============================================================================

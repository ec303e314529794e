------------------------------- MODULE RateGate -------------------------------
(* The pacing of gNMI calls to one target, gate() of                         *)
(* qactl/dnos/gnmi/core/rate_limiter.py: the wait is computed under the      *)
(* lock, slept without it, and the time of the call is written under the     *)
(* lock again.  Every thread of a process passes the same gate.              *)
EXTENDS Naturals

CONSTANTS
  GateThreads,  \* threads that call
  Interval,     \* MIN_INTERVAL_S
  GateEnd,      \* bound: the time the behaviour ends
  GateCalls     \* bound: the calls of each thread

ASSUME GateAssumption == Interval \in Nat \ {0} /\ GateEnd \in Nat /\ GateCalls \in Nat

VARIABLES
  clock, last,   \* the time, and _last_call of the target
  gate,          \* of each thread: where it is, and the time its sleep ends
  sent,          \* history: when each thread's latest call went out, 0 if none
  behind         \* history: the calls that had gone out when the thread arrived

gateVars == <<clock, last, gate, sent, behind>>

\* Time starts late enough for the first call not to wait.
GateInit ==
  /\ clock = Interval /\ last = 0
  /\ gate = [t \in GateThreads |-> [pc |-> "idle", wake |-> 0, left |-> GateCalls]]
  /\ sent = [t \in GateThreads |-> 0]
  /\ behind = [t \in GateThreads |-> {}]

\* A sleep ends on time or later.
Pass == /\ clock < GateEnd /\ clock' = clock + 1
        /\ UNCHANGED <<last, gate, sent, behind>>

\* Fault: the wait is counted from the arrival.
Wait_Off(at) == IF at - last >= Interval THEN 0 ELSE Interval - (at - last) - 1

Wait(at) == IF at - last >= Interval THEN 0 ELSE Interval - (at - last)

Gate(t) ==
  /\ gate[t].pc = "idle" /\ gate[t].left > 0
  /\ gate' = [gate EXCEPT ![t] = [pc |-> "sleep", wake |-> clock + Wait(clock), left |-> @.left - 1]]
  /\ behind' = [behind EXCEPT ![t] = {sent[u] : u \in GateThreads} \ {0}]
  /\ UNCHANGED <<clock, last, sent>>

\* The sleep is over: the time is written and the call goes out.
Call(t) ==
  /\ gate[t].pc = "sleep" /\ clock >= gate[t].wake
  /\ last' = clock /\ sent' = [sent EXCEPT ![t] = clock]
  /\ gate' = [gate EXCEPT ![t].pc = "idle"]
  /\ UNCHANGED <<clock, behind>>

GateNext == Pass \/ \E t \in GateThreads : Gate(t) \/ Call(t)

GateSpec == GateInit /\ [][GateNext]_gateVars

\* A call keeps the interval behind every call that had gone out when it
\* arrived at the gate, whatever passes meanwhile.  Callers that arrive
\* together wait for the same moment and go out together, although gate() is said to
\* write its time "atomically with the wait so concurrent callers serialise
\* correctly" (rate_limiter.py:37).
PacedBehindThePast ==
  [][\A t \in GateThreads : sent'[t] # sent[t] =>
       \A before \in behind[t] : sent'[t] >= before + Interval]_gateVars
=============================================================================

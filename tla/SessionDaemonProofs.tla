-------------------------- MODULE SessionDaemonProofs --------------------------
(***************************************************************************)
(* Proofs about SessionDaemon for any number of clients, daemons and        *)
(* versions, and about DeviceCalls for any callers, calls, names and tables.*)
(***************************************************************************)
EXTENDS SessionDaemon, DeviceCalls, SequenceTheorems, FiniteSetTheorems, TLAPS

-----------------------------------------------------------------------------
(* The inductive invariant.                                                *)

\* A daemon keeps the lock from before it binds until its process is gone.
LockKept == \A d \in Daemons :
  dpc[d] \in {"locked", "serving", "closed", "unlinked"} => flock = d

\* A client that has not sent its request yet: nothing has run, and there is
\* no answer on its connection.
Unsent(c) ==
  /\ cpc[c] \in {"idle", "connect", "poll"} => link[c] = "none" /\ ran[c] = 0
  /\ cpc[c] = "send" =>
       link[c] \in {"backlog", "accepted", "eof"} /\ ran[c] = 0 /\ reply[c] = None

\* A client that waits: what has run agrees with what the handler has written.
Sent(c) == cpc[c] = "wait" =>
  /\ link[c] \in {"backlog", "accepted"} => ran[c] = 0 /\ reply[c] = None
  /\ link[c] = "running" => ran[c] = 1 /\ reply[c] = None /\ op[c] = "run"
  /\ op[c] # "run" \/ reply[c] = "mismatch" => ran[c] = 0
  /\ op[c] = "run" /\ reply[c] \in {"ok", "error"} => ran[c] = 1
  /\ ran[c] \in {0, 1}

\* A client that is done with the daemon.
Left(c) ==
  /\ cpc[c] = "direct" => ran[c] = 0
  /\ cpc[c] \in {"direct", "over"} => link[c] \in {"none", "eof"}
  /\ cpc[c] # "over" => verdict[c] = "none"
  /\ cpc[c] = "over" =>
       ran[c] \in {0, 1} /\ (verdict[c] \in {"ok", "error"} => ran[c] = 1)

CallInv == \A c \in Clients : Unsent(c) /\ Sent(c) /\ Left(c)

IInv == TypeOK /\ LockKept /\ ServingIsReachable /\ CallInv

-----------------------------------------------------------------------------
LEMMA InitInv == Init => IInv
<1> SUFFICES ASSUME Init PROVE IInv
  OBVIOUS
<1>1. TypeOK
  BY DEF Init, TypeOK
<1>2. LockKept /\ ServingIsReachable
  BY DEF Init, LockKept, ServingIsReachable
<1>3. CallInv
  BY DEF Init, CallInv, Unsent, Sent, Left
<1> QED
  BY <1>1, <1>2, <1>3 DEF IInv

\* Every step keeps the types.
LEMMA TypeStep == ASSUME IInv, [Next]_vars PROVE TypeOK'
<1> USE DaemonAssumption DEF IInv, clientVars, wireVars, serverVars
<1>1. ASSUME NEW c \in Clients, Start(c) PROVE TypeOK'
  BY <1>1 DEF TypeOK, Start, Goto
<1>2. ASSUME NEW c \in Clients, Connect(c) PROVE TypeOK'
  BY <1>2 DEF TypeOK, Connect, Goto, Listening
<1>3. ASSUME NEW c \in Clients, Spawn(c) PROVE TypeOK'
  BY <1>3 DEF TypeOK, Spawn, Goto, Listening
<1>4. ASSUME NEW c \in Clients, GiveUp(c) PROVE TypeOK'
  BY <1>4 DEF TypeOK, GiveUp, Goto, Listening, Unavailable
<1>5. ASSUME NEW c \in Clients, Send(c) PROVE TypeOK'
  BY <1>5 DEF TypeOK, Send, Goto, Unavailable
<1>6. ASSUME NEW c \in Clients, Receive(c) PROVE TypeOK'
  BY <1>6 DEF TypeOK, Receive, Goto
<1>7. ASSUME NEW c \in Clients, Ignore(c) PROVE TypeOK'
  BY <1>7 DEF TypeOK, Ignore, Goto, Unavailable
<1>8. ASSUME NEW c \in Clients, Broken(c) PROVE TypeOK'
  BY <1>8 DEF TypeOK, Broken, Goto
<1>9. ASSUME NEW c \in Clients, Direct(c) PROVE TypeOK'
  BY <1>9 DEF TypeOK, Direct, Goto
<1>10. ASSUME NEW c \in Clients, Accept(c) PROVE TypeOK'
  BY <1>10 DEF TypeOK, Accept
<1>11. ASSUME NEW c \in Clients, Dispatch(c) PROVE TypeOK'
  <2>1. ran' \in [Clients -> Nat] /\ stopping' \in [Daemons -> BOOLEAN]
    <3>1. ran' = ran \/ ran' = [ran EXCEPT ![c] = @ + 1]
      BY <1>11 DEF Dispatch
    <3>2. stopping' = stopping \/ stopping' = [stopping EXCEPT ![peer[c]] = TRUE]
      BY <1>11 DEF Dispatch
    <3>3. ran' \in [Clients -> Nat]
      BY <3>1 DEF TypeOK
    <3>4. stopping' \in [Daemons -> BOOLEAN]
      BY <3>2, Zenon DEF TypeOK
    <3> QED
      BY <3>3, <3>4
  <2>2. /\ link' \in [Clients -> {"none", "backlog", "accepted", "running", "answered", "eof"}]
        /\ reply' \in [Clients -> {"ok", "error", "mismatch", None}]
        /\ \A b \in Clients : link'[b] # "none" => peer[b] \in Daemons
    BY <1>11 DEF TypeOK, Dispatch
  <2> QED
    BY <1>11, <2>1, <2>2 DEF TypeOK, Dispatch
<1>12. ASSUME NEW c \in Clients, Respond(c) PROVE TypeOK'
  BY <1>12 DEF TypeOK, Respond, Up
<1>13. ASSUME NEW d \in Daemons, Lock(d) PROVE TypeOK'
  BY <1>13 DEF TypeOK, Lock, DGoto
<1>14. ASSUME NEW d \in Daemons, Bind(d) PROVE TypeOK'
  BY <1>14 DEF TypeOK, Bind, DGoto
<1>15. ASSUME NEW d \in Daemons, IdleOut(d) PROVE TypeOK'
  BY <1>15 DEF TypeOK, IdleOut
<1>16. ASSUME NEW d \in Daemons, CloseListener(d) PROVE TypeOK'
  BY <1>16 DEF TypeOK, CloseListener, DGoto, HangUp
<1>17. ASSUME NEW d \in Daemons, Unlink(d) PROVE TypeOK'
  BY <1>17 DEF TypeOK, Unlink, DGoto
<1>18. ASSUME NEW d \in Daemons, Exit(d) PROVE TypeOK'
  BY <1>18 DEF TypeOK, Exit, DGoto, Gone, HangUp
<1>19. ASSUME NEW d \in Daemons, Kill(d) PROVE TypeOK'
  BY <1>19 DEF TypeOK, Kill, DGoto, Gone, HangUp
<1>20. CASE UNCHANGED vars
  BY <1>20 DEF TypeOK, vars
<1> QED
  BY <1>1, <1>2, <1>3, <1>4, <1>5, <1>6, <1>7, <1>8, <1>9, <1>10,
     <1>11, <1>12, <1>13, <1>14, <1>15, <1>16, <1>17, <1>18, <1>19, <1>20
  DEF Next, Client, Handler, Daemon

\* Every step keeps the lock, and the socket, with the daemon that serves.
LEMMA OwnerStep == ASSUME IInv, [Next]_vars PROVE LockKept' /\ ServingIsReachable'
<1> USE DaemonAssumption DEF IInv, clientVars, wireVars, serverVars
<1>1. ASSUME NEW c \in Clients, Start(c) PROVE LockKept' /\ ServingIsReachable'
  BY <1>1 DEF TypeOK, LockKept, ServingIsReachable, Start, Goto
<1>2. ASSUME NEW c \in Clients, Connect(c) PROVE LockKept' /\ ServingIsReachable'
  BY <1>2 DEF TypeOK, LockKept, ServingIsReachable, Connect, Goto, Listening
<1>3. ASSUME NEW c \in Clients, Spawn(c) PROVE LockKept' /\ ServingIsReachable'
  BY <1>3 DEF TypeOK, LockKept, ServingIsReachable, Spawn, Goto, Listening
<1>4. ASSUME NEW c \in Clients, GiveUp(c) PROVE LockKept' /\ ServingIsReachable'
  BY <1>4 DEF TypeOK, LockKept, ServingIsReachable, GiveUp, Goto, Listening, Unavailable
<1>5. ASSUME NEW c \in Clients, Send(c) PROVE LockKept' /\ ServingIsReachable'
  BY <1>5 DEF TypeOK, LockKept, ServingIsReachable, Send, Goto, Unavailable
<1>6. ASSUME NEW c \in Clients, Receive(c) PROVE LockKept' /\ ServingIsReachable'
  BY <1>6 DEF TypeOK, LockKept, ServingIsReachable, Receive, Goto
<1>7. ASSUME NEW c \in Clients, Ignore(c) PROVE LockKept' /\ ServingIsReachable'
  BY <1>7 DEF TypeOK, LockKept, ServingIsReachable, Ignore, Goto, Unavailable
<1>8. ASSUME NEW c \in Clients, Broken(c) PROVE LockKept' /\ ServingIsReachable'
  BY <1>8 DEF TypeOK, LockKept, ServingIsReachable, Broken, Goto
<1>9. ASSUME NEW c \in Clients, Direct(c) PROVE LockKept' /\ ServingIsReachable'
  BY <1>9 DEF TypeOK, LockKept, ServingIsReachable, Direct, Goto
<1>10. ASSUME NEW c \in Clients, Accept(c) PROVE LockKept' /\ ServingIsReachable'
  BY <1>10 DEF TypeOK, LockKept, ServingIsReachable, Accept
<1>11. ASSUME NEW c \in Clients, Dispatch(c) PROVE LockKept' /\ ServingIsReachable'
  BY <1>11 DEF TypeOK, LockKept, ServingIsReachable, Dispatch, Up
<1>12. ASSUME NEW c \in Clients, Respond(c) PROVE LockKept' /\ ServingIsReachable'
  BY <1>12 DEF TypeOK, LockKept, ServingIsReachable, Respond, Up
<1>13. ASSUME NEW d \in Daemons, Lock(d) PROVE LockKept' /\ ServingIsReachable'
  BY <1>13 DEF TypeOK, LockKept, ServingIsReachable, Lock, DGoto
<1>14. ASSUME NEW d \in Daemons, Bind(d) PROVE LockKept' /\ ServingIsReachable'
  BY <1>14 DEF TypeOK, LockKept, ServingIsReachable, Bind, DGoto
<1>15. ASSUME NEW d \in Daemons, IdleOut(d) PROVE LockKept' /\ ServingIsReachable'
  BY <1>15 DEF TypeOK, LockKept, ServingIsReachable, IdleOut
<1>16. ASSUME NEW d \in Daemons, CloseListener(d) PROVE LockKept' /\ ServingIsReachable'
  BY <1>16 DEF TypeOK, LockKept, ServingIsReachable, CloseListener, DGoto, HangUp
<1>17. ASSUME NEW d \in Daemons, Unlink(d) PROVE LockKept' /\ ServingIsReachable'
  BY <1>17 DEF TypeOK, LockKept, ServingIsReachable, Unlink, DGoto
<1>18. ASSUME NEW d \in Daemons, Exit(d) PROVE LockKept' /\ ServingIsReachable'
  BY <1>18 DEF TypeOK, LockKept, ServingIsReachable, Exit, DGoto, Gone, HangUp
<1>19. ASSUME NEW d \in Daemons, Kill(d) PROVE LockKept' /\ ServingIsReachable'
  BY <1>19 DEF TypeOK, LockKept, ServingIsReachable, Kill, DGoto, Gone, HangUp
<1>20. CASE UNCHANGED vars
  BY <1>20 DEF TypeOK, LockKept, ServingIsReachable, vars
<1> QED
  BY <1>1, <1>2, <1>3, <1>4, <1>5, <1>6, <1>7, <1>8, <1>9, <1>10,
     <1>11, <1>12, <1>13, <1>14, <1>15, <1>16, <1>17, <1>18, <1>19, <1>20
  DEF Next, Client, Handler, Daemon

\* Every step keeps count of what has run.
LEMMA CallInvStep == ASSUME IInv, [Next]_vars PROVE CallInv'
<1> USE DaemonAssumption DEF IInv, clientVars, wireVars, serverVars
<1>1. ASSUME NEW c \in Clients, Start(c) PROVE CallInv'
  BY <1>1 DEF TypeOK, CallInv, Unsent, Sent, Left, Start, Goto
<1>2. ASSUME NEW c \in Clients, Connect(c) PROVE CallInv'
  BY <1>2 DEF TypeOK, CallInv, Unsent, Sent, Left, Connect, Goto, Listening
<1>3. ASSUME NEW c \in Clients, Spawn(c) PROVE CallInv'
  BY <1>3 DEF TypeOK, CallInv, Unsent, Sent, Left, Spawn, Goto, Listening
<1>4. ASSUME NEW c \in Clients, GiveUp(c) PROVE CallInv'
  BY <1>4 DEF TypeOK, CallInv, Unsent, Sent, Left, GiveUp, Goto, Listening, Unavailable
<1>5. ASSUME NEW c \in Clients, Send(c) PROVE CallInv'
  BY <1>5 DEF TypeOK, CallInv, Unsent, Sent, Left, Send, Goto, Unavailable
<1>6. ASSUME NEW c \in Clients, Receive(c) PROVE CallInv'
  BY <1>6 DEF TypeOK, CallInv, Unsent, Sent, Left, Receive, Goto
<1>7. ASSUME NEW c \in Clients, Ignore(c) PROVE CallInv'
  BY <1>7 DEF TypeOK, CallInv, Unsent, Sent, Left, Ignore, Goto, Unavailable
<1>8. ASSUME NEW c \in Clients, Broken(c) PROVE CallInv'
  BY <1>8 DEF TypeOK, CallInv, Unsent, Sent, Left, Broken, Goto
<1>9. ASSUME NEW c \in Clients, Direct(c) PROVE CallInv'
  BY <1>9 DEF TypeOK, CallInv, Unsent, Sent, Left, Direct, Goto
<1>10. ASSUME NEW c \in Clients, Accept(c) PROVE CallInv'
  BY <1>10 DEF TypeOK, CallInv, Unsent, Sent, Left, Accept
<1>11. ASSUME NEW c \in Clients, Dispatch(c) PROVE CallInv'
  BY <1>11 DEF TypeOK, CallInv, Unsent, Sent, Left, Dispatch, Up
<1>12. ASSUME NEW c \in Clients, Respond(c) PROVE CallInv'
  BY <1>12 DEF TypeOK, CallInv, Unsent, Sent, Left, Respond, Up
<1>13. ASSUME NEW d \in Daemons, Lock(d) PROVE CallInv'
  BY <1>13 DEF TypeOK, CallInv, Unsent, Sent, Left, Lock, DGoto
<1>14. ASSUME NEW d \in Daemons, Bind(d) PROVE CallInv'
  BY <1>14 DEF TypeOK, CallInv, Unsent, Sent, Left, Bind, DGoto
<1>15. ASSUME NEW d \in Daemons, IdleOut(d) PROVE CallInv'
  BY <1>15 DEF TypeOK, CallInv, Unsent, Sent, Left, IdleOut
<1>16. ASSUME NEW d \in Daemons, CloseListener(d) PROVE CallInv'
  BY <1>16 DEF TypeOK, CallInv, Unsent, Sent, Left, CloseListener, DGoto, HangUp
<1>17. ASSUME NEW d \in Daemons, Unlink(d) PROVE CallInv'
  BY <1>17 DEF TypeOK, CallInv, Unsent, Sent, Left, Unlink, DGoto
<1>18. ASSUME NEW d \in Daemons, Exit(d) PROVE CallInv'
  BY <1>18 DEF TypeOK, CallInv, Unsent, Sent, Left, Exit, DGoto, Gone, HangUp
<1>19. ASSUME NEW d \in Daemons, Kill(d) PROVE CallInv'
  BY <1>19 DEF TypeOK, CallInv, Unsent, Sent, Left, Kill, DGoto, Gone, HangUp
<1>20. CASE UNCHANGED vars
  BY <1>20 DEF TypeOK, CallInv, Unsent, Sent, Left, vars
<1> QED
  BY <1>1, <1>2, <1>3, <1>4, <1>5, <1>6, <1>7, <1>8, <1>9, <1>10,
     <1>11, <1>12, <1>13, <1>14, <1>15, <1>16, <1>17, <1>18, <1>19, <1>20
  DEF Next, Client, Handler, Daemon

-----------------------------------------------------------------------------
(* The theorems.                                                           *)

\* The inductive invariant holds in every reachable state.
THEOREM Invariance == Spec => []IInv
<1>1. IInv /\ [Next]_vars => IInv'
  BY TypeStep, OwnerStep, CallInvStep DEF IInv
<1> QED
  BY InitInv, <1>1, PTL DEF Spec

\* The variables of clients, daemons and their connections keep their types.
THEOREM TypeCorrect == Spec => []TypeOK
  BY Invariance, PTL DEF IInv

\* A daemon that serves owns the lock and the socket on disk, however many
\* daemons clients spawn and whenever others end: the unlink at the end of
\* serve never takes the socket of a successor.
THEOREM OneServes == Spec => []ServingIsReachable
  BY Invariance, PTL DEF IInv

\* try_run_via_daemon never leads to a second execution of a call, and tells a
\* result only for a call that was executed.
THEOREM RunsOnce == Spec => []ExactlyOnce
<1>1. IInv => ExactlyOnce
  BY DEF IInv, CallInv, Unsent, Sent, Left, ExactlyOnce, TypeOK
<1> QED
  BY Invariance, <1>1, PTL

-----------------------------------------------------------------------------
(* The inductive invariant of DeviceCalls.                                 *)

DcRec(pc, try, at, name, outcomes, answer) ==
  [pc |-> pc, try |-> try, at |-> at, name |-> name, outcomes |-> outcomes, answer |-> answer]
IsDc(r) == r = DcRec(r.pc, r.try, r.at, r.name, r.outcomes, r.answer)
IsList(s) == \E R : s \in Seq(R)

PcSet == {"call", "lookup", "open", "send", "read", "done"}
AnswerSet == {"", "invalid", "dry run", "connect_error", "error", "timeout", "ok"}

DcTyped(r) ==
  /\ r.pc \in PcSet
  /\ r.try \in {1, 2} /\ r.at \in Nat \ {0}
  /\ r.outcomes \in Seq({"ran", "refused", "lost"})
  /\ r.answer \in AnswerSet

\* Where a call is: which line it types, and what became of those before.
Begun(k, r) ==
  /\ r.pc # "done" => r.answer = "" /\ k.tool # "idle"
  /\ r.pc \notin {"call", "done"} => Valid(k) /\ (k.tool \in Restarts => k.confirm)
  /\ k.tool # "process" => r.name = k.name
  /\ r.name = k.name \/ BaseOf[r.name] = BaseOf[k.name]
  /\ r.pc \in {"call", "lookup"} => r.try = 1
  /\ r.pc = "lookup" => k.tool = "process"
  /\ r.pc \in {"call", "lookup", "open"} => r.at = 1 /\ r.outcomes = <<>>
  /\ r.pc \in {"send", "read"} => r.at <= Len(Lines(k, r.name))
  /\ r.pc = "send" => Len(r.outcomes) = r.at - 1
  /\ r.pc = "read" => Len(r.outcomes) = r.at
  /\ r.pc \in {"send", "read"} =>
       \A n \in 1..(r.at - 1) : r.outcomes[n] # "lost" /\ (k.stop => r.outcomes[n] = "ran")

\* A line of the history that is of a call.
RunsOf(h, c) == {i \in DOMAIN h : h[i].by = c}
LineIsOf(k, r, e) ==
  /\ Valid(k) /\ (k.tool \in Restarts => k.confirm)
  /\ r.pc \notin {"call", "lookup"}
  /\ e.try \in {1, 2} /\ e.try <= r.try
  /\ e.at \in 1..Len(Lines(k, r.name)) /\ e.line = Lines(k, r.name)[e.at]
  /\ e.try = r.try =>
       /\ r.pc \in {"send", "read", "done"}
       /\ r.pc # "done" => e.at <= Len(r.outcomes) /\ r.outcomes[e.at] \in {"ran", "lost"}
  /\ e.at = Len(Lines(k, r.name)) => e.try = r.try /\ r.pc \in {"read", "done"}

\* The lines of one try run in order, with stop none left out.
InOrder(k, h, c) ==
  \A i \in RunsOf(h, c) :
    /\ k.stop /\ h[i].at > 1 =>
         \E j \in RunsOf(h, c) : j < i /\ h[j].at = h[i].at - 1 /\ h[j].try = h[i].try
    /\ \A j \in RunsOf(h, c) : i < j /\ h[i].try = h[j].try => h[i].at < h[j].at

HasRun(h, c, n, try) == \E i \in RunsOf(h, c) : h[i].at = n /\ h[i].try = try

\* An outcome "ran" is in the history.
RanIsSo(r, h, c) ==
  r.pc \in {"send", "read"} =>
    \A n \in DOMAIN r.outcomes : r.outcomes[n] = "ran" => HasRun(h, c, n, r.try)

AnswerIsSo(k, r, h, c) ==
  /\ r.answer = "ok" => 
       /\ HasRun(h, c, Len(Lines(k, r.name)), r.try)
       /\ k.tool \in {"raw", "clear", "run"} => \A n \in 1..Len(Lines(k, r.name)) : HasRun(h, c, n, r.try)
  /\ r.answer \in {"invalid", "dry run", "connect_error", "error"} /\ k.tool \in Restarts =>
       \A i \in RunsOf(h, c) : h[i].at # Len(Lines(k, r.name))

CallHolds(k, r, h, c) ==
  /\ DcTyped(r)
  /\ Begun(k, r)
  /\ \A i \in RunsOf(h, c) : LineIsOf(k, r, h[i])
  /\ InOrder(k, h, c)
  /\ RanIsSo(r, h, c)
  /\ AnswerIsSo(k, r, h, c)

DcInv ==
  /\ dcJob \in DcSettings
  /\ dc = [c \in DcCallers |-> dc[c]]
  /\ IsList(dcRan)
  /\ \A c \in DcCallers : IsDc(dc[c]) /\ CallHolds(dcJob[c], dc[c], dcRan, c)
  /\ chan \in [DcCallers -> [live : BOOLEAN, silent : BOOLEAN]]
  /\ dcBox \in {"up", "down", "bare"} /\ table \in DcTables

-----------------------------------------------------------------------------
(* Lists, and the lines of a call.                                         *)

\* A list that grows.
LEMMA ListGrows ==
  ASSUME NEW s, NEW e, IsList(s)
  PROVE  /\ IsList(Append(s, e)) /\ Len(s) \in Nat /\ DOMAIN s = 1..Len(s)
         /\ DOMAIN Append(s, e) = 1..(Len(s) + 1)
         /\ \A i \in 1..Len(s) : Append(s, e)[i] = s[i]
         /\ Append(s, e)[Len(s) + 1] = e
<1>1. PICK R : s \in Seq(R)
  BY DEF IsList
<1> DEFINE Q == R \cup {e}
<1>2. s \in Seq(Q) /\ e \in Q
  BY <1>1, SeqDef
<1>3. Append(s, e) \in Seq(Q)
  BY <1>2, AppendProperties
<1> HIDE DEF Q
<1>4. Len(s) \in Nat /\ DOMAIN s = 1..Len(s)
  BY <1>2, LenProperties
<1>5. Len(Append(s, e)) = Len(s) + 1 /\ DOMAIN Append(s, e) = 1..Len(Append(s, e))
  BY <1>2, <1>3, AppendProperties, LenProperties
<1>6. \A i \in 1..Len(s) : Append(s, e)[i] = s[i]
  BY <1>2, <1>4, AppendProperties
<1>7. Append(s, e)[Len(s) + 1] = e
  BY <1>2, AppendProperties
<1> QED
  BY <1>3, <1>4, <1>5, <1>6, <1>7 DEF IsList

\* What a call may be: the lines of a raw call are a list.
IsOrder(k) ==
  /\ k.tool \in Restarts \cup {"kill", "show", "run", "clear", "raw", "idle"}
  /\ k.lines \in Seq([does : STRING, name : STRING])

\* Every setting gives every caller such a call.
LEMMA SettingIsOrder == ASSUME NEW s \in DcSettings, NEW c \in DcCallers PROVE IsOrder(s[c])
  BY DcAssumption DEF IsOrder

\* A list of two.
LEMMA Pair ==
  ASSUME NEW a, NEW b
  PROVE  Len(<<a, b>>) = 2 /\ DOMAIN <<a, b>> = 1..2 /\ <<a, b>>[1] = a /\ <<a, b>>[2] = b
  OBVIOUS

\* The lines of a call are a list, and a call that is let through has one.
LEMMA LinesAreList ==
  ASSUME NEW k, NEW name, IsOrder(k)
  PROVE  /\ Len(Lines(k, name)) \in Nat
         /\ DOMAIN Lines(k, name) = 1..Len(Lines(k, name))
         /\ Valid(k) /\ k.tool # "idle" => Len(Lines(k, name)) >= 1
<1> DEFINE Two == <<Typed("no-confirm", ""), Typed(k.tool, name)>>
           KillList == <<Typed("kill", k.name)>>
           WordList == <<Typed(k.verb, k.name)>>
<1>1. CASE k.tool \in Restarts
  <2>1. Lines(k, name) = Two
    BY <1>1 DEF Lines, RestartLines, Restarts
  <2>2. Len(Two) = 2 /\ DOMAIN Two = 1..2
    BY Pair
  <2>3. Len(Lines(k, name)) = 2 /\ DOMAIN Lines(k, name) = 1..2
    BY ONLY <2>1, <2>2
  <2> QED
    BY ONLY <2>3
<1>2. CASE k.tool = "kill"
  <2>1. Lines(k, name) = KillList
    BY <1>2 DEF Lines, KillLine, Restarts
  <2> QED
    BY <2>1
<1>3. CASE k.tool \in {"show", "run", "clear"}
  <2>1. Lines(k, name) = WordList
    BY <1>3 DEF Lines, WordLine, Restarts
  <2> QED
    BY <2>1
<1>4. CASE k.tool \in {"raw", "idle"}
  <2>1. Lines(k, name) = k.lines
    BY <1>4 DEF Lines, Restarts
  <2>2. Len(k.lines) \in Nat /\ DOMAIN k.lines = 1..Len(k.lines)
    BY LenProperties DEF IsOrder
  <2>3. Valid(k) /\ k.tool = "raw" => k.lines # <<>>
    BY DEF Valid, RawValid
  <2> QED
    BY <1>4, <2>1, <2>2, <2>3, EmptySeq DEF IsOrder
<1> QED
  BY <1>1, <1>2, <1>3, <1>4 DEF IsOrder

-----------------------------------------------------------------------------
(* One step of one call.                                                   *)

\* What a call holds is not touched by a line of another one.
LEMMA OtherLine ==
  ASSUME NEW k, NEW r, NEW h, NEW c, NEW e, NEW g, IsList(h), g = Append(h, e), e.by # c, CallHolds(k, r, h, c)
  PROVE  CallHolds(k, r, g, c)
<1>1. RunsOf(g, c) = RunsOf(h, c) /\ \A i \in RunsOf(h, c) : g[i] = h[i]
  BY ListGrows DEF RunsOf
<1>2. \A n, t : HasRun(g, c, n, t) <=> HasRun(h, c, n, t)
  BY <1>1 DEF HasRun
<1>3. \A i \in RunsOf(g, c) : LineIsOf(k, r, g[i])
  BY <1>1 DEF CallHolds
<1>4. InOrder(k, h, c)
  BY DEF CallHolds
<1>5. InOrder(k, g, c)
  BY ONLY <1>1, <1>4 DEF InOrder
<1>6. RanIsSo(r, g, c) /\ AnswerIsSo(k, r, g, c)
  BY <1>1, <1>2 DEF CallHolds, RanIsSo, AnswerIsSo
<1> QED
  BY <1>3, <1>5, <1>6 DEF CallHolds

\* A call ends.
LEMMA CallEnds ==
  ASSUME NEW k, NEW r, NEW h, NEW c, NEW s \in AnswerSet, NEW n, CallHolds(k, r, h, c), r.pc # "done", 
         n = DcRec("done", r.try, r.at, r.name, r.outcomes, s), AnswerIsSo(k, n, h, c)
  PROVE  CallHolds(k, n, h, c)
<1>0. /\ n.pc = "done" /\ n.try = r.try /\ n.at = r.at /\ n.name = r.name /\ n.outcomes = r.outcomes
      /\ n.answer = s
  BY DEF DcRec
<1>1. DcTyped(n)
  BY <1>0 DEF CallHolds, DcTyped, PcSet
<1>2. Begun(k, n)
  BY <1>0 DEF CallHolds, Begun
<1>3. ASSUME NEW i \in RunsOf(h, c) PROVE LineIsOf(k, n, h[i])
  <2>1. LineIsOf(k, r, h[i])
    BY DEF CallHolds
  <2> QED
    BY ONLY <1>0, <2>1 DEF LineIsOf
<1>4. RanIsSo(n, h, c)
  BY <1>0 DEF RanIsSo
<1> QED
  BY <1>1, <1>2, <1>3, <1>4 DEF CallHolds

\* No answer says yet what happened.
LEMMA NoAnswerYet ==
  ASSUME NEW k, NEW n, NEW h, NEW c, n.answer \in {"", "timeout"}
  PROVE  AnswerIsSo(k, n, h, c)
  BY DEF AnswerIsSo

\* The sequence is tried again.
LEMMA TriesAgain ==
  ASSUME NEW k, NEW r, NEW h, NEW c, NEW n, CallHolds(k, r, h, c), r.pc \in {"open", "send"}, r.try = 1,
         n = DcRec("open", 2, 1, r.name, <<>>, r.answer)
  PROVE  CallHolds(k, n, h, c)
<1>0. /\ n.pc = "open" /\ n.try = 2 /\ n.at = 1 /\ n.name = r.name /\ n.outcomes = <<>>
      /\ n.answer = r.answer
  BY DEF DcRec
<1>1. DcTyped(n)
  <2>1. <<>> \in Seq({"ran", "refused", "lost"}) /\ r.answer \in AnswerSet
    BY DEF CallHolds, DcTyped
  <2> QED
    BY ONLY <1>0, <2>1 DEF DcTyped, PcSet
<1>2. Begun(k, n)
  BY <1>0 DEF CallHolds, Begun
<1>3. ASSUME NEW i \in RunsOf(h, c) PROVE LineIsOf(k, n, h[i])
  <2>1. LineIsOf(k, r, h[i])
    BY DEF CallHolds
  <2> QED
    BY ONLY <1>0, <2>1, r.pc \in {"open", "send"}, r.try = 1 DEF LineIsOf
<1>4. RanIsSo(n, h, c)
  BY <1>0 DEF RanIsSo
<1>5. AnswerIsSo(k, n, h, c)
  <2>1. n.answer = ""
    BY <1>0 DEF CallHolds, Begun
  <2> QED
    BY ONLY <2>1 DEF AnswerIsSo
<1> QED
  BY <1>1, <1>2, <1>3, <1>4, <1>5 DEF CallHolds

\* No line of a call that has not opened its channel is in the history.
LEMMA NothingYet ==
  ASSUME NEW k, NEW r, NEW h, NEW c, CallHolds(k, r, h, c), r.pc \in {"call", "lookup"}
  PROVE  RunsOf(h, c) = {}
  BY DEF CallHolds, LineIsOf

\* The call is let through.
LEMMA LetThrough ==
  ASSUME NEW k, NEW r, NEW h, NEW c, NEW n, NEW p \in {"lookup", "open"}, NEW name, CallHolds(k, r, h, c),
         r.pc \in {"call", "lookup"}, Valid(k), k.tool \in Restarts => k.confirm, p = "lookup" => k.tool = "process",
         name = r.name \/ (k.tool = "process" /\ BaseOf[name] = BaseOf[r.name]),
         n = DcRec(p, r.try, r.at, name, r.outcomes, r.answer)
  PROVE  CallHolds(k, n, h, c)
<1>0. /\ n.pc = p /\ n.try = r.try /\ n.at = r.at /\ n.name = name /\ n.outcomes = r.outcomes
      /\ n.answer = r.answer
  BY DEF DcRec
<1>1. DcTyped(n)
  BY <1>0 DEF CallHolds, DcTyped, PcSet
<1>2. Begun(k, n)
  BY <1>0 DEF CallHolds, Begun
<1>3. RunsOf(h, c) = {}
  BY NothingYet
<1>4. RanIsSo(n, h, c)
  BY <1>0 DEF RanIsSo
<1>5. AnswerIsSo(k, n, h, c)
  <2>1. n.answer = ""
    BY <1>0 DEF CallHolds, Begun
  <2> QED
    BY ONLY <2>1 DEF AnswerIsSo
<1> QED
  BY <1>1, <1>2, <1>3, <1>4, <1>5 DEF CallHolds

\* The channel is open.
LEMMA ChannelOpens ==
  ASSUME NEW k, NEW r, NEW h, NEW c, NEW n, IsOrder(k), CallHolds(k, r, h, c), r.pc = "open",
         n = DcRec("send", r.try, r.at, r.name, r.outcomes, r.answer)
  PROVE  CallHolds(k, n, h, c)
<1>0. /\ n.pc = "send" /\ n.try = r.try /\ n.at = r.at /\ n.name = r.name /\ n.outcomes = r.outcomes
      /\ n.answer = r.answer
  BY DEF DcRec
<1>1. DcTyped(n)
  BY <1>0 DEF CallHolds, DcTyped, PcSet
<1>2. Begun(k, n)
  <2>1. Len(Lines(k, r.name)) >= 1 /\ r.at = 1 /\ r.outcomes = <<>>
    BY LinesAreList DEF CallHolds, Begun
  <2>2. Begun(k, r) /\ Len(<<>>) = 0 /\ Len(Lines(k, r.name)) \in Nat
    BY LinesAreList DEF CallHolds
  <2> QED
    <3>1. n.at - 1 = 0 /\ 1..(n.at - 1) = {} /\ Len(n.outcomes) = 0
      BY ONLY <1>0, <2>1, <2>2
    <3> QED
      BY ONLY <1>0, <2>1, <2>2, <3>1, r.pc = "open" DEF Begun
<1>3. ASSUME NEW i \in RunsOf(h, c) PROVE LineIsOf(k, n, h[i])
  <2>1. LineIsOf(k, r, h[i])
    BY DEF CallHolds
  <2> QED
    BY ONLY <1>0, <2>1, r.pc = "open" DEF LineIsOf
<1>4. RanIsSo(n, h, c)
  <2>1. r.outcomes = <<>>
    BY DEF CallHolds, Begun
  <2> QED
    BY ONLY <1>0, <2>1 DEF RanIsSo
<1>5. AnswerIsSo(k, n, h, c)
  <2>1. n.answer = ""
    BY <1>0 DEF CallHolds, Begun
  <2> QED
    BY ONLY <2>1 DEF AnswerIsSo
<1> QED
  BY <1>1, <1>2, <1>3, <1>4, <1>5 DEF CallHolds

\* The next line of the sequence.
LEMMA GoesOn ==
  ASSUME NEW k, NEW r, NEW h, NEW c, NEW n, IsOrder(k), CallHolds(k, r, h, c), r.pc = "read",
         r.outcomes[r.at] # "lost", k.stop => r.outcomes[r.at] # "refused", r.at < Len(Lines(k, r.name)),
         n = DcRec("send", r.try, r.at + 1, r.name, r.outcomes, r.answer)
  PROVE  CallHolds(k, n, h, c)
<1>0. /\ n.pc = "send" /\ n.try = r.try /\ n.at = r.at + 1 /\ n.name = r.name /\ n.outcomes = r.outcomes
      /\ n.answer = r.answer
  BY DEF DcRec
<1>1. DcTyped(n)
  BY <1>0 DEF CallHolds, DcTyped, PcSet
<1>2. Begun(k, n)
  <2>0. n.at - 1 = r.at /\ r.at + 1 <= Len(Lines(k, r.name))
    BY <1>0, LinesAreList DEF CallHolds, DcTyped
  <2>1. Len(r.outcomes) = r.at /\ r.at \in Nat \ {0} /\ r.outcomes \in Seq({"ran", "refused", "lost"})
    BY DEF CallHolds, DcTyped, Begun
  <2>2. r.outcomes[r.at] \in {"ran", "refused", "lost"}
    BY <2>1, ElementOfSeq
  <2>3. Len(Lines(k, r.name)) \in Nat
    BY LinesAreList
  <2>4. \A j \in 1..(n.at - 1) : r.outcomes[j] # "lost" /\ (k.stop => r.outcomes[j] = "ran")
    <3>1. \A j \in 1..(r.at - 1) : r.outcomes[j] # "lost" /\ (k.stop => r.outcomes[j] = "ran")
      BY DEF CallHolds, Begun
    <3>2. \A j \in 1..(n.at - 1) : j = r.at \/ j \in 1..(r.at - 1)
      BY <1>0, <2>1
    <3> QED
      BY <2>2, <3>1, <3>2
  <2>5. Begun(k, r)
    BY DEF CallHolds
  <2> QED
    BY ONLY <1>0, <2>0, <2>1, <2>3, <2>4, <2>5, r.pc = "read" DEF Begun
<1>3. ASSUME NEW i \in RunsOf(h, c) PROVE LineIsOf(k, n, h[i])
  <2>1. LineIsOf(k, r, h[i]) /\ Len(r.outcomes) = r.at
    BY DEF CallHolds, Begun
  <2>2. Len(Lines(k, r.name)) \in Nat /\ r.at \in Nat
    BY LinesAreList DEF CallHolds, DcTyped
  <2> QED
    BY ONLY <1>0, <2>1, <2>2, r.pc = "read", r.at < Len(Lines(k, r.name)) DEF LineIsOf
<1>4. RanIsSo(n, h, c)
  BY <1>0 DEF RanIsSo, CallHolds
<1>5. AnswerIsSo(k, n, h, c)
  <2>1. n.answer = ""
    BY <1>0 DEF CallHolds, Begun
  <2> QED
    BY ONLY <2>1 DEF AnswerIsSo
<1> QED
  BY <1>1, <1>2, <1>3, <1>4, <1>5 DEF CallHolds

\* A list of outcomes that has grown to a.
Grown(xs, ys, o, a) ==
  /\ a \in Nat /\ a >= 1 /\ Len(ys) = a /\ ys \in Seq({"ran", "refused", "lost"})
  /\ DOMAIN xs = 1..(a - 1) /\ DOMAIN ys = 1..a
  /\ ys[a] = o /\ \A j \in 1..(a - 1) : ys[j] = xs[j]

\* The outcomes grow by one.
LEMMA OutcomesGrow ==
  ASSUME NEW xs \in Seq({"ran", "refused", "lost"}), NEW o \in {"ran", "refused", "lost"}, NEW a \in Nat \ {0},
         Len(xs) = a - 1
  PROVE  Grown(xs, Append(xs, o), o, a)
<1> DEFINE ys == Append(xs, o)
<1>1. /\ ys \in Seq({"ran", "refused", "lost"})
      /\ Len(ys) = Len(xs) + 1
      /\ \A j \in 1..Len(xs) : ys[j] = xs[j]
      /\ ys[Len(xs) + 1] = o
  BY AppendProperties
<1>2. (a - 1) + 1 = a /\ a >= 1
  OBVIOUS
<1>3. DOMAIN ys = 1..Len(ys) /\ DOMAIN xs = 1..Len(xs)
  BY <1>1, LenProperties
<1> QED
  BY <1>1, <1>2, <1>3 DEF Grown

\* What a call is once its line is typed.
NowRead(k, r, n, o) ==
  /\ n.pc = "read" /\ n.try = r.try /\ n.at = r.at /\ n.name = r.name /\ n.answer = ""
  /\ Grown(r.outcomes, n.outcomes, o, r.at) /\ DcTyped(n) /\ Begun(k, n)

\* The call a line of which was typed waits for what it prints.
LEMMA LineTyped ==
  ASSUME NEW k, NEW r, NEW h, NEW c, NEW o \in {"ran", "refused", "lost"}, NEW n, CallHolds(k, r, h, c),
         r.pc = "send", n = DcRec("read", r.try, r.at, r.name, Append(r.outcomes, o), r.answer)
  PROVE  NowRead(k, r, n, o)
<1>0. /\ n.pc = "read" /\ n.try = r.try /\ n.at = r.at /\ n.name = r.name /\ n.answer = r.answer
      /\ n.outcomes = Append(r.outcomes, o)
  BY DEF DcRec
<1>1. DcTyped(r) /\ Begun(k, r)
  BY DEF CallHolds
<1>2. r.at \in Nat \ {0} /\ Len(r.outcomes) = r.at - 1 /\ r.outcomes \in Seq({"ran", "refused", "lost"})
  BY <1>1 DEF DcTyped, Begun
<1>3. Grown(r.outcomes, n.outcomes, o, r.at)
  BY <1>0, <1>2, OutcomesGrow
<1>8. DcTyped(n)
  BY ONLY <1>0, <1>1, <1>3 DEF DcTyped, PcSet, Grown
<1>9. Begun(k, n)
  <2>1. PICK a, xs, ys : a = r.at /\ xs = r.outcomes /\ ys = n.outcomes
    OBVIOUS
  <2>2. Len(ys) = a /\ \A j \in 1..(a - 1) : ys[j] = xs[j]
    BY <1>3, <2>1 DEF Grown
  <2> QED
    <3>1. \A j \in 1..(a - 1) : ys[j] # "lost" /\ (k.stop => ys[j] = "ran")
      BY ONLY <1>1, <2>1, <2>2, r.pc = "send" DEF Begun
    <3>2. \A j \in 1..(n.at - 1) : n.outcomes[j] # "lost" /\ (k.stop => n.outcomes[j] = "ran")
      BY ONLY <1>0, <2>1, <3>1
    <3>3. n.at <= Len(Lines(k, n.name)) /\ Len(n.outcomes) = n.at
      BY ONLY <1>0, <1>1, <2>1, <2>2, r.pc = "send" DEF Begun
    <3>4. Valid(k) /\ (k.tool \in Restarts => k.confirm) /\ r.answer = "" /\ k.tool # "idle"
      BY ONLY <1>1, r.pc = "send" DEF Begun
    <3> QED
      BY ONLY <1>0, <1>1, <3>2, <3>3, <3>4 DEF Begun
<1>10. n.answer = ""
  BY <1>0, <1>1 DEF Begun
<1> QED
  BY <1>0, <1>3, <1>8, <1>9, <1>10 DEF NowRead

\* A line of before the one that is typed, seen from behind it.
LEMMA LineBefore ==
  ASSUME NEW k, NEW r, NEW n, NEW o, NEW e, NEW a, NEW xs, NEW ys, NEW t, LineIsOf(k, r, e), r.pc = "send",
         r.at = a, r.outcomes = xs, r.try = t, a <= Len(Lines(k, r.name)),
         Len(Lines(k, r.name)) \in Nat, Len(xs) = a - 1, 
         n.pc = "read", n.try = t, n.name = r.name, n.outcomes = ys, Grown(xs, ys, o, a)
  PROVE  LineIsOf(k, n, e) /\ (e.try = t => e.at \in 1..(a - 1))
<1>1. a \in Nat /\ a >= 1 /\ Len(ys) = a /\ \A j \in 1..(a - 1) : ys[j] = xs[j]
  BY DEF Grown
<1>2. e.try = t => e.at \in 1..(a - 1) /\ xs[e.at] \in {"ran", "lost"}
  BY <1>1 DEF LineIsOf
<1>3. e.try = t => e.at <= Len(ys) /\ ys[e.at] \in {"ran", "lost"}
  BY <1>1, <1>2
<1> QED
  BY <1>2, <1>3 DEF LineIsOf

\* The line is typed, and the box does not run it.
LEMMA LineNotRun ==
  ASSUME NEW k, NEW r, NEW h, NEW c, NEW o \in {"refused", "lost"}, NEW n, IsOrder(k), CallHolds(k, r, h, c),
         r.pc = "send", n = DcRec("read", r.try, r.at, r.name, Append(r.outcomes, o), r.answer)
  PROVE  CallHolds(k, n, h, c)
<1>0. /\ n.pc = "read" /\ n.try = r.try /\ n.at = r.at /\ n.name = r.name /\ n.answer = ""
      /\ Grown(r.outcomes, n.outcomes, o, r.at) /\ DcTyped(n) /\ Begun(k, n)
  <2>1. NowRead(k, r, n, o)
    BY LineTyped, o \in {"ran", "refused", "lost"}
  <2> QED
    BY ONLY <2>1 DEF NowRead
<1>a. PICK a, xs, ys, t : a = r.at /\ xs = r.outcomes /\ ys = n.outcomes /\ t = r.try
  OBVIOUS
<1>b. /\ a \in Nat /\ a >= 1 /\ Len(xs) = a - 1 /\ a <= Len(Lines(k, r.name))
      /\ Len(Lines(k, r.name)) \in Nat
  <2>1. Begun(k, r) /\ DcTyped(r) /\ Len(Lines(k, r.name)) \in Nat
    BY LinesAreList DEF CallHolds
  <2>2. a \in Nat /\ a >= 1
    BY ONLY <1>a, <2>1 DEF DcTyped
  <2> QED
    BY ONLY <1>a, <2>1, <2>2, r.pc = "send" DEF Begun
<1>c. Grown(xs, ys, o, a)
  BY <1>0, <1>a
<1>d. DOMAIN xs = 1..(a - 1) /\ DOMAIN ys = 1..a /\ ys[a] = o /\ \A j \in 1..(a - 1) : ys[j] = xs[j]
  BY <1>c DEF Grown
<1>1. \A j \in DOMAIN ys : j \in DOMAIN xs \/ j = a
  BY ONLY <1>b, <1>d
<1>3. ASSUME NEW i \in RunsOf(h, c) PROVE LineIsOf(k, n, h[i])
  <2>1. LineIsOf(k, r, h[i])
    BY DEF CallHolds
  <2> QED
    BY ONLY <1>0, <1>a, <1>b, <1>c, <2>1, r.pc = "send", LineBefore
<1>4. RanIsSo(n, h, c)
  <2>1. RanIsSo(r, h, c)
    BY DEF CallHolds
  <2> QED
    BY ONLY <1>0, <1>1, <1>a, <1>b, <1>d, <2>1, o \in {"refused", "lost"}, r.pc = "send" DEF RanIsSo
<1>5. AnswerIsSo(k, n, h, c)
  BY ONLY <1>0 DEF AnswerIsSo
<1> QED
  BY <1>0, <1>3, <1>4, <1>5 DEF CallHolds

\* The box runs the line: it comes behind those of the same try.
LEMMA LineRuns ==
  ASSUME NEW k, NEW r, NEW h, NEW c, NEW o \in {"ran", "lost"}, NEW n, NEW e, NEW g,
         IsOrder(k), IsList(h), CallHolds(k, r, h, c), r.pc = "send",
         e = [by |-> c, try |-> r.try, at |-> r.at, line |-> Lines(k, r.name)[r.at]], g = Append(h, e),
         n = DcRec("read", r.try, r.at, r.name, Append(r.outcomes, o), r.answer)
  PROVE  CallHolds(k, n, g, c)
<1>0. /\ n.pc = "read" /\ n.try = r.try /\ n.at = r.at /\ n.name = r.name /\ n.answer = ""
      /\ Grown(r.outcomes, n.outcomes, o, r.at) /\ DcTyped(n) /\ Begun(k, n)
  <2>1. NowRead(k, r, n, o)
    BY LineTyped, o \in {"ran", "refused", "lost"}
  <2> QED
    BY ONLY <2>1 DEF NowRead
<1>a. PICK a, xs, ys, t : a = r.at /\ xs = r.outcomes /\ ys = n.outcomes /\ t = r.try
  OBVIOUS
<1>b. /\ a \in Nat /\ a >= 1 /\ Len(xs) = a - 1 /\ a <= Len(Lines(k, r.name))
      /\ Len(Lines(k, r.name)) \in Nat
  <2>1. Begun(k, r) /\ DcTyped(r) /\ Len(Lines(k, r.name)) \in Nat
    BY LinesAreList DEF CallHolds
  <2>2. a \in Nat /\ a >= 1
    BY ONLY <1>a, <2>1 DEF DcTyped
  <2> QED
    BY ONLY <1>a, <2>1, <2>2, r.pc = "send" DEF Begun
<1>c. Grown(xs, ys, o, a)
  BY <1>0, <1>a
<1>d. DOMAIN xs = 1..(a - 1) /\ DOMAIN ys = 1..a /\ ys[a] = o /\ \A j \in 1..(a - 1) : ys[j] = xs[j]
  BY <1>c DEF Grown
<1>1. PICK z : z = Len(h) + 1
  OBVIOUS
<1>2. /\ RunsOf(g, c) = RunsOf(h, c) \cup {z} /\ z \in Nat
      /\ \A i \in RunsOf(h, c) : g[i] = h[i] /\ i \in Nat /\ i < z
      /\ g[z] = e /\ e.by = c
  BY <1>1, ListGrows DEF RunsOf
<1>3. e.try = t /\ e.at = a /\ e.line = Lines(k, r.name)[a] /\ t \in {1, 2}
  BY <1>a DEF CallHolds, DcTyped
<1>4. Begun(k, r) /\ a \in 1..Len(Lines(k, r.name))
  BY <1>b DEF CallHolds
<1>5. ASSUME NEW i \in RunsOf(h, c) PROVE LineIsOf(k, n, h[i]) /\ (h[i].try = t => h[i].at \in 1..(a - 1))
  <2>1. LineIsOf(k, r, h[i])
    BY DEF CallHolds
  <2> QED
    BY ONLY <1>0, <1>a, <1>b, <1>c, <2>1, r.pc = "send", LineBefore
<1>6. LineIsOf(k, n, e)
  <2>1. Valid(k) /\ (k.tool \in Restarts => k.confirm)
    BY ONLY <1>4, r.pc = "send" DEF Begun
  <2>2. Len(ys) = a
    BY <1>c DEF Grown
  <2>3. n.try = t /\ n.outcomes = ys /\ n.pc = "read" /\ n.name = r.name
    BY <1>0, <1>a
  <2> QED
    BY ONLY <1>3, <1>4, <1>b, <1>d, <2>1, <2>2, <2>3, o \in {"ran", "lost"} DEF LineIsOf
<1>7. \A i \in RunsOf(g, c) : LineIsOf(k, n, g[i])
  BY <1>2, <1>5, <1>6
<1>8. InOrder(k, g, c)
  <2>1. ASSUME NEW i \in RunsOf(h, c), k.stop, g[i].at > 1
        PROVE  \E j \in RunsOf(g, c) : j < i /\ g[j].at = g[i].at - 1 /\ g[j].try = g[i].try
    <3>1. PICK j \in RunsOf(h, c) : j < i /\ h[j].at = h[i].at - 1 /\ h[j].try = h[i].try
      BY <1>2, <2>1 DEF CallHolds, InOrder
    <3> QED
      BY <1>2, <3>1
  <2>2. ASSUME k.stop, a > 1
        PROVE  \E j \in RunsOf(g, c) : j < z /\ g[j].at = a - 1 /\ g[j].try = t
    <3>1. a - 1 \in 1..(a - 1)
      BY ONLY <1>b, <2>2
    <3>2. xs[a - 1] = "ran"
      BY ONLY <1>4, <1>a, <2>2, <3>1, r.pc = "send" DEF Begun
    <3>3. RanIsSo(r, h, c)
      BY DEF CallHolds
    <3>4. HasRun(h, c, a - 1, t)
      BY ONLY <1>a, <1>d, <3>1, <3>2, <3>3, r.pc = "send" DEF RanIsSo
    <3>5. PICK j \in RunsOf(h, c) : h[j].at = a - 1 /\ h[j].try = t
      BY <3>4 DEF HasRun
    <3> QED
      BY <1>2, <3>5
  <2>3. ASSUME NEW i \in RunsOf(g, c), NEW j \in RunsOf(g, c), i < j, g[i].try = g[j].try
        PROVE  g[i].at < g[j].at
    <3>1. CASE j \in RunsOf(h, c)
      <4>1. i \in RunsOf(h, c)
        BY <1>2, <2>3, <3>1
      <4> QED
        BY <1>2, <2>3, <3>1, <4>1 DEF CallHolds, InOrder
    <3>2. CASE j = z
      <4>1. i \in RunsOf(h, c)
        BY <1>2, <2>3, <3>2
      <4>2. h[i].try = t
        BY <1>2, <1>3, <2>3, <3>2, <4>1
      <4>3. h[i].at \in 1..(a - 1)
        BY <1>5, <4>1, <4>2
      <4>4. g[i].at = h[i].at /\ g[j].at = a
        BY <1>2, <1>3, <3>2, <4>1
      <4>5. PICK b : b = h[i].at
        OBVIOUS
      <4>6. b < a
        BY ONLY <1>b, <4>3, <4>5
      <4> QED
        BY ONLY <4>4, <4>5, <4>6
    <3> QED
      BY <1>2, <3>1, <3>2
  <2>4. ASSUME NEW i \in RunsOf(g, c), k.stop, g[i].at > 1
        PROVE  \E j \in RunsOf(g, c) : j < i /\ g[j].at = g[i].at - 1 /\ g[j].try = g[i].try
    <3>1. CASE i \in RunsOf(h, c)
      BY <2>1, <2>4, <3>1
    <3>2. CASE i = z
      <4>1. g[i].at = a /\ g[i].try = t
        BY <1>2, <1>3, <3>2
      <4> QED
        BY <2>2, <2>4, <3>2, <4>1
    <3> QED
      BY <1>2, <3>1, <3>2
  <2> QED
    BY ONLY <2>3, <2>4 DEF InOrder
<1>9. RanIsSo(n, g, c)
  <2>1. RanIsSo(r, h, c)
    BY DEF CallHolds
  <2>2. ASSUME NEW m \in DOMAIN ys, ys[m] = "ran" PROVE HasRun(g, c, m, t)
    <3>1. CASE m = a
      BY <1>2, <1>3, <3>1 DEF HasRun
    <3>2. CASE m \in DOMAIN xs
      <4>1. HasRun(h, c, m, t)
        BY ONLY <1>a, <1>d, <2>1, <2>2, <3>2, r.pc = "send" DEF RanIsSo
      <4>2. PICK i \in RunsOf(h, c) : h[i].at = m /\ h[i].try = t
        BY <4>1 DEF HasRun
      <4> QED
        BY <1>2, <4>2 DEF HasRun
    <3> QED
      BY ONLY <1>b, <1>d, <2>2, <3>1, <3>2
  <2> QED
    BY <1>0, <1>a, <2>2 DEF RanIsSo
<1>10. AnswerIsSo(k, n, g, c)
  BY ONLY <1>0 DEF AnswerIsSo
<1> QED
  BY <1>0, <1>7, <1>8, <1>9, <1>10 DEF CallHolds

\* What a call cannot have run when its channel fails it, or before.
LEMMA FailedAnswer ==
  ASSUME NEW k, NEW r, NEW h, NEW c, NEW n, CallHolds(k, r, h, c), r.pc \in {"call", "open", "send"},
         n.answer # "ok", n.name = r.name
  PROVE  AnswerIsSo(k, n, h, c)
<1>1. ASSUME NEW i \in RunsOf(h, c) PROVE h[i].at # Len(Lines(k, r.name))
  <2>1. LineIsOf(k, r, h[i])
    BY DEF CallHolds
  <2> QED
    BY ONLY <2>1, r.pc \in {"call", "open", "send"} DEF LineIsOf
<1> QED
  BY <1>1 DEF AnswerIsSo

\* A word is one line.
LEMMA OneWord ==
  ASSUME NEW k, NEW name, k.tool \in {"show", "run", "clear"}
  PROVE  Lines(k, name) = <<Typed(k.verb, k.name)>> /\ Len(Lines(k, name)) = 1
<1>1. Lines(k, name) = <<Typed(k.verb, k.name)>>
  BY DEF Lines, WordLine, Restarts
<1>2. Len(<<Typed(k.verb, k.name)>>) = 1
  OBVIOUS
<1> QED
  BY <1>1, <1>2

\* The answer of a sequence that is over.
LEMMA LastAnswer ==
  ASSUME NEW k, NEW r, NEW h, NEW c, NEW n, NEW last, IsOrder(k), CallHolds(k, r, h, c), r.pc = "read",
         last = r.outcomes[Len(r.outcomes)],
         (last = "lost" \/ (k.stop /\ last = "refused")) \/ ~(r.at < Len(Lines(k, r.name))),
         n.answer = IF last = "lost" THEN "timeout" ELSE IF Refusals(k, r.outcomes) # {} THEN "error" ELSE "ok",
         n.name = r.name, n.try = r.try
  PROVE  AnswerIsSo(k, n, h, c)
<1>a. PICK a, xs, N : a = r.at /\ xs = r.outcomes /\ N = Len(Lines(k, r.name))
  OBVIOUS
<1>1. Begun(k, r) /\ DcTyped(r) /\ RanIsSo(r, h, c) /\ N \in Nat
  BY <1>a, LinesAreList DEF CallHolds
<1>2. a \in Nat /\ a >= 1 /\ Len(xs) = a /\ a <= N /\ xs \in Seq({"ran", "refused", "lost"})
  <2>1. a \in Nat /\ a >= 1 /\ xs \in Seq({"ran", "refused", "lost"})
    BY ONLY <1>a, <1>1 DEF DcTyped
  <2> QED
    BY ONLY <1>a, <1>1, <2>1, r.pc = "read" DEF Begun
<1>3. DOMAIN xs = 1..a /\ a \in 1..a /\ \A j \in 1..a : xs[j] \in {"ran", "refused", "lost"}
  BY ONLY <1>2, LenProperties, ElementOfSeq
<1>4. last = xs[a]
  BY <1>a, <1>2
<1>5. ASSUME n.answer = "ok"
      PROVE  /\ HasRun(h, c, N, r.try)
             /\ k.tool \in {"raw", "clear", "run"} => \A m \in 1..N : HasRun(h, c, m, r.try)
  <2>1. last # "lost" /\ Refusals(k, xs) = {}
    BY <1>a, <1>5
  <2>2. xs[a] # "refused"
    BY <1>2, <1>3, <2>1 DEF Refusals
  <2>3. a = N /\ xs[a] = "ran"
    BY <1>a, <1>2, <1>3, <1>4, <2>1, <2>2
  <2>4. HasRun(h, c, N, r.try)
    BY ONLY <1>a, <1>1, <1>3, <2>3, r.pc = "read" DEF RanIsSo
  <2>5. ASSUME k.tool = "raw", NEW m \in 1..N PROVE HasRun(h, c, m, r.try)
    <3>1. m \in DOMAIN xs /\ xs[m] # "refused"
      BY <1>3, <2>1, <2>3, <2>5 DEF Refusals
    <3>2. m = a \/ m \in 1..(a - 1)
      BY ONLY <1>2, <2>3, <2>5
    <3>3. m \in 1..(a - 1) => xs[m] # "lost"
      BY ONLY <1>a, <1>1, r.pc = "read" DEF Begun
    <3>4. xs[m] = "ran"
      BY <1>3, <2>3, <3>1, <3>2, <3>3
    <3> QED
      BY ONLY <1>a, <1>1, <3>1, <3>4, r.pc = "read" DEF RanIsSo
  <2>6. ASSUME k.tool \in {"clear", "run"}, NEW m \in 1..N PROVE HasRun(h, c, m, r.try)
    <3>1. N = 1
      BY <1>a, <2>6, OneWord
    <3>2. m = N
      BY ONLY <2>6, <3>1
    <3> QED
      BY <2>4, <3>2
  <2> QED
    BY <2>4, <2>5, <2>6
<1>6. ASSUME n.answer \in {"invalid", "dry run", "connect_error", "error"}, k.tool \in Restarts, NEW i \in RunsOf(h, c)
      PROVE  h[i].at # N
  <2>1. Refusals(k, xs) # {}
    BY <1>6, <1>a
  <2>2. PICK j \in DOMAIN xs : xs[j] = "refused" /\ (k.tool = "raw" \/ j = Len(xs))
    BY <2>1 DEF Refusals
  <2>3. xs[a] = "refused"
    BY <1>2, <1>6, <2>2 DEF Restarts
  <2>4. LineIsOf(k, r, h[i])
    BY DEF CallHolds
  <2>5. PICK b : b = h[i].at
    OBVIOUS
  <2>6. b = N => b <= a /\ b \in 1..N /\ xs[b] \in {"ran", "lost"}
    BY ONLY <1>a, <1>2, <2>4, <2>5, r.pc = "read" DEF LineIsOf
  <2>7. b = N => b = a
    BY ONLY <1>1, <1>2, <2>6
  <2> QED
    BY <2>3, <2>5, <2>6, <2>7
<1> QED
  BY ONLY <1>5, <1>6, <1>a, n.name = r.name, n.try = r.try DEF AnswerIsSo

-----------------------------------------------------------------------------
(* One step of the system.                                                 *)

\* No call has begun.
LEMMA DcInitInv == DcInit => DcInv
<1> SUFFICES ASSUME DcInit PROVE DcInv
  OBVIOUS
<1>1. dcRan = <<>> /\ IsList(dcRan) /\ \A c : RunsOf(dcRan, c) = {}
  <2>1. dcRan = <<>>
    BY DEF DcInit
  <2>2. <<>> \in Seq(Nat)
    OBVIOUS
  <2>3. IsList(dcRan)
    BY ONLY <2>1, <2>2 DEF IsList
  <2>4. \A i \in DOMAIN dcRan : FALSE
    BY ONLY <2>1
  <2> QED
    BY ONLY <2>1, <2>3, <2>4 DEF RunsOf
<1>2. ASSUME NEW c \in DcCallers PROVE IsDc(dc[c]) /\ CallHolds(dcJob[c], dc[c], dcRan, c)
  <2> DEFINE k == dcJob[c]
  <2>1. PICK r : r = dc[c]
    OBVIOUS
  <2>2. r = DcRec(IF k.tool = "idle" THEN "done" ELSE "call", 1, 1, k.name, <<>>, "")
    BY <2>1 DEF DcInit, DcRec
  <2>3. IsDc(r) /\ r.try = 1 /\ r.at = 1 /\ r.name = k.name /\ r.outcomes = <<>> /\ r.answer = ""
        /\ r.pc = (IF k.tool = "idle" THEN "done" ELSE "call")
    BY <2>2 DEF DcRec, IsDc
  <2> HIDE DEF k
  <2>4. DcTyped(r)
    <3>1. <<>> \in Seq({"ran", "refused", "lost"})
      OBVIOUS
    <3> QED
      <4>1. r.pc \in {"call", "done"}
        BY ONLY <2>3
      <4>2. r.try = 1 /\ r.at = 1 /\ r.outcomes = <<>> /\ r.answer = ""
        BY ONLY <2>3
      <4>3. r.outcomes \in Seq({"ran", "refused", "lost"})
        BY ONLY <3>1, <4>2
      <4>4. r.pc \in PcSet /\ r.answer \in AnswerSet
        BY ONLY <4>1, <4>2 DEF PcSet, AnswerSet
      <4>5. 1 \in Nat \ {0}
        OBVIOUS
      <4> QED
        BY ONLY <4>2, <4>3, <4>4, <4>5 DEF DcTyped
  <2>5. Begun(k, r)
    BY ONLY <2>3 DEF Begun
  <2>6. \A i \in RunsOf(dcRan, c) : FALSE
    BY <1>1
  <2>7. RanIsSo(r, dcRan, c) /\ AnswerIsSo(k, r, dcRan, c)
    BY ONLY <2>3 DEF RanIsSo, AnswerIsSo
  <2>8. CallHolds(k, r, dcRan, c)
    BY ONLY <2>4, <2>5, <2>6, <2>7 DEF CallHolds, InOrder
  <2> QED
    BY ONLY <2>1, <2>3, <2>8 DEF k
<1> QED
  BY <1>1, <1>2 DEF DcInit, DcInv

\* What is left of the invariant is of types.
DcWorld ==
  /\ dcJob \in DcSettings
  /\ chan \in [DcCallers -> [live : BOOLEAN, silent : BOOLEAN]]
  /\ dcBox \in {"up", "down", "bare"} /\ table \in DcTables

\* One caller steps, and the history is as it was.
LEMMA OneCallMoves ==
  ASSUME DcInv, DcWorld', NEW c \in DcCallers, NEW n, dc' = [dc EXCEPT ![c] = n], IsDc(n), dcJob' = dcJob,
         dcRan' = dcRan, CallHolds(dcJob[c], n, dcRan, c)
  PROVE  DcInv'
<1>1. \A d \in DcCallers : dc'[d] = IF d = c THEN n ELSE dc[d]
  BY DEF DcInv
<1>2. dc' = [d \in DcCallers |-> dc'[d]]
  BY DEF DcInv
<1>3. \A d \in DcCallers : IsDc(dc'[d]) /\ CallHolds(dcJob[d], dc'[d], dcRan, d)
  BY <1>1 DEF DcInv
<1>4. \A d \in DcCallers : IsDc(dc'[d]) /\ CallHolds(dcJob'[d], dc'[d], dcRan', d)
  BY <1>3
<1>5. IsList(dcRan')
  BY DEF DcInv
<1> QED
  BY <1>2, <1>4, <1>5 DEF DcInv, DcWorld

\* One caller steps, and the box runs its line.
LEMMA OneCallRuns ==
  ASSUME DcInv, DcWorld', NEW c \in DcCallers, NEW n, NEW e, dc' = [dc EXCEPT ![c] = n], IsDc(n), dcJob' = dcJob,
         dcRan' = Append(dcRan, e), e.by = c, CallHolds(dcJob[c], n, dcRan', c)
  PROVE  DcInv'
<1>1. \A d \in DcCallers : dc'[d] = IF d = c THEN n ELSE dc[d]
  BY DEF DcInv
<1>2. dc' = [d \in DcCallers |-> dc'[d]]
  BY DEF DcInv
<1>3. IsList(dcRan) /\ IsList(dcRan')
  BY ListGrows DEF DcInv
<1>4. ASSUME NEW d \in DcCallers, d # c PROVE IsDc(dc'[d]) /\ CallHolds(dcJob'[d], dc'[d], dcRan', d)
  <2>1. IsDc(dc[d]) /\ CallHolds(dcJob[d], dc[d], dcRan, d) /\ dc'[d] = dc[d]
    BY <1>1, <1>4 DEF DcInv
  <2>2. PICK k, r, g : k = dcJob[d] /\ r = dc[d] /\ g = dcRan'
    OBVIOUS
  <2>3. CallHolds(k, r, g, d)
    BY <1>3, <1>4, <2>1, <2>2, OtherLine
  <2> QED
    BY <2>1, <2>2, <2>3
<1>5. \A d \in DcCallers : IsDc(dc'[d]) /\ CallHolds(dcJob'[d], dc'[d], dcRan', d)
  BY <1>1, <1>4
<1> QED
  BY <1>2, <1>3, <1>5 DEF DcInv, DcWorld

\* A record stays one, field by field.
LEMMA DcRecIsDc == ASSUME NEW pc, NEW try, NEW at, NEW name, NEW outcomes, NEW answer
                   PROVE  IsDc(DcRec(pc, try, at, name, outcomes, answer))
  BY DEF IsDc, DcRec

\* What the actions assign.
LEMMA Assigned ==
  ASSUME DcInv, NEW c \in DcCallers
  PROVE  /\ \A s : Answered(c, s) =>
              dc' = [dc EXCEPT ![c] = DcRec("done", dc[c].try, dc[c].at, dc[c].name, dc[c].outcomes, s)]
         /\ \A p : dc' = [dc EXCEPT ![c].pc = p] =>
              dc' = [dc EXCEPT ![c] = DcRec(p, dc[c].try, dc[c].at, dc[c].name, dc[c].outcomes, dc[c].answer)]
         /\ dc' = [dc EXCEPT ![c].pc = "open", ![c].try = 2, ![c].at = 1, ![c].outcomes = <<>>] =>
              dc' = [dc EXCEPT ![c] = DcRec("open", 2, 1, dc[c].name, <<>>, dc[c].answer)]
<1>1. IsDc(dc[c]) /\ dc = [d \in DcCallers |-> dc[d]]
  BY DEF DcInv
<1>2. PICK r, u : r = dc[c] /\ u = dc'
  OBVIOUS
<1>3. \A s : u = [dc EXCEPT ![c].pc = "done", ![c].answer = s] =>
              u = [dc EXCEPT ![c] = DcRec("done", r.try, r.at, r.name, r.outcomes, s)]
  BY ONLY <1>1, <1>2, c \in DcCallers DEF IsDc, DcRec
<1>4. \A p : u = [dc EXCEPT ![c].pc = p] =>
              u = [dc EXCEPT ![c] = DcRec(p, r.try, r.at, r.name, r.outcomes, r.answer)]
  BY ONLY <1>1, <1>2, c \in DcCallers DEF IsDc, DcRec
<1>8. u = [dc EXCEPT ![c].pc = "open", ![c].try = 2, ![c].at = 1, ![c].outcomes = <<>>] =>
              u = [dc EXCEPT ![c] = DcRec("open", 2, 1, r.name, <<>>, r.answer)]
  BY ONLY <1>1, <1>2, c \in DcCallers DEF IsDc, DcRec
<1> QED
  BY <1>2, <1>3, <1>4, <1>8 DEF Answered

\* The channels stay channels.
Channels == [DcCallers -> [live : BOOLEAN, silent : BOOLEAN]]
\* What the actions do to a channel.
LEMMA ChannelsChange ==
  ASSUME NEW f \in Channels, NEW c \in DcCallers
  PROVE  /\ \A l \in BOOLEAN : [f EXCEPT ![c] = [live |-> l, silent |-> FALSE]] \in Channels
         /\ [d \in DcCallers |-> [f[d] EXCEPT !.live = FALSE]] \in Channels
         /\ \A s \in BOOLEAN : [f EXCEPT ![c].silent = f[c].silent \/ s] \in Channels
  BY DEF Channels

\* A call fails at its channel: again, or an error.
LEMMA RaisedStep ==
  ASSUME DcInv, DcWorld', NEW c \in DcCallers, dc[c].pc \in {"open", "send"}, Raised(c), dcJob' = dcJob, dcRan' = dcRan
  PROVE  DcInv'
<1>0. IsDc(dc[c]) /\ dc = [d \in DcCallers |-> dc[d]]
  BY DEF DcInv
<1>1. PICK k, r, h : k = dcJob[c] /\ r = dc[c] /\ h = dcRan
  OBVIOUS
<1>2. CallHolds(k, r, h, c) /\ r.try \in {1, 2} /\ r.pc \in {"open", "send"}
  BY <1>1 DEF DcInv, CallHolds, DcTyped
<1>3. CASE r.try = 1
  <2>1. PICK n : n = DcRec("open", 2, 1, r.name, <<>>, r.answer)
    OBVIOUS
  <2>2. dc' = [dc EXCEPT ![c] = n]
    BY <1>1, <1>3, <2>1, Assigned DEF Raised
  <2>3. CallHolds(k, n, h, c)
    BY ONLY <1>2, <1>3, <2>1, TriesAgain
  <2>4. IsDc(n)
    BY <2>1, DcRecIsDc
  <2> QED
    BY <1>1, <2>2, <2>3, <2>4, OneCallMoves
<1>4. CASE r.try = 2
  <2>1. PICK n : n = DcRec("done", r.try, r.at, r.name, r.outcomes, "error")
    OBVIOUS
  <2>0. Answered(c, "error")
    BY <1>1, <1>4 DEF Raised
  <2>2. dc' = [dc EXCEPT ![c] = n]
    <3>1. PICK p, y, u : p = "done" /\ y = "error" /\ u = dc'
      OBVIOUS
    <3>2. u = [dc EXCEPT ![c].pc = p, ![c].answer = y]
      BY ONLY <1>1, <2>0, <3>1 DEF Answered
    <3>3. PICK m : m = [r EXCEPT !.pc = p, !.answer = y]
      OBVIOUS
    <3>4. m = DcRec(p, r.try, r.at, r.name, r.outcomes, y)
      BY ONLY <1>0, <1>1, <3>3 DEF IsDc, DcRec
    <3>5. u = [dc EXCEPT ![c] = m]
      BY ONLY <1>0, <1>1, <3>2, <3>3, c \in DcCallers
    <3> QED
      BY ONLY <3>1, <3>4, <3>5, <2>1
  <2>3. n.answer # "ok" /\ n.name = r.name
    BY <2>1 DEF DcRec
  <2>4. AnswerIsSo(k, n, h, c)
    BY ONLY <1>2, <2>3, FailedAnswer
  <2>5. "error" \in AnswerSet
    BY DEF AnswerSet
  <2>6. CallHolds(k, n, h, c)
    BY ONLY <1>2, <2>1, <2>4, <2>5, CallEnds
  <2>7. IsDc(n)
    BY <2>1, DcRecIsDc
  <2> QED
    BY <1>1, <2>2, <2>6, <2>7, OneCallMoves
<1> QED
  BY <1>2, <1>3, <1>4

\* A call is answered with a failure before a line runs.
LEMMA RefusedStep ==
  ASSUME DcInv, DcWorld', NEW c \in DcCallers, NEW s \in AnswerSet \ {"ok"}, dc[c].pc \in {"call", "open"},
         Answered(c, s), dcJob' = dcJob, dcRan' = dcRan
  PROVE  DcInv'
<1>1. PICK k, r, h : k = dcJob[c] /\ r = dc[c] /\ h = dcRan
  OBVIOUS
<1>2. CallHolds(k, r, h, c) /\ r.pc \in {"call", "open", "send"} /\ r.pc # "done"
  BY <1>1 DEF DcInv
<1>3. PICK n : n = DcRec("done", r.try, r.at, r.name, r.outcomes, s)
  OBVIOUS
<1>4. dc' = [dc EXCEPT ![c] = n]
  BY <1>1, <1>3, Assigned
<1>5. n.answer # "ok" /\ n.name = r.name
  BY <1>3 DEF DcRec
<1>6. AnswerIsSo(k, n, h, c)
  BY ONLY <1>2, <1>5, FailedAnswer
<1>7. CallHolds(k, n, h, c)
  BY <1>2, <1>3, <1>6, CallEnds
<1>8. IsDc(n)
  BY <1>3, DcRecIsDc
<1> QED
  BY <1>1, <1>4, <1>7, <1>8, OneCallMoves

\* A call is let through, or refused before it opens a channel.
LEMMA SubmitStep == ASSUME DcInv, NEW c \in DcCallers, Submit(c) PROVE DcInv'
<1>1. PICK k, r, h : k = dcJob[c] /\ r = dc[c] /\ h = dcRan
  OBVIOUS
<1>2. CallHolds(k, r, h, c) /\ r.pc = "call" /\ dcJob' = dcJob /\ dcRan' = dcRan
  BY <1>1 DEF DcInv, Submit
<1>3. DcWorld'
  BY DEF DcInv, DcWorld, Submit
<1>4. CASE ~Valid(k)
  <2>1. Answered(c, "invalid")
    BY <1>1, <1>4 DEF Submit
  <2> QED
    BY <1>1, <1>2, <1>3, <2>1, RefusedStep DEF AnswerSet
<1>5. CASE Valid(k) /\ k.tool \in Restarts /\ ~k.confirm
  <2>1. Answered(c, "dry run")
    BY <1>1, <1>5 DEF Submit
  <2> QED
    BY <1>1, <1>2, <1>3, <2>1, RefusedStep DEF AnswerSet
<1>6. CASE Valid(k) /\ (k.tool \in Restarts => k.confirm)
  <2>1. PICK p : p = IF k.tool = "process" THEN "lookup" ELSE "open"
    OBVIOUS
  <2>2. PICK n : n = DcRec(p, r.try, r.at, r.name, r.outcomes, r.answer)
    OBVIOUS
  <2>3. dc' = [dc EXCEPT ![c].pc = p]
    BY <1>1, <1>6, <2>1 DEF Submit
  <2>4. dc' = [dc EXCEPT ![c] = n]
    BY <1>1, <2>2, <2>3, Assigned
  <2>5. p \in {"lookup", "open"} /\ (p = "lookup" => k.tool = "process") /\ r.pc \in {"call", "lookup"}
    BY <1>2, <2>1
  <2>6. CallHolds(k, n, h, c)
    BY ONLY <1>2, <1>6, <2>2, <2>5, LetThrough
  <2>7. IsDc(n)
    BY <2>2, DcRecIsDc
  <2> QED
    BY <1>1, <1>2, <1>3, <2>4, <2>6, <2>7, OneCallMoves
<1> QED
  BY <1>4, <1>5, <1>6

\* The row a bare name stands for is of the same daemon.
LEMMA SameDaemon == ASSUME NEW name PROVE Resolved(name) = name \/ BaseOf[Resolved(name)] = BaseOf[name]
<1> DEFINE hits == {t \in table : t = name \/ BaseOf[t] = name}
<1>1. CASE name = BaseOf[name] /\ Cardinality(hits) = 1
  <2>1. hits # {}
    BY <1>1, FS_EmptySet
  <2>2. PICK t \in hits : Resolved(name) = t
    BY <1>1, <2>1 DEF Resolved
  <2> QED
    BY <1>1, <2>2
<1>2. CASE ~(name = BaseOf[name] /\ Cardinality(hits) = 1)
  BY <1>2 DEF Resolved
<1> QED
  BY <1>1, <1>2

\* The name is looked up.
LEMMA LookUpStep == ASSUME DcInv, NEW c \in DcCallers, LookUpName(c) PROVE DcInv'
<1>0. IsDc(dc[c]) /\ dc = [d \in DcCallers |-> dc[d]]
  BY DEF DcInv
<1>1. PICK k, r, h : k = dcJob[c] /\ r = dc[c] /\ h = dcRan
  OBVIOUS
<1>2. CallHolds(k, r, h, c) /\ r.pc = "lookup" /\ dcJob' = dcJob /\ dcRan' = dcRan
  BY <1>1 DEF DcInv, LookUpName
<1>3. DcWorld'
  BY DEF DcInv, DcWorld, LookUpName
<1>4. PICK x : (x = r.name \/ x = Resolved(r.name)) /\ dc' = [dc EXCEPT ![c].pc = "open", ![c].name = x]
  BY <1>1 DEF LookUpName
<1>5. Begun(k, r)
  BY <1>2 DEF CallHolds
<1>6. k.tool = "process" /\ Valid(k) /\ (k.tool \in Restarts => k.confirm)
  BY ONLY <1>2, <1>5 DEF Begun
<1>7. x = r.name \/ (k.tool = "process" /\ BaseOf[x] = BaseOf[r.name])
  BY <1>4, <1>6, SameDaemon
<1>8. PICK n : n = DcRec("open", r.try, r.at, x, r.outcomes, r.answer)
  OBVIOUS
<1>9. dc' = [dc EXCEPT ![c] = n]
  <2>1. PICK p, y, u : p = "open" /\ y = x /\ u = dc'
    OBVIOUS
  <2>2. u = [dc EXCEPT ![c].pc = p, ![c].name = y]
    BY ONLY <1>1, <1>4, <2>1
  <2>3. PICK m : m = [r EXCEPT !.pc = p, !.name = y]
    OBVIOUS
  <2>4. m = DcRec(p, r.try, r.at, y, r.outcomes, r.answer)
    BY ONLY <1>0, <1>1, <2>3 DEF IsDc, DcRec
  <2>5. u = [dc EXCEPT ![c] = m]
    BY ONLY <1>0, <1>1, <2>2, <2>3, c \in DcCallers
  <2> QED
    BY ONLY <2>1, <2>4, <2>5, <1>8
<1>10. CallHolds(k, n, h, c)
  <2>1. r.pc \in {"call", "lookup"} /\ "open" \in {"lookup", "open"} /\ ("open" = "lookup" => k.tool = "process")
    BY <1>2
  <2> QED
    BY ONLY <1>2, <1>6, <1>7, <1>8, <2>1, LetThrough
<1>11. IsDc(n)
  BY <1>8, DcRecIsDc
<1> QED
  BY <1>1, <1>2, <1>3, <1>9, <1>10, <1>11, OneCallMoves

\* A channel opens, or does not.
LEMMA OpenStep == ASSUME DcInv, NEW c \in DcCallers, Open(c) PROVE DcInv'
<1>1. PICK k, r, h : k = dcJob[c] /\ r = dc[c] /\ h = dcRan
  OBVIOUS
<1>2. CallHolds(k, r, h, c) /\ r.pc = "open" /\ dcJob' = dcJob /\ dcRan' = dcRan /\ IsOrder(k)
  BY <1>1, SettingIsOrder DEF DcInv, Open
<1>3. DcWorld'
  <2>1. chan' \in Channels
    <3>1. chan' = chan \/ chan' = [chan EXCEPT ![c] = [live |-> TRUE, silent |-> FALSE]]
      BY DEF Open
    <3>2. chan \in Channels /\ c \in DcCallers
      BY DEF DcInv, Channels
    <3>3. PICK v : v = chan'
      OBVIOUS
    <3>4. CASE v = chan
      BY ONLY <3>2, <3>3, <3>4
    <3>5. CASE v # chan
      <4>1. PICK l \in BOOLEAN : v = [chan EXCEPT ![c] = [live |-> l, silent |-> FALSE]]
        BY <3>1, <3>3, <3>5
      <4>2. v \in Channels
        BY ONLY <3>2, <4>1 DEF Channels
      <4> QED
        BY ONLY <3>3, <4>2
    <3> QED
      BY ONLY <3>4, <3>5
  <2> QED
    BY <2>1 DEF DcInv, DcWorld, Open, Channels
<1>4. CASE Answered(c, "connect_error") \/ Answered(c, "error")
  BY <1>1, <1>2, <1>3, <1>4, RefusedStep DEF AnswerSet
<1>5. CASE Raised(c)
  BY <1>1, <1>2, <1>3, <1>5, RaisedStep
<1>6. CASE dc' = [dc EXCEPT ![c].pc = "send"]
  <2>1. PICK n : n = DcRec("send", r.try, r.at, r.name, r.outcomes, r.answer)
    OBVIOUS
  <2>2. dc' = [dc EXCEPT ![c] = n]
    BY <1>1, <1>6, <2>1, Assigned
  <2>3. CallHolds(k, n, h, c)
    BY ONLY <1>2, <2>1, ChannelOpens
  <2>4. IsDc(n)
    BY <2>1, DcRecIsDc
  <2> QED
    BY <1>1, <1>2, <1>3, <2>2, <2>3, <2>4, OneCallMoves
<1> QED
  BY <1>4, <1>5, <1>6 DEF Open

\* A line is typed.
LEMMA TypeLineStep == ASSUME DcInv, NEW c \in DcCallers, TypeLine(c) PROVE DcInv'
<1>0. IsDc(dc[c]) /\ dc = [d \in DcCallers |-> dc[d]]
  BY DEF DcInv
<1>1. PICK k, r, h : k = dcJob[c] /\ r = dc[c] /\ h = dcRan
  OBVIOUS
<1>2. CallHolds(k, r, h, c) /\ r.pc = "send" /\ dcJob' = dcJob /\ IsOrder(k) /\ IsList(h)
  BY <1>1, SettingIsOrder DEF DcInv, TypeLine
<1>3. DcWorld'
  <2>1. \/ UNCHANGED <<chan, dcBox>>
        \/ dcBox' = "down" /\ chan' = [d \in DcCallers |-> [chan[d] EXCEPT !.live = FALSE]]
        \/ /\ UNCHANGED dcBox
           /\ \E s : s \in BOOLEAN /\ chan' = [chan EXCEPT ![c].silent = chan[c].silent \/ s]
    <3>1. CASE ~chan[c].live
      BY <3>1 DEF TypeLine
    <3>2. CASE chan[c].live
      <4>1. PICK line : line = Lines(dcJob[c], dc[c].name)[dc[c].at]
        OBVIOUS
      <4>2. PICK does : 
               IF does = "ran" /\ Breaks(line)
               THEN dcBox' = "down" /\ chan' = [d \in DcCallers |-> [chan[d] EXCEPT !.live = FALSE]]
               ELSE /\ UNCHANGED dcBox
                    /\ chan' = [chan EXCEPT ![c].silent = @ \/ (does = "ran" /\ line.does = "no-confirm")]
        BY <3>2, <4>1 DEF TypeLine
      <4>3. PICK s \in BOOLEAN : s = (does = "ran" /\ line.does = "no-confirm")
        OBVIOUS
      <4> QED
        BY <4>2, <4>3
    <3> QED
      BY <3>1, <3>2
  <2>2. chan' \in Channels
    <3>1. chan \in Channels
      BY DEF DcInv, Channels
    <3>2. PICK f : f = chan
      OBVIOUS
    <3>3. CASE chan' = f
      BY ONLY <3>1, <3>2, <3>3
    <3>4. CASE chan' = [d \in DcCallers |-> [f[d] EXCEPT !.live = FALSE]]
      BY ONLY <3>1, <3>2, <3>4, ChannelsChange, c \in DcCallers
    <3>5. CASE \E s : s \in BOOLEAN /\ chan' = [f EXCEPT ![c].silent = f[c].silent \/ s]
      <4>0. PICK s \in BOOLEAN : chan' = [f EXCEPT ![c].silent = f[c].silent \/ s]
        BY <3>5
      <4>1. PICK v : v = chan' /\ v = [f EXCEPT ![c].silent = f[c].silent \/ s]
        BY <4>0
      <4>2. PICK b \in BOOLEAN : b = (f[c].silent \/ s)
        OBVIOUS
      <4>3. v = [f EXCEPT ![c].silent = b]
        BY ONLY <4>1, <4>2
      <4>4. v \in Channels
        BY ONLY <3>1, <3>2, <4>3, c \in DcCallers DEF Channels
      <4> QED
        BY ONLY <4>1, <4>4
    <3> QED
      BY <2>1, <3>2, <3>3, <3>4, <3>5
  <2>3. dcBox' \in {"up", "down", "bare"}
    BY <2>1 DEF DcInv
  <2> QED
    BY <2>2, <2>3 DEF DcInv, DcWorld, TypeLine, Channels
<1>4. CASE ~chan[c].live
  <2>1. Raised(c) /\ dcRan' = dcRan
    BY <1>4 DEF TypeLine
  <2> QED
    BY <1>1, <1>2, <1>3, <2>1, RaisedStep
<1>5. CASE chan[c].live
  <2>1. PICK line : line = Lines(k, r.name)[r.at]
    OBVIOUS
  <2>a. line = Lines(dcJob[c], dc[c].name)[dc[c].at]
    BY <1>1, <2>1
  <2>b. PICK does \in BoxMakesOf(c, line) :
          /\ dcRan' = IF does = "ran"
                      THEN Append(dcRan, [by |-> c, try |-> dc[c].try, at |-> dc[c].at, line |-> line]) ELSE dcRan
          /\ \E outcome \in {IF does = "asks" THEN "lost" ELSE does, "lost"} : Over(c, outcome)
    BY <1>5, <2>a DEF TypeLine
  <2>c. PICK o \in {IF does = "asks" THEN "lost" ELSE does, "lost"} : Over(c, o)
    BY <2>b
  <2>2. /\ Over(c, o)
        /\ dcRan' = IF does = "ran"
                    THEN Append(h, [by |-> c, try |-> r.try, at |-> r.at, line |-> line]) ELSE h
    BY <1>1, <2>b, <2>c
  <2>3. does \in {"ran", "refused", "asks"}
    BY DEF BoxMakesOf
  <2>4. PICK n : n = DcRec("read", r.try, r.at, r.name, Append(r.outcomes, o), r.answer)
    OBVIOUS
  <2>5. dc' = [dc EXCEPT ![c].pc = "read", ![c].outcomes = Append(r.outcomes, o)]
    BY <1>1, <2>2 DEF Over
  <2>6. dc' = [dc EXCEPT ![c] = n]
    <3>1. PICK p, y, u : p = "read" /\ y = Append(r.outcomes, o) /\ u = dc'
      OBVIOUS
    <3>2. u = [dc EXCEPT ![c].pc = p, ![c].outcomes = y]
      BY ONLY <1>1, <2>5, <3>1
    <3>3. PICK m : m = [r EXCEPT !.pc = p, !.outcomes = y]
      OBVIOUS
    <3>4. m = DcRec(p, r.try, r.at, r.name, y, r.answer)
      BY ONLY <1>0, <1>1, <3>3 DEF IsDc, DcRec
    <3>5. u = [dc EXCEPT ![c] = m]
      BY ONLY <1>0, <1>1, <3>2, <3>3, c \in DcCallers
    <3> QED
      BY ONLY <3>1, <3>4, <3>5, <2>4
  <2>7. IsDc(n)
    BY <2>4, DcRecIsDc
  <2>8. CASE does = "ran"
    <3>1. PICK e : e = [by |-> c, try |-> r.try, at |-> r.at, line |-> line]
      OBVIOUS
    <3>2. PICK g : g = dcRan'
      OBVIOUS
    <3>3. g = Append(h, e) /\ o \in {"ran", "lost"} /\ e.by = c
      BY <2>2, <2>8, <3>1, <3>2
    <3>4. CallHolds(k, n, g, c)
      BY ONLY <1>2, <2>1, <2>4, <3>1, <3>3, LineRuns
    <3> QED
      BY <1>1, <1>2, <1>3, <2>6, <2>7, <3>2, <3>3, <3>4, OneCallRuns
  <2>9. CASE does # "ran"
    <3>1. o \in {"refused", "lost"} /\ dcRan' = dcRan
      BY <1>1, <2>2, <2>3, <2>9
    <3>2. CallHolds(k, n, h, c)
      BY ONLY <1>2, <2>4, <3>1, LineNotRun
    <3> QED
      BY <1>1, <1>2, <1>3, <2>6, <2>7, <3>1, <3>2, OneCallMoves
  <2> QED
    BY <2>8, <2>9
<1> QED
  BY <1>4, <1>5

\* The next line, or the answer.
LEMMA NextLineStep == ASSUME DcInv, NEW c \in DcCallers, NextLine(c) PROVE DcInv'
<1>0. IsDc(dc[c]) /\ dc = [d \in DcCallers |-> dc[d]]
  BY DEF DcInv
<1>1. PICK k, r, h : k = dcJob[c] /\ r = dc[c] /\ h = dcRan
  OBVIOUS
<1>2. CallHolds(k, r, h, c) /\ r.pc = "read" /\ dcJob' = dcJob /\ dcRan' = dcRan /\ IsOrder(k)
  BY <1>1, SettingIsOrder DEF DcInv, NextLine
<1>3. DcWorld'
  <2>1. chan' \in Channels
    <3>1. chan' = chan \/ chan' = [chan EXCEPT ![c] = [live |-> FALSE, silent |-> FALSE]]
      BY DEF NextLine
    <3>2. chan \in Channels /\ c \in DcCallers
      BY DEF DcInv, Channels
    <3>3. PICK v : v = chan'
      OBVIOUS
    <3>4. CASE v = chan
      BY ONLY <3>2, <3>3, <3>4
    <3>5. CASE v # chan
      <4>1. PICK l \in BOOLEAN : v = [chan EXCEPT ![c] = [live |-> l, silent |-> FALSE]]
        BY <3>1, <3>3, <3>5
      <4>2. v \in Channels
        BY ONLY <3>2, <4>1 DEF Channels
      <4> QED
        BY ONLY <3>3, <4>2
    <3> QED
      BY ONLY <3>4, <3>5
  <2> QED
    BY <2>1 DEF DcInv, DcWorld, NextLine, Channels
<1>4. PICK last : last = r.outcomes[Len(r.outcomes)]
  OBVIOUS
<1>5. PICK stop \in BOOLEAN : stop = (last = "lost" \/ (k.stop /\ last = "refused"))
  OBVIOUS
<1>6. CASE ~stop /\ r.at < Len(Lines(k, r.name))
  <2>1. dc' = [dc EXCEPT ![c].pc = "send", ![c].at = r.at + 1]
    BY <1>1, <1>4, <1>5, <1>6 DEF NextLine
  <2>2. PICK n : n = DcRec("send", r.try, r.at + 1, r.name, r.outcomes, r.answer)
    OBVIOUS
  <2>3. dc' = [dc EXCEPT ![c] = n]
    <3>1. PICK p, y, u : p = "send" /\ y = r.at + 1 /\ u = dc'
      OBVIOUS
    <3>2. u = [dc EXCEPT ![c].pc = p, ![c].at = y]
      BY ONLY <1>1, <2>1, <3>1
    <3>3. PICK m : m = [r EXCEPT !.pc = p, !.at = y]
      OBVIOUS
    <3>4. m = DcRec(p, r.try, y, r.name, r.outcomes, r.answer)
      BY ONLY <1>0, <1>1, <3>3 DEF IsDc, DcRec
    <3>5. u = [dc EXCEPT ![c] = m]
      BY ONLY <1>0, <1>1, <3>2, <3>3, c \in DcCallers
    <3> QED
      BY ONLY <3>1, <3>4, <3>5, <2>2
  <2>4. Len(r.outcomes) = r.at
    BY <1>2 DEF CallHolds, Begun
  <2>5. r.outcomes[r.at] # "lost" /\ (k.stop => r.outcomes[r.at] # "refused")
    BY <1>4, <1>5, <1>6, <2>4
  <2>6. CallHolds(k, n, h, c)
    BY ONLY <1>2, <1>6, <2>2, <2>5, GoesOn
  <2>7. IsDc(n)
    BY <2>2, DcRecIsDc
  <2> QED
    BY <1>1, <1>2, <1>3, <2>3, <2>6, <2>7, OneCallMoves
<1>7. CASE stop \/ ~(r.at < Len(Lines(k, r.name)))
  <2>1. PICK s : s = IF last = "lost" THEN "timeout" ELSE IF Refusals(k, r.outcomes) # {} THEN "error" ELSE "ok"
    OBVIOUS
  <2>2. Answered(c, s)
    BY <1>1, <1>4, <1>5, <1>7, <2>1 DEF NextLine
  <2>3. PICK n : n = DcRec("done", r.try, r.at, r.name, r.outcomes, s)
    OBVIOUS
  <2>4. dc' = [dc EXCEPT ![c] = n]
    BY <1>1, <2>2, <2>3, Assigned
  <2>5. n.answer = s /\ n.name = r.name /\ n.try = r.try
    BY <2>3 DEF DcRec
  <2>6. (last = "lost" \/ (k.stop /\ last = "refused")) \/ ~(r.at < Len(Lines(k, r.name)))
    BY <1>5, <1>7
  <2>7. AnswerIsSo(k, n, h, c)
    BY ONLY <1>2, <1>4, <2>1, <2>5, <2>6, LastAnswer
  <2>8. s \in AnswerSet
    BY <2>1 DEF AnswerSet
  <2>9. CallHolds(k, n, h, c)
    BY <1>2, <2>3, <2>7, <2>8, CallEnds
  <2>10. IsDc(n)
    BY <2>3, DcRecIsDc
  <2> QED
    BY <1>1, <1>2, <1>3, <2>4, <2>9, <2>10, OneCallMoves
<1> QED
  BY <1>6, <1>7

\* The box comes back, or its controllers change their roles: no call moves.
LEMMA DcBoxStep == ASSUME DcInv, ComesBack \/ Failover \/ UNCHANGED dcVars PROVE DcInv'
<1>1. dc' = dc /\ dcJob' = dcJob /\ dcRan' = dcRan
  BY DEF ComesBack, Failover, dcVars
<1>2. DcWorld'
  BY DEF DcInv, DcWorld, ComesBack, Failover, dcVars
<1> QED
  BY <1>1, <1>2 DEF DcInv, DcWorld

\* DcInv holds of every behaviour.
THEOREM DcInvariance == DcSpec => []DcInv
<1>1. DcInit => DcInv
  BY DcInitInv
<1>2. DcInv /\ [DcNext]_dcVars => DcInv'
  <2> SUFFICES ASSUME DcInv, [DcNext]_dcVars PROVE DcInv'
    OBVIOUS
  <2>1. CASE \E c \in DcCallers : CallStep(c)
    <3>1. PICK c \in DcCallers : Submit(c) \/ LookUpName(c) \/ Open(c) \/ TypeLine(c) \/ NextLine(c)
      BY <2>1 DEF CallStep
    <3> QED
      BY <3>1, SubmitStep, LookUpStep, OpenStep, TypeLineStep, NextLineStep
  <2>2. CASE ComesBack \/ Failover \/ UNCHANGED dcVars
    BY <2>2, DcBoxStep
  <2> QED
    BY <2>1, <2>2 DEF DcNext
<1> QED
  BY <1>1, <1>2, PTL DEF DcSpec

\* The types of DcTypeOK.
THEOREM DcTypeCorrect == DcSpec => []DcTypeOK
<1>1. DcInv => DcTypeOK
  BY DEF DcInv, CallHolds, DcTyped, PcSet, AnswerSet, DcTypeOK
<1> QED
  BY <1>1, DcInvariance, PTL

-----------------------------------------------------------------------------
(* The promises of a call.                                                 *)

\* Which line of a call may destroy something: the last one of a restart, and
\* none of a word.
LEMMA WhatAsksYes ==
  ASSUME NEW k, NEW name, Valid(k), NEW j \in 1..Len(Lines(k, name)), AsksYes(Lines(k, name)[j])
  PROVE  /\ k.tool \notin {"show", "run", "clear"}
         /\ k.tool \in Restarts => j = Len(Lines(k, name)) /\ Lines(k, name)[j] = Typed(k.tool, name)
<1>1. ASSUME k.tool \in {"show", "run", "clear"} PROVE FALSE
  <2>1. Lines(k, name)[j] = Typed(k.verb, k.name)
    BY <1>1, OneWord
  <2>2. k.verb = k.tool /\ (k.tool = "run" => k.name # "request")
    BY <1>1 DEF Valid, WordsValid
  <2> QED
    BY <1>1, <2>1, <2>2 DEF AsksYes, Requests, Typed, Restarts
<1>2. ASSUME k.tool \in Restarts PROVE j = Len(Lines(k, name)) /\ Lines(k, name)[j] = Typed(k.tool, name)
  <2>1. Lines(k, name) = <<Typed("no-confirm", ""), Typed(k.tool, name)>>
    BY <1>2 DEF Lines, RestartLines, Restarts
  <2>2. Len(Lines(k, name)) = 2 /\ Lines(k, name)[1] = Typed("no-confirm", "") /\ Lines(k, name)[2] = Typed(k.tool, name)
    <3>1. PICK a, b, l : a = Typed("no-confirm", "") /\ b = Typed(k.tool, name) /\ l = Lines(k, name)
      OBVIOUS
    <3>2. l = <<a, b>>
      BY ONLY <2>1, <3>1
    <3>3. Len(l) = 2 /\ l[1] = a /\ l[2] = b
      BY ONLY <3>2
    <3> QED
      BY ONLY <3>1, <3>3
  <2>3. ~AsksYes(Typed("no-confirm", ""))
    BY DEF AsksYes, Requests, Typed, Restarts
  <2>4. j = 1 \/ j = 2
    <3>1. j \in 1..2
      BY <2>2
    <3> QED
      BY ONLY <3>1
  <2> QED
    BY <2>2, <2>3, <2>4
<1> QED
  BY <1>1, <1>2

\* A restart's last line is the restart.
LEMMA RestartIsLast ==
  ASSUME NEW k, NEW name, k.tool \in Restarts
  PROVE  AsksYes(Lines(k, name)[Len(Lines(k, name))])
<1>1. Lines(k, name) = <<Typed("no-confirm", ""), Typed(k.tool, name)>>
  BY DEF Lines, RestartLines, Restarts
<1>2. Len(Lines(k, name)) = 2 /\ Lines(k, name)[2] = Typed(k.tool, name)
  <2>1. \A a, b : Len(<<a, b>>) = 2 /\ <<a, b>>[2] = b
    BY Pair
  <2> QED
    BY ONLY <1>1, <2>1
<1> QED
  BY <1>2 DEF AsksYes, Typed

\* A set with no two elements.
LEMMA AtMostOne ==
  ASSUME NEW S, \A x \in S : \A y \in S : x = y
  PROVE  Cardinality(S) <= 1
<1>1. CASE S = {}
  BY <1>1, FS_EmptySet
<1>2. CASE S # {}
  <2>1. PICK x : S = {x}
    <3>1. PICK x : x \in S
      BY <1>2
    <3> QED
      BY <3>1
  <2>2. Cardinality({x}) = 1
    BY FS_Singleton
  <2> QED
    BY <2>1, <2>2
<1> QED
  BY <1>1, <1>2

\* The last line of a call runs once.
LEMMA LastLineOnce ==
  ASSUME NEW k, NEW r, NEW h, NEW c, IsList(h), CallHolds(k, r, h, c)
  PROVE  \A i \in RunsOf(h, c) : \A j \in RunsOf(h, c) :
           h[i].at = Len(Lines(k, r.name)) /\ h[j].at = Len(Lines(k, r.name)) => i = j
<1> SUFFICES ASSUME NEW i \in RunsOf(h, c), NEW j \in RunsOf(h, c),
                    h[i].at = Len(Lines(k, r.name)), h[j].at = Len(Lines(k, r.name))
             PROVE  i = j
  OBVIOUS
<1>1. i \in Nat /\ j \in Nat
  <2>1. DOMAIN h = 1..Len(h) /\ Len(h) \in Nat
    BY ONLY IsList(h), ListGrows
  <2>2. i \in 1..Len(h) /\ j \in 1..Len(h)
    BY <2>1 DEF RunsOf
  <2> QED
    BY ONLY <2>2
<1>2. h[i].try = h[j].try /\ h[i].at \in Int /\ h[j].at \in Int
  <2>1. LineIsOf(k, r, h[i]) /\ LineIsOf(k, r, h[j])
    BY DEF CallHolds
  <2> QED
    BY <2>1 DEF LineIsOf
<1>3. ~(i < j) /\ ~(j < i)
  BY <1>2 DEF CallHolds, InOrder
<1> QED
  BY <1>1, <1>3

\* A restart is meant, and happens once.
LEMMA RestartsHold == DcInv => RestartsAreMeant
<1> SUFFICES ASSUME DcInv, NEW c \in DcCallers
             PROVE  /\ dcJob[c].tool \in {"show", "run", "clear"} => DestructiveBy(c) = {}
                    /\ dcJob[c].tool \in Restarts =>
                        /\ Cardinality(DestructiveBy(c)) <= 1
                        /\ \A i \in DestructiveBy(c) :
                             /\ dcJob[c].confirm /\ Valid(dcJob[c])
                             /\ dcJob[c].tool = "process" => BaseOf[dcRan[i].line.name] = BaseOf[dcJob[c].name]
                        /\ dc[c].answer = "ok" => DestructiveBy(c) # {}
                        /\ dc[c].answer \in {"invalid", "dry run", "connect_error", "error"} => DestructiveBy(c) = {}
  BY DEF RestartsAreMeant
<1>1. PICK k, r, h, D : k = dcJob[c] /\ r = dc[c] /\ h = dcRan /\ D = DestructiveBy(c)
  OBVIOUS
<1>2. CallHolds(k, r, h, c) /\ IsList(h) /\ Begun(k, r)
  BY <1>1 DEF DcInv, CallHolds
<1>3. D = {i \in RunsOf(h, c) : AsksYes(h[i].line)}
  BY <1>1 DEF DestructiveBy, Mine, RunsOf
<1>4. \A i \in D : LineIsOf(k, r, h[i]) /\ AsksYes(h[i].line)
  BY <1>2, <1>3 DEF CallHolds
<1>5. ASSUME NEW i \in D
      PROVE  /\ k.tool \notin {"show", "run", "clear"}
             /\ k.tool \in Restarts => h[i].at = Len(Lines(k, r.name)) /\ h[i].line = Typed(k.tool, r.name)
                                       /\ k.confirm /\ Valid(k)
  <2>1. LineIsOf(k, r, h[i])
    BY <1>4
  <2>2. PICK j : j = h[i].at
    OBVIOUS
  <2>3. Valid(k) /\ j \in 1..Len(Lines(k, r.name)) /\ h[i].line = Lines(k, r.name)[j] /\ (k.tool \in Restarts => k.confirm)
    BY <2>1, <2>2 DEF LineIsOf
  <2>4. AsksYes(Lines(k, r.name)[j])
    BY <1>4, <2>3
  <2> QED
    BY <2>2, <2>3, <2>4, WhatAsksYes
<1>6. k.tool \in {"show", "run", "clear"} => D = {}
  BY <1>5
<1>7. ASSUME k.tool \in Restarts PROVE Cardinality(D) <= 1
  <2>1. \A x \in D : \A y \in D : x = y
    BY <1>2, <1>3, <1>5, <1>7, LastLineOnce
  <2> QED
    BY <2>1, AtMostOne
<1>8. ASSUME k.tool \in Restarts, NEW i \in D
      PROVE  /\ k.confirm /\ Valid(k)
             /\ k.tool = "process" => BaseOf[h[i].line.name] = BaseOf[k.name]
  <2>1. h[i].line.name = r.name /\ k.confirm /\ Valid(k)
    BY <1>5, <1>8 DEF Typed
  <2>2. r.name = k.name \/ BaseOf[r.name] = BaseOf[k.name]
    BY <1>2 DEF Begun
  <2> QED
    BY <2>1, <2>2
<1>9. ASSUME k.tool \in Restarts, r.answer = "ok" PROVE D # {}
  <2>1. HasRun(h, c, Len(Lines(k, r.name)), r.try)
    BY <1>2, <1>9 DEF CallHolds, AnswerIsSo
  <2>2. PICK i \in RunsOf(h, c) : h[i].at = Len(Lines(k, r.name))
    BY <2>1 DEF HasRun
  <2>3. h[i].line = Lines(k, r.name)[Len(Lines(k, r.name))]
    BY <1>2, <2>2 DEF CallHolds, LineIsOf
  <2>4. AsksYes(h[i].line)
    BY <1>9, <2>3, RestartIsLast
  <2> QED
    BY <1>3, <2>4
<1>10. ASSUME k.tool \in Restarts, r.answer \in {"invalid", "dry run", "connect_error", "error"} PROVE D = {}
  <2>1. \A i \in RunsOf(h, c) : h[i].at # Len(Lines(k, r.name))
    BY <1>2, <1>10 DEF CallHolds, AnswerIsSo
  <2> QED
    BY <1>3, <1>5, <1>10, <2>1
<1> QED
  BY <1>1, <1>6, <1>7, <1>8, <1>9, <1>10

\* The lines of a raw call, and of a word, do not depend on the name.
LEMMA SameLines ==
  ASSUME NEW k, NEW r, Begun(k, r), k.tool \in {"raw", "clear", "run"}
  PROVE  Lines(k, k.name) = Lines(k, r.name)
  BY DEF Begun

\* The answer tells what of a sequence ran.
LEMMA TranscriptHolds == DcInv => TranscriptIsTrue
<1> SUFFICES ASSUME DcInv, NEW c \in DcCallers, dcJob[c].tool \in {"raw", "clear", "run"}
             PROVE  /\ dc[c].answer = "ok" =>
                         \A n \in DOMAIN Lines(dcJob[c], dcJob[c].name) :
                           \E i \in Mine(c) : dcRan[i].at = n /\ dcRan[i].try = dc[c].try
                    /\ \A i \in Mine(c) : dcJob[c].stop /\ dcRan[i].at > 1 =>
                         \E j \in Mine(c) : j < i /\ dcRan[j].at = dcRan[i].at - 1 /\ dcRan[j].try = dcRan[i].try
                    /\ Cardinality({i \in Mine(c) : dcRan[i].at = Len(Lines(dcJob[c], dcJob[c].name))}) <= 1
  BY DEF TranscriptIsTrue
<1>1. PICK k, r, h, M, L : /\ k = dcJob[c] /\ r = dc[c] /\ h = dcRan /\ M = Mine(c)
                           /\ L = Lines(dcJob[c], dcJob[c].name)
  OBVIOUS
<1>2. CallHolds(k, r, h, c) /\ IsList(h) /\ Begun(k, r) /\ IsOrder(k)
  BY <1>1, SettingIsOrder DEF DcInv, CallHolds
<1>3. M = RunsOf(h, c) /\ L = Lines(k, r.name) /\ k.tool \in {"raw", "clear", "run"}
  BY <1>1, <1>2, SameLines DEF Mine, RunsOf
<1>4. ASSUME r.answer = "ok", NEW n \in DOMAIN L PROVE \E i \in M : h[i].at = n /\ h[i].try = r.try
  <2>1. n \in 1..Len(Lines(k, r.name))
    BY <1>2, <1>3, <1>4, LinesAreList
  <2>2. HasRun(h, c, n, r.try)
    BY <1>2, <1>3, <1>4, <2>1 DEF CallHolds, AnswerIsSo
  <2> QED
    BY <1>3, <2>2 DEF HasRun
<1>5. \A i \in M : k.stop /\ h[i].at > 1 => \E j \in M : j < i /\ h[j].at = h[i].at - 1 /\ h[j].try = h[i].try
  BY <1>2, <1>3 DEF CallHolds, InOrder
<1>6. Cardinality({i \in M : h[i].at = Len(L)}) <= 1
  <2>1. PICK E : E = {i \in M : h[i].at = Len(L)}
    OBVIOUS
  <2>2. \A x \in E : \A y \in E : x = y
    BY <1>2, <1>3, <2>1, LastLineOnce
  <2> QED
    BY <2>1, <2>2, AtMostOne
<1> QED
  BY <1>1, <1>4, <1>5, <1>6

\* A call of the operational tools does what its answer says: a restart was
\* confirmed, is of the daemon it names and happens at most once, and the
\* answer tells whether it did; ok means that every line ran in one try, in
\* order, and the last line never runs twice (restart.py, raw.py, runner.py,
\* run_sequence of core/session.py).
THEOREM CallsSound == DcSpec => []CallsDoWhatTheySay
<1>1. DcInv => CallsDoWhatTheySay
  BY RestartsHold, TranscriptHolds DEF CallsDoWhatTheySay
<1> QED
  BY <1>1, DcInvariance, PTL
=============================================================================

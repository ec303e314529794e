---------------------------- MODULE TransportPool ----------------------------
(***************************************************************************)
(* The pool of SSH transports of one qactl process (TransportRegistry in    *)
(* qactl/dnos/cli/core/session.py) and the threads that share it: callers   *)
(* of the run_* functions, the techsupport worker that drops a transport    *)
(* between two probes, the idle reaper, the exit handler and os.fork().     *)
(*                                                                         *)
(* A step of the model is a section the code runs under a lock, or one     *)
(* between two of them.  The registry lock is only held inside a step; a    *)
(* key lock outlives a step only while a caller opens a connection.        *)
(***************************************************************************)
EXTENDS Naturals, FiniteSets

CONSTANTS Threads,   \* threads of the process that call the run_* functions
          Keys,      \* (device or host, user) pairs: the keys of the pool
          Conns,     \* identities of SSH connections, reused once unreferenced
          NoConn,    \* "no transport"
          Nobody,    \* owner of a free key lock
          MaxCalls   \* bound: calls and probe drops one thread starts

ASSUME PoolAssumption ==
  /\ IsFiniteSet(Threads)
  /\ NoConn \notin Conns
  /\ Nobody \notin Threads
  /\ MaxCalls \in Nat

VARIABLES
  pool,      \* registry._transports: the transport kept for a key
  lock,      \* registry._key_locks: the thread inside a key's lock
  link,      \* a connection: "up", "dead" (peer gone), "closed" by this
             \* process, or "foreign" (left behind in the parent by fork)
  inUse,     \* Transport.in_use
  idle,      \* now - Transport.last_used > idle_max
  pc,        \* where a thread stands in its run_* call
  key, kind, attempt,   \* its key, "retry" or "once" (run_capture), its try
  conn,      \* the Transport its call holds
  victim,    \* the Transport it popped and has still to close
  budget,    \* calls it may still start
  stale,     \* keys the reaper selected and has not visited
  reaping,   \* the Transport the reaper popped and has still to close
  doomed,    \* transports close_all took out of the pool and will close
  exiting, forked

regVars  == <<pool, lock>>
connVars == <<link, inUse, idle>>
callVars == <<key, kind, attempt, budget>>
reapVars == <<stale, reaping>>
procVars == <<doomed, exiting, forked>>
vars == <<pool, lock, link, inUse, idle, pc, key, kind, attempt, conn, victim,
          budget, stale, reaping, doomed, exiting, forked>>

PC == {"idle", "get", "opening", "got", "running", "drop", "close", "done",
       "broken"}

Alive(c) == link[c] = "up"                       \* Transport.is_alive
Pooled == {c \in Conns : \E k \in Keys : pool[k] = c}
Dying  == {c \in Conns : c = reaping \/ \E t \in Threads : victim[t] = c} \cup doomed
Holders(c) == {t \in Threads : conn[t] = c}
\* Threads between their _mark(+1) and their _mark(-1) on c.
Users(c) == {t \in Holders(c) :
               pc[t] \in {"running", "drop", "close", "done", "broken"}}

Init ==
  /\ pool = [k \in Keys |-> NoConn]
  /\ lock = [k \in Keys |-> Nobody]
  /\ link = [c \in Conns |-> "closed"]
  /\ inUse = [c \in Conns |-> 0]
  /\ idle = [c \in Conns |-> FALSE]
  /\ pc = [t \in Threads |-> "idle"]
  /\ key \in [Threads -> Keys]
  /\ kind = [t \in Threads |-> "retry"]
  /\ attempt = [t \in Threads |-> 1]
  /\ conn = [t \in Threads |-> NoConn]
  /\ victim = [t \in Threads |-> NoConn]
  /\ budget = [t \in Threads |-> MaxCalls]
  /\ stale = {} /\ reaping = NoConn
  /\ doomed = {} /\ exiting = FALSE /\ forked = FALSE

-----------------------------------------------------------------------------
(* The callers: run_once, run_sequence, ... and run_capture.               *)

Goto(t, l) == pc' = [pc EXCEPT ![t] = l]

\* A run_* call enters its attempt loop.
Call(t, k, kd) ==
  /\ pc[t] = "idle" /\ budget[t] > 0
  /\ budget' = [budget EXCEPT ![t] = @ - 1]
  /\ key' = [key EXCEPT ![t] = k]
  /\ kind' = [kind EXCEPT ![t] = kd]
  /\ attempt' = [attempt EXCEPT ![t] = 1]
  /\ Goto(t, "get")
  /\ UNCHANGED <<regVars, connVars, conn, victim, reapVars, procVars>>

\* registry.get finds a live transport under the key lock.
GetHit(t) ==
  /\ pc[t] = "get" /\ lock[key[t]] = Nobody
  /\ pool[key[t]] # NoConn /\ Alive(pool[key[t]])
  /\ conn' = [conn EXCEPT ![t] = pool[key[t]]]
  /\ idle' = [idle EXCEPT ![pool[key[t]]] = FALSE]
  /\ Goto(t, "got")
  /\ UNCHANGED <<regVars, link, inUse, callVars, victim, reapVars, procVars>>

\* Fault: get opens without keeping the key lock.
GetMiss_Unlocked(t) ==
  LET c == pool[key[t]] IN
  /\ pc[t] = "get"
  /\ c # NoConn => ~Alive(c)
  /\ link' = [d \in Conns |-> IF d = c THEN "closed" ELSE link[d]]
  /\ pool' = [pool EXCEPT ![key[t]] = NoConn]
  /\ Goto(t, "opening")
  /\ UNCHANGED <<lock, inUse, idle, callVars, conn, victim, reapVars, procVars>>

\* It finds none, or a stale one it closes and forgets, and keeps the key
\* lock while _open_transport connects and authenticates.
GetMiss(t) ==
  LET c == pool[key[t]] IN
  /\ pc[t] = "get" /\ lock[key[t]] = Nobody
  /\ c # NoConn => ~Alive(c)
  /\ link' = [d \in Conns |-> IF d = c THEN "closed" ELSE link[d]]
  /\ pool' = [pool EXCEPT ![key[t]] = NoConn]
  /\ lock' = [lock EXCEPT ![key[t]] = t]
  /\ Goto(t, "opening")
  /\ UNCHANGED <<inUse, idle, callVars, conn, victim, reapVars, procVars>>

\* c names a Transport object nothing refers to any more.
Unreferenced(c) == link[c] = "closed" /\ Holders(c) = {} /\ c \notin Dying

OpenOk(t, c) ==
  /\ pc[t] = "opening" /\ Unreferenced(c)
  /\ link' = [link EXCEPT ![c] = "up"]
  /\ inUse' = [inUse EXCEPT ![c] = 0]
  /\ idle' = [idle EXCEPT ![c] = FALSE]
  /\ pool' = [pool EXCEPT ![key[t]] = c]
  /\ lock' = [lock EXCEPT ![key[t]] = Nobody]
  /\ conn' = [conn EXCEPT ![t] = c]
  /\ Goto(t, "got")
  /\ UNCHANGED <<callVars, victim, reapVars, procVars>>

\* ConnectError leaves get, the attempt loop and the call: it is not caught.
OpenFail(t) ==
  /\ pc[t] = "opening"
  /\ lock' = [lock EXCEPT ![key[t]] = Nobody]
  /\ conn' = [conn EXCEPT ![t] = NoConn]
  /\ Goto(t, "idle")
  /\ UNCHANGED <<pool, connVars, callVars, victim, reapVars, procVars>>

\* registry._mark(transport, 1)
MarkBusy(t) ==
  /\ pc[t] = "got"
  /\ inUse' = [inUse EXCEPT ![conn[t]] = @ + 1]
  /\ Goto(t, "running")
  /\ UNCHANGED <<regVars, link, idle, callVars, conn, victim, reapVars, procVars>>

\* The channel delivered every reply (or a command timed out): last_used is set.
Finish(t) ==
  /\ pc[t] = "running" /\ Alive(conn[t])
  /\ idle' = [idle EXCEPT ![conn[t]] = FALSE]
  /\ Goto(t, "done")
  /\ UNCHANGED <<regVars, link, inUse, callVars, conn, victim, reapVars, procVars>>

\* Fault: an uncaught exception skips the finally clause.
Raise_NoFinally(t) ==
  /\ pc[t] = "running"
  /\ conn' = [conn EXCEPT ![t] = NoConn]
  /\ Goto(t, "idle")
  /\ UNCHANGED <<regVars, connVars, callVars, victim, reapVars, procVars>>

\* An exception the call does not catch: RuntimeError (no prompt) from any
\* run_*, anything at all from run_capture.
Raise(t) ==
  /\ pc[t] = "running"
  /\ Goto(t, "done")
  /\ UNCHANGED <<regVars, connVars, callVars, conn, victim, reapVars, procVars>>

\* SSHException, EOFError or OSError: the handler goes on to drop the key.
Break(t) ==
  /\ pc[t] = "running" /\ kind[t] = "retry"
  /\ Goto(t, "drop")
  /\ UNCHANGED <<regVars, connVars, callVars, conn, victim, reapVars, procVars>>

\* registry.drop(transport.key): pop under the key lock, close outside it.
\* The techsupport worker calls it with a key alone, holding no transport.
AfterDrop(t) == IF conn[t] = NoConn THEN "idle" ELSE "broken"

\* Fault: drop forgets the transport without closing it.
DropPop_NoClose(t) ==
  /\ pc[t] = "drop" /\ lock[key[t]] = Nobody
  /\ pool' = [pool EXCEPT ![key[t]] = NoConn]
  /\ Goto(t, AfterDrop(t))
  /\ UNCHANGED <<lock, connVars, callVars, conn, victim, reapVars, procVars>>

DropPop(t) ==
  /\ pc[t] = "drop" /\ lock[key[t]] = Nobody
  /\ victim' = [victim EXCEPT ![t] = pool[key[t]]]
  /\ pool' = [pool EXCEPT ![key[t]] = NoConn]
  /\ Goto(t, IF pool[key[t]] = NoConn THEN AfterDrop(t) ELSE "close")
  /\ UNCHANGED <<lock, connVars, callVars, conn, reapVars, procVars>>

DropClose(t) ==
  /\ pc[t] = "close"
  /\ link' = [link EXCEPT ![victim[t]] = "closed"]
  /\ victim' = [victim EXCEPT ![t] = NoConn]
  /\ Goto(t, AfterDrop(t))
  /\ UNCHANGED <<regVars, inUse, idle, callVars, conn, reapVars, procVars>>

\* Fault: both the handler and the finally clause release, unclamped.
Unmark_Twice(t) == inUse' = [inUse EXCEPT ![conn[t]] = @ - 2]

\* registry._mark(transport, -1) in the finally clause.
Unmark(t) ==
  inUse' = [inUse EXCEPT ![conn[t]] = IF @ > 0 THEN @ - 1 ELSE 0]

Leave(t) ==
  /\ pc[t] = "done" \/ (pc[t] = "broken" /\ attempt[t] = 2)
  /\ Unmark(t)
  /\ conn' = [conn EXCEPT ![t] = NoConn]
  /\ Goto(t, "idle")
  /\ UNCHANGED <<regVars, link, idle, callVars, victim, reapVars, procVars>>

Retry(t) ==
  /\ pc[t] = "broken" /\ attempt[t] = 1
  /\ Unmark(t)
  /\ attempt' = [attempt EXCEPT ![t] = 2]
  /\ Goto(t, "get")
  /\ UNCHANGED <<regVars, link, idle, key, kind, budget, conn, victim, reapVars,
                 procVars>>

\* _ts_drop_transport between two failed status probes.
ProbeDrop(t, k) ==
  /\ pc[t] = "idle" /\ budget[t] > 0
  /\ budget' = [budget EXCEPT ![t] = @ - 1]
  /\ key' = [key EXCEPT ![t] = k]
  /\ Goto(t, "drop")
  /\ UNCHANGED <<regVars, connVars, kind, attempt, conn, victim, reapVars, procVars>>

-----------------------------------------------------------------------------
(* The idle reaper, the exit handler, fork, and the world outside.         *)

\* _select_stale, under the registry lock.
ReapSelect ==
  /\ stale = {} /\ reaping = NoConn
  /\ stale' = {k \in Keys : /\ pool[k] # NoConn
                            /\ inUse[pool[k]] = 0
                            /\ idle[pool[k]] \/ ~Alive(pool[k])}
  /\ UNCHANGED <<regVars, connVars, pc, callVars, conn, victim, reaping, procVars>>

\* Fault: close first, forget afterwards.
ReapPop_KeepsEntry(k) ==
  /\ reaping = NoConn /\ k \in stale /\ lock[k] = Nobody
  /\ stale' = stale \ {k}
  /\ reaping' = pool[k]
  /\ UNCHANGED <<regVars, connVars, pc, callVars, conn, victim, procVars>>

\* drop(k) for one selected key: whatever the pool holds for it by now.
ReapPop(k) ==
  /\ reaping = NoConn /\ k \in stale /\ lock[k] = Nobody
  /\ stale' = stale \ {k}
  /\ reaping' = pool[k]
  /\ pool' = [pool EXCEPT ![k] = NoConn]
  /\ UNCHANGED <<lock, connVars, pc, callVars, conn, victim, procVars>>

ReapClose ==
  /\ reaping # NoConn
  /\ link' = [link EXCEPT ![reaping] = "closed"]
  /\ reaping' = NoConn
  /\ UNCHANGED <<regVars, inUse, idle, pc, callVars, conn, victim, stale, procVars>>

\* close_all, from atexit or at the end of the session daemon.
CloseAll ==
  /\ ~exiting
  /\ exiting' = TRUE
  /\ doomed' = Pooled
  /\ pool' = [k \in Keys |-> NoConn]
  /\ UNCHANGED <<lock, connVars, pc, callVars, conn, victim, reapVars, forked>>

CloseDoomed(c) ==
  /\ c \in doomed
  /\ doomed' = doomed \ {c}
  /\ link' = [link EXCEPT ![c] = "closed"]
  /\ UNCHANGED <<regVars, inUse, idle, pc, callVars, conn, victim, reapVars,
                 exiting, forked>>

\* Fault: the child keeps the inherited pool.
Fork_KeepsPool(t) ==
  /\ pc[t] = "idle" /\ ~exiting /\ ~forked
  /\ forked' = TRUE
  /\ link' = [c \in Conns |-> IF link[c] = "closed" THEN "closed" ELSE "foreign"]
  /\ lock' = [k \in Keys |-> Nobody]
  /\ pc' = [u \in Threads |-> "idle"]
  /\ conn' = [u \in Threads |-> NoConn]
  /\ victim' = [u \in Threads |-> NoConn]
  /\ budget' = [u \in Threads |-> IF u = t THEN budget[u] ELSE 0]
  /\ stale' = {} /\ reaping' = NoConn
  /\ UNCHANGED <<pool, inUse, idle, key, kind, attempt, doomed, exiting>>

\* Fault: the child keeps the inherited key locks.
Fork_KeepsLocks(t) ==
  /\ pc[t] = "idle" /\ ~exiting /\ ~forked
  /\ forked' = TRUE
  /\ link' = [c \in Conns |-> IF link[c] = "closed" THEN "closed" ELSE "foreign"]
  /\ pool' = [k \in Keys |-> NoConn]
  /\ pc' = [u \in Threads |-> "idle"]
  /\ conn' = [u \in Threads |-> NoConn]
  /\ victim' = [u \in Threads |-> NoConn]
  /\ budget' = [u \in Threads |-> IF u = t THEN budget[u] ELSE 0]
  /\ stale' = {} /\ reaping' = NoConn
  /\ UNCHANGED <<lock, inUse, idle, key, kind, attempt, doomed, exiting>>

\* Thread t forks a detached worker and the model follows the child: only t
\* survives, and reset_after_fork abandons the pool without closing it and
\* makes new locks and a new reaper.
Fork(t) ==
  /\ pc[t] = "idle" /\ ~exiting /\ ~forked
  /\ forked' = TRUE
  /\ link' = [c \in Conns |-> IF link[c] = "closed" THEN "closed" ELSE "foreign"]
  /\ pool' = [k \in Keys |-> NoConn]
  /\ lock' = [k \in Keys |-> Nobody]
  /\ pc' = [u \in Threads |-> "idle"]
  /\ conn' = [u \in Threads |-> NoConn]
  /\ victim' = [u \in Threads |-> NoConn]
  /\ budget' = [u \in Threads |-> IF u = t THEN budget[u] ELSE 0]
  /\ stale' = {} /\ reaping' = NoConn
  /\ UNCHANGED <<inUse, idle, key, kind, attempt, doomed, exiting>>

\* The peer or the network ends a connection.
Die(c) ==
  /\ link[c] = "up"
  /\ link' = [link EXCEPT ![c] = "dead"]
  /\ UNCHANGED <<regVars, inUse, idle, pc, callVars, conn, victim, reapVars, procVars>>

\* idle_max (30 minutes) passes since last_used.  A caller that get has just
\* served marks the transport busy at once, long before that.
GoIdle(c) ==
  /\ c \in Pooled /\ ~idle[c]
  /\ \A t \in Holders(c) : pc[t] # "got"
  /\ idle' = [idle EXCEPT ![c] = TRUE]
  /\ UNCHANGED <<regVars, link, inUse, pc, callVars, conn, victim, reapVars, procVars>>

-----------------------------------------------------------------------------
\* What thread t does once its call has started.
Step(t) ==
  \/ GetHit(t) \/ GetMiss(t) \/ OpenFail(t) \/ (\E c \in Conns : OpenOk(t, c))
  \/ MarkBusy(t) \/ Finish(t) \/ Raise(t) \/ Break(t)
  \/ DropPop(t) \/ DropClose(t) \/ Leave(t) \/ Retry(t)

Start(t) ==
  \E k \in Keys : ProbeDrop(t, k) \/ \E kd \in {"retry", "once"} : Call(t, k, kd)

Reaper == ReapSelect \/ (\E k \in Keys : ReapPop(k)) \/ ReapClose
Exit == CloseAll \/ \E c \in Conns : CloseDoomed(c)
World == \E c \in Conns : Die(c) \/ GoIdle(c)

Next ==
  \/ \E t \in Threads : Start(t) \/ Step(t) \/ Fork(t)
  \/ Reaper \/ Exit \/ World

Spec == Init /\ [][Next]_vars

\* A started call goes on (connects and commands have timeouts), the reaper
\* thread wakes every minute, and close_all runs its loop to the end.
Fairness ==
  /\ \A t \in Threads : WF_vars(Step(t))
  /\ WF_vars(Reaper)
  /\ \A c \in Conns : WF_vars(CloseDoomed(c))

FairSpec == Spec /\ Fairness

-----------------------------------------------------------------------------
\* The types of the variables.
TypeOK ==
  /\ pool \in [Keys -> Conns \cup {NoConn}]
  /\ lock \in [Keys -> Threads \cup {Nobody}]
  /\ link \in [Conns -> {"up", "dead", "closed", "foreign"}]
  /\ inUse \in [Conns -> Nat]
  /\ idle \in [Conns -> BOOLEAN]
  /\ pc \in [Threads -> PC]
  /\ key \in [Threads -> Keys]
  /\ kind \in [Threads -> {"retry", "once"}]
  /\ attempt \in [Threads -> {1, 2}]
  /\ conn \in [Threads -> Conns \cup {NoConn}]
  /\ victim \in [Threads -> Conns \cup {NoConn}]
  /\ budget \in [Threads -> Nat]
  /\ stale \in SUBSET Keys
  /\ reaping \in Conns \cup {NoConn}
  /\ doomed \in SUBSET Conns
  /\ exiting \in BOOLEAN /\ forked \in BOOLEAN

\* in_use of a live connection counts exactly the callers between their two
\* _mark calls, through retries, drops by others and uncaught exceptions:
\* too low and the reaper may take a busy transport, too high and never any.
InUseExact ==
  \A c \in Conns : link[c] \in {"up", "dead"} => inUse[c] = Cardinality(Users(c))

\* No connection this process opened is lost: while it is up, the pool holds
\* it or somebody who popped it has still to close it.
NoLeak == \A c \in Conns : link[c] = "up" => c \in Pooled \cup Dying

\* The key lock lets a single thread authenticate for a key ("so we only auth
\* once"), and only when the pool holds nothing for it that would be overwritten.
AuthOnce ==
  \A t \in Threads : pc[t] = "opening" =>
    /\ pool[key[t]] = NoConn
    /\ \A u \in Threads \ {t} : pc[u] = "opening" => key[u] # key[t]

\* A transport the pool offers is one this process has not closed, and nobody
\* is about to close it: every closer takes it out of the pool first.
PooledNotClosed ==
  \A k \in Keys : pool[k] # NoConn =>
    /\ link[pool[k]] \in {"up", "dead"}
    /\ pool[k] \notin Dying

\* A forked child never closes nor revives a connection its parent owns.
ParentConnsKept ==
  [][\A c \in Conns : link[c] = "foreign" => link'[c] = "foreign"]_vars

\* Transport.in_use comment: "The idle reaper must never close a busy
\* transport" (session.py:438).
ReaperSparesBusy ==
  [][\A c \in Conns : (reaping = c /\ reaping' # c) => inUse[c] = 0]_vars

\* Every call comes back to its caller, whatever others drop or reap.
CallsReturn == \A t \in Threads : pc[t] # "idle" ~> pc[t] = "idle"

\* A connection the peer ended does not stay in the pool for ever.
DeadLeavePool == \A c \in Conns :
  (c \in Pooled /\ link[c] = "dead") ~> ~(c \in Pooled /\ link[c] = "dead")
=============================================================================

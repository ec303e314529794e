---------------------------- MODULE SessionDaemon ----------------------------
(***************************************************************************)
(* The session daemon of qactl (core/session_daemon.py): qactl processes    *)
(* hand their run_* calls over a Unix socket to a daemon that keeps the SSH *)
(* connections, spawn it when it is not there, and run the call themselves  *)
(* when they cannot reach it.  Daemons come and go: they are spawned by     *)
(* several clients at once, exit when idle, are told to stop, are killed,   *)
(* and outlive the installation they were started from.                     *)
(***************************************************************************)
EXTENDS Naturals, FiniteSets

CONSTANTS Clients,    \* qactl processes, each with one call to make
          Daemons,    \* daemon processes that may be spawned
          Versions,   \* installed versions of qactl
          Spawners,   \* clients that may autospawn
          None

ASSUME DaemonAssumption ==
  None \notin Daemons \cup Versions \cup {"ok", "error", "mismatch"}

VARIABLES
  version,   \* of each client
  op,        \* "run", "stop" (session stop or off), or "retire": the shutdown
             \* a client sends after a version mismatch
  cpc,       \* where a client stands
  peer,      \* the daemon its socket is connected to
  link,      \* the daemon's side of it: "none", "backlog", "accepted",
             \* "running" (the call executes), "answered", "eof"
  reply,     \* the response line, if one was written
  verdict,   \* what the call returned
  met,       \* history: the daemon that answered with a version mismatch
  ran,       \* history: how often the call was executed
  dpc,       \* where a daemon stands
  dversion,  \* its version
  stopping,  \* server.shutdown() was called in it
  flock,     \* the daemon that holds session-daemon.lock
  path       \* the daemon whose socket session-daemon.sock is

clientVars == <<version, op, cpc, peer, verdict, met>>
wireVars   == <<link, reply, ran>>
serverVars == <<dpc, dversion, stopping, flock, path>>
vars == <<version, op, cpc, peer, verdict, met, link, reply, ran, dpc, dversion,
          stopping, flock, path>>

Init ==
  /\ version \in [Clients -> Versions]
  /\ op = [c \in Clients |-> "run"]
  /\ cpc = [c \in Clients |-> "idle"]
  /\ peer = [c \in Clients |-> None]
  /\ link = [c \in Clients |-> "none"]
  /\ reply = [c \in Clients |-> None]
  /\ verdict = [c \in Clients |-> "none"]
  /\ met = [c \in Clients |-> None]
  /\ ran = [c \in Clients |-> 0]
  /\ dpc = [d \in Daemons |-> "none"]
  /\ dversion = [d \in Daemons |-> None]
  /\ stopping = [d \in Daemons |-> FALSE]
  /\ flock = None /\ path = None

-----------------------------------------------------------------------------
(* The client: try_run_via_daemon, call_daemon, _connect.                  *)

Goto(c, l) == cpc' = [cpc EXCEPT ![c] = l]

\* A run_* call, routed through the daemon or not (routing is off, or a
\* predicate has no name), or the `session stop` command.
Start(c) ==
  /\ cpc[c] = "idle"
  /\ \/ Goto(c, "connect") /\ UNCHANGED op
     \/ Goto(c, "direct") /\ UNCHANGED op
     \/ Goto(c, "connect") /\ op' = [op EXCEPT ![c] = "stop"]
  /\ UNCHANGED <<version, peer, verdict, met, wireVars, serverVars>>

Listening == path # None /\ dpc[path] = "serving"

Connect(c) ==
  /\ cpc[c] \in {"connect", "poll"} /\ Listening
  /\ peer' = [peer EXCEPT ![c] = path]
  /\ link' = [link EXCEPT ![c] = "backlog"]
  /\ reply' = [reply EXCEPT ![c] = None]
  /\ Goto(c, "send")
  /\ UNCHANGED <<version, op, verdict, met, ran, serverVars>>

\* Where a client goes that has no daemon to talk to: DaemonUnavailable.
Unavailable(c) == IF op[c] = "stop" THEN "over" ELSE "direct"

MaySpawn(c) == op[c] = "run" /\ c \in Spawners

\* Nobody listens: spawn a daemon from this installation and poll for it.
Spawn(c) ==
  /\ cpc[c] = "connect" /\ ~Listening /\ MaySpawn(c)
  /\ Goto(c, "poll")
  /\ \E d \in Daemons :
       /\ dpc[d] = "none"
       /\ dpc' = [dpc EXCEPT ![d] = "start"]
       /\ dversion' = [dversion EXCEPT ![d] = version[c]]
  /\ UNCHANGED <<version, op, peer, verdict, met, wireVars, stopping, flock, path>>

\* No daemon and no (more) spawning, or none that listens within _SPAWN_WAIT.
GiveUp(c) ==
  /\ \/ cpc[c] = "poll"
     \/ /\ cpc[c] = "connect" /\ ~Listening
        /\ ~MaySpawn(c) \/ \A d \in Daemons : dpc[d] # "none"
  /\ Goto(c, Unavailable(c))
  /\ UNCHANGED <<version, op, peer, verdict, met, wireVars, serverVars>>

\* sendall; it fails when the daemon has closed the connection.
Send(c) ==
  /\ cpc[c] = "send"
  /\ Goto(c, IF link[c] = "eof" THEN Unavailable(c) ELSE "wait")
  /\ UNCHANGED <<version, op, peer, verdict, met, wireVars, serverVars>>

\* Fault: the news of a version mismatch passes for the outcome of the call.
Receive_Raw(c) ==
  /\ cpc[c] = "wait" /\ op[c] = "run" /\ reply[c] # None
  /\ link' = [link EXCEPT ![c] = "none"]
  /\ verdict' = [verdict EXCEPT ![c] = reply[c]]
  /\ Goto(c, "over")
  /\ UNCHANGED <<version, op, peer, met, reply, ran, serverVars>>

\* A response to a run: its result, or the news that versions differ; then a
\* shutdown goes out on a new connection, and the call is run here.
Receive(c) ==
  /\ cpc[c] = "wait" /\ op[c] = "run" /\ reply[c] # None
  /\ link' = [link EXCEPT ![c] = "none"]
  /\ IF reply[c] = "mismatch"
     THEN /\ op' = [op EXCEPT ![c] = "retire"]
          /\ met' = [met EXCEPT ![c] = peer[c]]
          /\ Goto(c, "connect")
          /\ UNCHANGED verdict
     ELSE /\ verdict' = [verdict EXCEPT ![c] = reply[c]]
          /\ Goto(c, "over")
          /\ UNCHANGED <<op, met>>
  /\ UNCHANGED <<version, peer, reply, ran, serverVars>>

\* Whatever answers a shutdown, or ends its connection, is ignored.
Ignore(c) ==
  /\ cpc[c] = "wait" /\ op[c] # "run"
  /\ reply[c] # None \/ link[c] = "eof"
  /\ link' = [link EXCEPT ![c] = "none"]
  /\ Goto(c, Unavailable(c))
  /\ UNCHANGED <<version, op, peer, verdict, met, reply, ran, serverVars>>

\* Fault: the call is run here after a connection that broke.
Broken_Reruns(c) ==
  /\ cpc[c] = "wait" /\ op[c] = "run" /\ reply[c] = None /\ link[c] = "eof"
  /\ Goto(c, "direct")
  /\ UNCHANGED <<version, op, peer, verdict, met, wireVars, serverVars>>

\* DaemonDiedMidRequest: "may or may not have run".
Broken(c) ==
  /\ cpc[c] = "wait" /\ op[c] = "run" /\ reply[c] = None /\ link[c] = "eof"
  /\ verdict' = [verdict EXCEPT ![c] = "lost"]
  /\ Goto(c, "over")
  /\ UNCHANGED <<version, op, peer, met, wireVars, serverVars>>

\* The call is run in this process.
Direct(c) ==
  /\ cpc[c] = "direct"
  /\ ran' = [ran EXCEPT ![c] = @ + 1]
  /\ \E v \in {"ok", "error"} : verdict' = [verdict EXCEPT ![c] = v]
  /\ Goto(c, "over")
  /\ UNCHANGED <<version, op, peer, met, link, reply, serverVars>>

-----------------------------------------------------------------------------
(* The daemon: serve, make_server, _Handler.                               *)

DGoto(d, l) == dpc' = [dpc EXCEPT ![d] = l]

\* Fault: a daemon does not mind that another one holds the lock.
Lock_Ignored(d) ==
  /\ dpc[d] = "start"
  /\ DGoto(d, "locked") /\ flock' = d
  /\ UNCHANGED <<clientVars, wireVars, dversion, stopping, path>>

\* flock(LOCK_EX | LOCK_NB); a second daemon leaves.
Lock(d) ==
  /\ dpc[d] = "start"
  /\ IF flock = None THEN DGoto(d, "locked") /\ flock' = d
                     ELSE DGoto(d, "dead") /\ UNCHANGED flock
  /\ UNCHANGED <<clientVars, wireVars, dversion, stopping, path>>

\* make_server removes what is there and binds.
Bind(d) ==
  /\ dpc[d] = "locked"
  /\ path' = d
  /\ DGoto(d, "serving")
  /\ UNCHANGED <<clientVars, wireVars, dversion, stopping, flock>>

Accept(c) ==
  /\ link[c] = "backlog" /\ dpc[peer[c]] = "serving"
  /\ link' = [link EXCEPT ![c] = "accepted"]
  /\ UNCHANGED <<clientVars, reply, ran, serverVars>>

Up(d) == dpc[d] \in {"serving", "closed", "unlinked"}

\* A handler thread has read the request line: the version is compared first,
\* whatever the operation.
Dispatch(c) ==
  LET d == peer[c] IN
  /\ link[c] = "accepted" /\ cpc[c] = "wait" /\ Up(d)
  /\ \/ /\ version[c] # dversion[d]
        /\ reply' = [reply EXCEPT ![c] = "mismatch"]
        /\ link' = [link EXCEPT ![c] = "answered"]
        /\ UNCHANGED <<ran, stopping>>
     \/ /\ version[c] = dversion[d] /\ op[c] # "run"
        /\ reply' = [reply EXCEPT ![c] = "ok"]
        /\ link' = [link EXCEPT ![c] = "answered"]
        /\ stopping' = [stopping EXCEPT ![d] = TRUE]
        /\ UNCHANGED ran
     \/ /\ version[c] = dversion[d] /\ op[c] = "run"
        /\ link' = [link EXCEPT ![c] = "running"]
        /\ ran' = [ran EXCEPT ![c] = @ + 1]
        /\ UNCHANGED <<reply, stopping>>
  /\ UNCHANGED <<clientVars, dpc, dversion, flock, path>>

\* Fault: an exception of the call is not sent to the client.
Respond_OkOnly(c) ==
  /\ link[c] = "running" /\ Up(peer[c])
  /\ \/ reply' = [reply EXCEPT ![c] = "ok"]
     \/ UNCHANGED reply
  /\ link' = [link EXCEPT ![c] = "answered"]
  /\ UNCHANGED <<clientVars, ran, serverVars>>

\* The call ends; its result or its exception goes to the client.
Respond(c) ==
  /\ link[c] = "running" /\ Up(peer[c])
  /\ \E v \in {"ok", "error"} : reply' = [reply EXCEPT ![c] = v]
  /\ link' = [link EXCEPT ![c] = "answered"]
  /\ UNCHANGED <<clientVars, ran, serverVars>>

\* The watchdog finds no active request for longer than idle_max.
IdleOut(d) ==
  /\ dpc[d] = "serving" /\ ~stopping[d]
  /\ \A c \in Clients : ~(peer[c] = d /\ link[c] = "running")
  /\ stopping' = [stopping EXCEPT ![d] = TRUE]
  /\ UNCHANGED <<clientVars, wireVars, dpc, dversion, flock, path>>

\* Connections of d that are in one of the states S end.
HangUp(d, S) ==
  link' = [c \in Clients |-> IF peer[c] = d /\ link[c] \in S THEN "eof" ELSE link[c]]

\* Fault: the lock goes with the listening socket.
CloseListener_Unlocks(d) ==
  /\ dpc[d] = "serving" /\ stopping[d]
  /\ DGoto(d, "closed")
  /\ HangUp(d, {"backlog"})
  /\ flock' = None
  /\ UNCHANGED <<clientVars, reply, ran, dversion, stopping, path>>

\* serve_forever returns, server_close closes the listening socket; handler
\* threads go on.
CloseListener(d) ==
  /\ dpc[d] = "serving" /\ stopping[d]
  /\ DGoto(d, "closed")
  /\ HangUp(d, {"backlog"})
  /\ UNCHANGED <<clientVars, reply, ran, dversion, stopping, flock, path>>

\* os.unlink(path), whatever it is by now.
Unlink(d) ==
  /\ dpc[d] = "closed"
  /\ path' = None
  /\ DGoto(d, "unlinked")
  /\ UNCHANGED <<clientVars, wireVars, dversion, stopping, flock>>

\* The process ends with its threads, connections and lock.
Gone(d) ==
  /\ DGoto(d, "dead")
  /\ HangUp(d, {"backlog", "accepted", "running", "answered"})
  /\ flock' = IF flock = d THEN None ELSE flock
  /\ UNCHANGED <<clientVars, reply, ran, dversion, stopping, path>>

Exit(d) == dpc[d] = "unlinked" /\ Gone(d)
Kill(d) == dpc[d] \notin {"none", "dead"} /\ Gone(d)

-----------------------------------------------------------------------------
Client(c) ==
  \/ Connect(c) \/ Spawn(c) \/ GiveUp(c) \/ Send(c) \/ Receive(c) \/ Ignore(c)
  \/ Broken(c) \/ Direct(c)
Handler(c) == Accept(c) \/ Dispatch(c) \/ Respond(c)
Daemon(d) == Lock(d) \/ Bind(d) \/ CloseListener(d) \/ Unlink(d) \/ Exit(d)

Stopped == \A c \in Clients : cpc[c] = "over"

Next ==
  \/ \E c \in Clients : Start(c) \/ Client(c) \/ Handler(c)
  \/ \E d \in Daemons : Daemon(d) \/ IdleOut(d) \/ Kill(d)
  \/ Stopped /\ UNCHANGED vars

Spec == Init /\ [][Next]_vars

\* Processes that run go on; a call the daemon executes ends, as it does when
\* it is executed directly.
FairSpec ==
  /\ Spec
  /\ \A c \in Clients : WF_vars(Client(c)) /\ WF_vars(Handler(c))
  /\ \A d \in Daemons : WF_vars(Daemon(d))

-----------------------------------------------------------------------------
\* The types of the variables.
TypeOK ==
  /\ version \in [Clients -> Versions]
  /\ op \in [Clients -> {"run", "stop", "retire"}]
  /\ cpc \in [Clients -> {"idle", "connect", "poll", "send", "wait", "direct", "over"}]
  /\ peer \in [Clients -> Daemons \cup {None}]
  /\ link \in [Clients -> {"none", "backlog", "accepted", "running", "answered", "eof"}]
  /\ \A c \in Clients : link[c] # "none" => peer[c] \in Daemons
  /\ reply \in [Clients -> {"ok", "error", "mismatch", None}]
  /\ verdict \in [Clients -> {"none", "ok", "error", "lost"}]
  /\ met \in [Clients -> Daemons \cup {None}]
  /\ ran \in [Clients -> Nat]
  /\ dpc \in [Daemons -> {"none", "start", "locked", "serving", "closed",
                          "unlinked", "dead"}]
  /\ dversion \in [Daemons -> Versions \cup {None}]
  /\ stopping \in [Daemons -> BOOLEAN]
  /\ flock \in Daemons \cup {None} /\ path \in Daemons \cup {None}

\* A call is executed at most once, by a daemon or here, whenever daemons die,
\* stop or refuse; and exactly once when its caller is told the result.
ExactlyOnce == \A c \in Clients :
  /\ ran[c] <= 1
  /\ verdict[c] \in {"ok", "error"} => ran[c] = 1

\* A daemon that serves can be reached: the socket on disk is its own, though
\* daemons that end remove that file without looking.
ServingIsReachable == \A d \in Daemons : dpc[d] = "serving" => path = d /\ flock = d

\* No call goes on.
NoCallWaits == \A c \in Clients : cpc[c] \in {"idle", "over"}

\* "A stale daemon from a previous install - retire it and run direct"
\* (session_daemon.py:334): once its answer to the shutdown is there, it stops.
StaleIsRetired == \A c \in Clients :
  (cpc[c] = "direct" /\ met[c] # None /\ reply[c] # None /\ peer[c] = met[c])
    => stopping[met[c]] \/ dpc[met[c]] = "dead"
=============================================================================

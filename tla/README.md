# A TLA+ development of qactl

qactl is a command line tool, and an MCP server, with which test engineers
drive DNOS routers and the lab around them. The same tool functions run behind
three fronts:

- a **one-shot CLI**: one process per command;
- a **stdio MCP server**: one long-lived process; its job tools start worker
  threads;
- an opt-in **session daemon**: one process per user to which CLI processes
  hand their device commands over a Unix socket, so that an SSH login is paid
  once.

This directory models the parts of qactl whose correctness depends on the
*order* in which several actors act: threads over one pool of SSH transports,
callers over one candidate configuration, job workers and status readers over
files, a client and a box over a text channel. Everything here is translated
from the code; comments name the functions.

## Inventory

| part | state | operations | hard because |
|---|---|---|---|
| transport pool (`dnos/cli/core/session.py`) | `TransportRegistry`: transports, key locks; per transport `in_use`, `last_used` | `run_once`, `run_sequence`, `run_sequence_pw`, `run_capture`, `run_probes`, ...; sweep over a chassis's hosts; reaper; exit; fork | threads, a reaper that selects and closes in two steps, retries that drop by key, fork of a threaded process |
| configure-mode tools (`tools/edit.py`, `templates.py`, `core/configure_commit.py`, `commit_sequence.py`, `edit_helpers.py`, `locks.py`) | the device's shared candidate, its commit history, a lock per device key and process | edit, check, compare, factory default, rollback, restore, template deploy | commands interleave on the device; a reply can be a refusal, late or lost, and the sequence may then run again |
| NETCONF (`dnos/nc`) | the NETCONF candidate, no lock | edit, apply, stage, rollback, revert, discard, backup, restore | RPCs of several sessions interleave; an RPC may be refused or lost |
| backup and restore (`tools/backup.py`, `core/backup_store.py`, `nc/tools/backup.py`) | two directory trees of configurations | backup, restore, list, read, diff, delete | the device writes the file itself; names have the second's resolution |
| tar-load jobs (`tools/tarload.py`, `core/jobs.py`, `core/job_store.py`) | in-memory registry, one JSON envelope per job on disk; on the box: target stack, registered files, pre-check tasks | start (thread, blocking, or forked worker), status, pre-check | two processes, liveness judged by pid, files written by worker and reader; a verdict read from a screen that shows everybody's last task |
| techsupport jobs (`tools/techsupport.py`, `core/ts_store.py`) | same, other store; the box keeps one bundle | create, poll, upload | as above; a bundle may be somebody else's |
| packet capture (`tools/capture.py`, `core/capture_driver.py`) | the NCP's one sink and drop switch, pcap files on both sides | routing, datapath and cdnos captures | captures of one NCP meet at the sink; scp may leave a part |
| session daemon (`core/session_daemon.py`) | socket, flock, in-flight count | call, autospawn, version check, idle exit, shutdown | client falls back to a direct run: a command must not run twice |
| shell (`core/shell.py`, `runner.py`, `shell_exec.py`, `tools/shell.py`) | a channel and its prompt | send, wait for prompt, pager, questions, passwords, Linux, container and NCM shells | a text protocol with timeouts and no framing |
| restart, clear, run, raw (`tools/restart.py`, ...) | the box's processes and connections | restarts, process lookup, verbs, raw lines | a restart breaks the connections of everybody, its own reply included, and sequences are retried |
| read-only tools (`tools/discovery.py`, `dnos/core/cli_probe.py`) | none of its own | show, config, system, search, batches, the probe | two controllers, one of which refuses; an installer looks like a running box |
| device map (`dnos/core/devices.py`, `tools/devices.py`, `core/mgmt0_verify.py`) | JSON map of devices and aliases, a process's cache of it | add, alias, unalias, rename, remove, refresh, name-check, verify | read before the lock, written under it; stale caches |
| event monitor (`tools/monitor.py`, `core/event_spool.py`) | spool of seen events and cursors | tick, reset | saved once, after everything was posted |
| template store (`core/jinja_store.py`, `tools/templates.py`) | templates, rendered files, run directories | save, get, rename, delete, render, deploy | look before write, directories named after the second |
| gNMI (`dnos/gnmi`) | the time of the last call; a subscription's queue and error | get, keys, set, subscribe, capabilities | wait computed under a lock and slept outside; a stream's failure is beside its queue |
| RESTCONF over ODL (`dnos/rc`) | mounts on controllers, a local file of endpoints | mount add, status, remove; reads and writes | a file rewritten in place without a lock; a mount that is not connected, or another chassis's |
| Ixia control (`ixia`) | the tree of an IxNetwork session | create and delete of every node, start, stop, apply, routes, ports, load | a lock per process on a session of several; an edit stops protocols and has to start them again |
| Jenkins (`jenkins`) | Jenkins's queue and builds | trigger, watch, stop, artifacts | a queue item is forgotten; a result appears before the end |
| orchestrator (`orc`) | one record per device and run | run, show | a forked worker, liveness judged by pid |
| Spirent, Jira, Confluence, power, console, device42, arista, jobs listing, MCP tables, vendor dialects, credentials and options | | one request and its answer; tables; files read once | not modelled, see below |

How they interact. Every DNOS tool reaches its device through the transport
pool's `run_*` functions. The configure-mode tools call `run_sequence_pw`
under `device_lock`. Job tools run in a thread or in a forked child, which
starts with `registry.reset_after_fork()`. With the daemon on, `run_*` first
offers the call to the daemon, which runs the same function in its own pool.
`atexit`, and the end of the daemon, close the pool. gNMI, NETCONF and RESTCONF
have clients of their own and share the device map and the mgmt0 verification.

`PROJECT.json` lists the components with their status, under `map` the source
lines each definition stands for, and under `hazards` the places where this
code can go wrong in a way a unit test hardly reaches.

What makes each modelled part correct, in short:

- *pool*: a connection is never lost nor closed twice, one authentication per
  key, exact use counts, a fork leaves the parent's connections alone, every
  call returns;
- *configurations*: every commit is the whole effect of one call; the candidate
  is clean when nobody uses it; what a tool answers is what the device runs;
  what an edit breaks on its way it mends;
- *jobs*: one load at a time in the server, what is on disk can be trusted by
  whoever reads it, a verdict is about the job's own images, bundle, packets or
  build, nothing keeps a slot for ever;
- *sessions*: a call runs once, what is typed reaches the shell it is for, an
  answer is of what was asked, every call returns;
- *stores*: a name leads to one device, no event falls through, no file is
  taken for what it is not.

## Modules

| module | models | state and actions |
|---|---|---|
| `TransportPool` | `TransportRegistry` and the `run_*` loops | `pool` is `_transports`, `lock` the key locks, `link`/`inUse`/`idle` the fields of a `Transport`; per thread a program counter through get, mark, run, drop, unmark, retry. `ReapSelect`, `ReapPop`, `ReapClose` are `_select_stale` and the drop it leads to; `CloseAll`, `CloseDoomed` are `close_all`; `Fork` is `reset_after_fork`, after which the model follows the child; `ProbeDrop` is the techsupport worker's drop; `Die` and `GoIdle` are the network and the clock |
| `TransportPoolProofs`, `SessionDaemonProofs`, `TarLoadJobsProofs`, `JobsProofs`, `ConfigCandidateProofs`, `DeviceMapProofs`, `ArchivesProofs`, `StoresProofs` | | the inductive invariants and the theorems |
| `ConfigPromise` | what the configure-mode tools promise | one variable, the commit history; a step is one call's whole result, or a commit from outside |
| `ConfigCandidate` | the tools that promise it | `dev` is the device (shared candidate, history, out-of-sync flag); a call takes its `device_lock`, sends its program command by command (`Exec`), may time out, lose its transport and start over (`Timeout`, `Break`, `Refused`), is judged (`Judge`) and may clean up with `rollback 0` |
| `NetconfCandidate` | `nc/core/change_ops.py`, `tools/lifecycle.py`, `tools/backup.py` | `store` is the candidate and the running configurations; a call goes RPC by RPC; each RPC succeeds, is refused, or is lost with or without effect |
| `Candidates` | the two candidates of a device side by side | `OkDelivers` and `RunningIsMeant`, what both kinds of tools promise |
| `IxiaConfig` | `ixia/tools` | `tree` is the session's configuration, `dgUp` what runs, `meant` what somebody started; a call goes REST call by REST call, holds its process's lock, and may fail, be interrupted or be killed at each |
| `TarLoadJobs` | `tarload.py`, `core/jobs.py`, `core/job_store.py`, as processes and files | kickoff: claim in memory (`CheckMemory`), claim on disk (`ReadLatest`, `JudgeLatest`), `Launch`, `Snapshot` of a forking parent; worker: `SaveStart` to `SaveTerminal`; reader: `Show`, `Answer`; `store` is the directory of envelopes, `image` and `download` the device |
| `Staging` | `tarload.py`, as one call and a box | from arguments (`BeginLoad`, `BeginPreCheck`) over the build's artifacts (`Fetch`) and the probe to the plan, its commands (`SendSetUp` to `StepLate`, `SgDrop`), the sum of the answers (`SumUp`), the check of "already registered" (`ProveRegistered`) and the poll of the pre-check (`Look`, `PollDeadline`); `sgStack`, `sgFiles`, `sgPulling`, `sgTasks` are the box, on which others start pre-checks too |
| `TechSupport`, `Orchestrator`, `Capture`, `Builds` | `techsupport.py`; `orc/tools.py`; `capture.py` with its driver; `jenkins/` | a job per call, the box or Jenkins beside it; kills, lost answers, other people's bundles and builds |
| `SessionDaemon` | `core/session_daemon.py` | client: `Start` to `Receive` or `Direct`; daemon: `Lock`, `Bind`, `CloseListener`, `Unlink`, `Exit`; handler threads: `Accept`, `Dispatch`, `Respond`; `IdleOut` is the watchdog; `Kill` is outside |
| `ShellProtocol` | `core/shell.py`, `runner.py` | `typed` and `wire` are the two directions of one channel, `box` the shell the box is in, `client` the script of one `send_*` function; the box prints in chunks, asks, pages, refuses or is late |
| `DeviceCalls` | `restart.py`, `run.py`, `clear.py`, `raw.py`, `run_sequence` | two callers with a channel each, a box that goes down and comes back, a process table that changes; `dcRan` is what the box carried out |
| `Discovery` | `_open_transport`, `discovery.py`, `cli_probe.py` | one call that sweeps the controllers, reads, retries; a chassis whose phase and active controller change |
| `DeviceMap` | `devices.py` (both), `mgmt0_verify.py`, the tables kept of it | every edit is a read, a probe, and a write under the file lock; `hosts` is each process's `DEVICE_HOSTS` |
| `EventSpool` | `monitor.py`, `event_spool.py` | ticks of threads and processes over one file; log lines that arrive late; Slack, the disk and the process may fail |
| `RateGate`, `Gnmi` | `rate_limiter.py`; `gnmi/tools` | the gate of one target; calls, and a subscription with its feeding thread |
| `Stores` | `Archives` and `Templates` side by side | `StoresKeep`, what both promise about their files |
| `Maps` | dicts and directories | a key put, taken away, renamed |
| `Archives`, `Templates`, `Restconf` | the backup stores; the template store; `rc/` | paths, inodes and what is in them; who writes in place and who renames; controllers with mounts and sessions |
| `MC_*` | | values of the constants for TLC, and the compositions below |

Definitions whose comment starts with "Fault:" are variants of the definition
that follows, each with a slip such code could have. No specification uses
them; they are there to show, by putting one in the place of its original,
that the properties notice.

### Compositions

`ConfigCandidate` implements `ConfigPromise` (`CommitsAreWhole`, with a refinement
mapping from the device's history). The other modules meet in four compositions, `MC_Candidates`,
`MC_Jobs`, `MC_Sessions` and `MC_Registry`. They put the modules that answer one
question beside one another: a behaviour picks one, `part`, at the start and the
others do nothing. So the state space is the sum, not the product, and one
property, such as "every call returns", is stated once for all of them.

Fairness in such a composition could be empty: if an idle part were assumed to
go on, no behaviour would be fair and every liveness property would hold. For
each part of each composition a property that fair behaviours violate was
checked to be violated. Captures, which exist in every part, are fair in theirs
only (`JobsFairness`).

### The grain of the steps

*TransportPool*: a step is a section that the code runs under the registry lock
or a key lock, or the code between two of them. Closing a connection happens
outside all locks and is a step of its own. The connect of one `get` is one
step that succeeds or fails while the key lock is held; the sweep inside it is
in `Discovery`.

*ConfigCandidate*, *NetconfCandidate*, *IxiaConfig*: a step is one command, RPC
or REST call and its reply. Commands that change nothing in the candidate are
folded into the next. When a reply is late or lost, the device may have acted
or not. A statement is an opaque value, a configuration a set of statements; a
stage adds one, a load replaces all. A commit needs a candidate in sync with
what runs (otherwise the device asks, and qactl answers `abort`, as `ShellProtocol` has it
line by line) and different
from it.

*TarLoadJobs*: a step is one read or write of an envelope, one command, or a
section under the registry's lock. Tools of the MCP server run one at a time on
its event loop, so that two kickoffs of the server do not interleave; its
workers do. Anything else interleaves. *Staging* looks at the same worker
command by command, with the box's answers in full, and leaves files and
processes to the other; `TarLoadJobs` in turn lets the poll end with any verdict
and the set-up fail, as `Staging` shows it may.

*SessionDaemon*: a step is one system call that another process can see
(connect, send, flock, bind, close, unlink, exit), or the start or end of a
call in a handler thread. `make_server`'s unlink and bind are one step, under
the flock. A connection in the backlog is cut when the listener closes; one
that was accepted lives until the process ends.

*ShellProtocol*: a step is a line typed, a chunk read, a line taken by the box,
or a timeout. A prompt is a shape (router, configure, Linux, container, NCM,
password) and the matchers of `shell.py` accept the shapes their regular
expressions accept.

*DeviceMap*, *EventSpool*, *Archives*, *Templates*, *Restconf*: a step is one
read, write, rename or unlink of a file, or one locked read-modify-write; a
file written in place is first empty, then in part, then whole, and of two that
are written into it at the same time a mixture may remain. *Archives* gives a
backup whose transport breaks its second try as a call of its own, which begins
where the first left off; the transfer of the first may still run.

## Runs

| run | instance | states | asks |
|---|---|---|---|
| `pool` | `TransportPool`: 2 threads, 1 key, 2 connections, 1 call each, every outside event | 254 k | exact counts, no leak, one authentication, open pool, parent's connections; every call returns, dead connections leave the pool |
| `pool_reap` | 1 thread | violated | does the reaper spare busy transports? |
| `candidate_calls` | `MC_Candidates`: two callers of the configure-mode tools under one lock (refusals and outside commits; all faults; every tool); two NETCONF callers; three Ixia calls in two processes | 470 k | refinement of `ConfigPromise`, clean candidate; a commit is meant; `ok` delivers; an Ixia edit mends what it breaks and a start brings up what it says; calls return |
| `candidate_dryrun` | a checker and an editor, timeouts | violated | does a dry run stay dry? |
| `candidate_aborted` | two editors, refusals and broken transports | violated | is `aborted` all or nothing? |
| `tarload_jobs` | `MC_Jobs`: loads of the server, or a detached and a blocking one, a reader, all kills; one or two calls on every kind of box; two tech-supports; a run of `orc`; three captures; two Jenkins calls | 458 k | one load in the server, truth of envelopes and verdicts, fresh bundles, own packets, own builds; every job ends |
| `tarload_orphan` | the tar-load part | violated | does `done` stay? |
| `staging_whole` | `MC_Staging`: the settings of the staging part | violated | does ok mean that every step ran? |
| `sessions` | `MC_Sessions`: 2 clients, 2 daemons, versions; one call of every kind on one channel; two operational calls; one read or probe | 525 k | at most one execution, reachable daemon, lines and outputs reach their place, answers are true, calls return |
| `daemon_stale` | 2 clients, 1 daemon, 2 versions | violated | is a stale daemon retired? |
| `shell_ncm` | one NCM call on a box that rejects it | violated | are NCM commands typed into the NCM? |
| `registry` | `MC_Registry`: two editors of the map and a watcher; three ticks; two threads at the gate, two calls each; two or three calls on the backups, templates, mounts, gNMI | 382 k | names, addresses, events, files, mounts and answers |

### Bounds, and why they are enough

- *Pool.* Locks and entries are per key and no step touches two keys but the
  reaper's selection and `close_all`, which visit keys one by one; one key
  holds all contention, and the proofs cover any number. With two connections
  a thread holds one while the other is popped or opened; each call has two
  attempts, so that it can follow a drop by anybody. The safety invariants are
  proved for any number of connections and calls; what the small instance is
  for is liveness, where what a call can be delayed by is another thread's call.
- *Configure mode.* Two statements are the least batch that can be half applied;
  two callers and a commit from outside are the three authors a candidate can
  mix. A second call per client inherits what the first left behind. The history
  of 3 lets `rollback 1` and `rollback 2` find something and fall off the end.
  Restore, rollback and factory default run without faults, since they do not
  clean up after a refused commit (see below).
- *NETCONF.* One call of every tool against two of another session meets each
  pair of RPCs; with faults, two calls of one show what the first leaves.
- *Ixia.* One topology with one device group holding a node of every kind, and
  a second group without: every edit is run against edits, starts and stops of
  another process; one REST call of a behaviour fails, or the process is
  interrupted or killed.
- *Jobs.* The claim, the orphan marking and the file order are pairwise races: a
  job against another job's kickoff, or against one reader. One image with
  `precheck` gives a plan of every shape; the order of several images is
  `Staging`'s. There the build has every image, lacks the base OS, or is broken,
  the box is bare, used, cut off in a download, busy with one, or overwritten by
  another build, and one or two foreign pre-checks begin at any moment. Two
  tech-supports, the name of one a part of the other's, meet one foreign bundle; a run of two devices has a first and a
  next; three captures are two that meet and one at another name; two Jenkins
  calls are a trigger and what is done with its item.
- *Sessions.* Two daemons are a daemon and its successor, or two that are spawned
  at once. Two clients are enough to have one end a daemon that serves the
  other. The theorems cover any number. One channel has one client; two
  operational callers are one that restarts and one it interrupts; two
  controllers are an active and a standby one.
- *Stores.* Two processes for a race and a second edit for what the first left;
  a map of two chassis and three names has a name free, one used and a nickname.
  Two events of one device can arrive in the wrong order, a third is another
  device's. One tick of the clock tells "the same second" from "later".

### Fairness

The liveness properties assume weak fairness of what the code itself keeps
going:

- pool: each step of a started call (connects, commands and prompts have
  timeouts), the reaper thread (a loop with a sleep), and the rest of
  `close_all`'s loop. Not of the network, of the clock, or of callers starting.
- configurations: each step of a started call (every command, RPC and REST call
  has a timeout; locks are released in a `with`). A lock is taken under weak
  fairness only: with a finite number of calls nobody can be overtaken for ever;
  Python's lock promises no order.
- jobs: kickoffs and workers that are not killed (each wait has a deadline); a
  Jenkins call polls until its item or build ends or its time is up.
- sessions: clients, handler threads and a daemon's own steps. Not that it idles
  out or is killed. A call that executes ends, which `run_*`'s own timeouts see
  to; the socket itself is read without a deadline. On a channel, the client's
  steps, and the box's while the channel is open.
- the device map: a started write goes on, and minutes pass (the remembered
  verification of an address expires).

## What the violated runs show

- `pool_reap`: `_select_stale` looks at `in_use` under the registry lock,
  `_reap_loop` drops the keys later without looking again. A call that gets the
  transport and marks it busy in between loses it in the middle. It then retries
  on a new one, so the command runs twice (`run_capture` fails).
- `candidate_dryrun`: a check or compare sends `rollback 0` as its last command.
  If an earlier command times out the sequence ends there, and a dry run has no
  other cleanup: the staged statements are committed by the next edit.
- `candidate_aborted`: the retry after a broken transport starts the whole
  sequence over, also when its commit had been sent. The verdict is drawn from
  the second try alone: a refusal there is reported as "the commit was never
  sent" while the first try's commit is running.
- `tarload_orphan`: a reader reads `loading`, then looks at the pid. The worker
  has saved `done` and ended in between; the reader saves what it had read with
  `error`, over the `done`.
- `staging_whole`: `set cli-no-confirm` or the snapshot of the last pre-check
  times out, which ends the sequence. The sum of the steps passes over those two
  commands; the images and the pre-check behind them are "skipped", which is no
  failure, and the job is `done`, status ok, with nothing loaded or checked.
- `daemon_stale`: a daemon answers a client of another version with
  `version-mismatch` *before* it looks at the operation, so that the `shutdown`
  sent to retire it is refused the same way. `session off` and `session stop`
  then report a daemon stopped that is still there.
- `shell_ncm`: a box that refuses `run start shell ncm` is at its own prompt,
  `name#`, which the matcher of NCM prompts accepts; the NCM commands follow.

## Seen while modelling

Left to the models' comments or to properties that name their limits, mostly
because no document of the repository claims otherwise.

*Pool and reads.* A retry drops by key: it can close a healthy transport another
caller has opened for the key since (that caller then retries in turn). The
error of a failed sweep speaks of the last controller only (session.py:708). A
refused connection is final, also that of a box which is booting. Credentials
one controller rejects are tried again when the other one timed out.
`probe_device` does not look at whether the prompt came. A second LLDP neighbour
at the management port is ignored silently.

*Configurations.* `device_lock` is a lock of one process, keyed by `device or
host`: two processes, or an alias and the host it names, take different ones.
`LockOf` is a parameter of the model; the runs give both callers the same lock.
`scale_deploy` without `deploy` answers ok, with warnings, when a statement was
rejected and the check passed. Restore, rollback and factory default leave their
statements in the candidate when their commit is refused, and a restore whose load was refused still sends
its commit. A `rollback 1` that is retried after its own commit takes that
commit back, and answers ok. NETCONF tools lock nothing: a call whose candidate
another one reloaded answers ok with nothing committed.

*Ixia.* `write_lock` is one process's. A bounce starts device groups somebody
had stopped ("mixed" counts as running); an explicit stop during another's
bounce is undone; a bounce's stop is outside its `try`; the apply before a start
is skipped while another runs, and the start then brings up nothing and says ok
when the changes are not yet there (when it waited for them itself it adds a
warning: see below); a deletion of a topology that is refused
leaves it stopped; a refused removal in a rollback is swallowed; `route_action`
writes back the mask it read and loses another process's lines; `assign_port`
looks at the owner before it has the lock.

*Tar loads.* Two processes that kick off a load at the same time both pass the
claim on disk, since a job is on disk only after its worker has started; the
device then refuses the second: `ServerOneLoad` is about the server only. A
reader that marks an old job makes its file the newest, behind which a live job
of the device is not found. A pre-check that follows "already registered" may
run before that file's download has ended, also when the download is of the
first try of the same call; `done` still implies that the image is staged. A
pre-check another person starts between the snapshot and the first look is taken
for the job's own. If the name of a file tells no version, any version in the
target column counts. A new task that is shown without a status counts as
failed. A download that an earlier call left running may change the target after
a call has verified it.

*Other jobs.* A tech-support kick-off whose acknowledgement is lost is reported
as an error although the device generates. `lost connection` is not among the
words a capture looks for in scp's output. A detached watch of Jenkins takes its
credentials and URL from the environment, not from `--user`, `--token`, `--url`;
an HTTP error while it polls ends a watch without a message to Slack; `stop`
answers ok whatever the status code; a trigger whose answer is lost is reported
as an error though it is queued; `wait_timeout` applies twice, once to the item
and once to the build.

*Sessions.* A request in the backlog of a daemon that exits is told "may or may
not have run" although it has not. The lines of a raw call other than the last
may run twice when the connection breaks between two of them.
`kill_9_ncc_process` takes no confirm, although restart.py:1 says that all are
guarded by one. Prompts that answer the nudges of a slow box are not drained; a
question that arrives in two chunks is answered twice. The commit that meets
another one is answered `abort`, and is then not carried out. When `configure`
is late, `run_probes` does not send the `end` that would leave it, and a way into
a Linux shell that fails may end at a challenge: `FirmGround` claims the
rest, late boxes and failed commands included.

*Device map.* `device add` under a nickname of a registered device writes under
the nickname, which becomes a second device of that name (`_add_device`,
devices.py:387), though session.py:152 warns of just this; `OneDevicePerName` is
claimed until such a call, and does not catch what follows it. A refresh, name-check or verification that ends after
a rename or remove brings the old key back without hosts.

*Stores.* A CLI upload is written to its final path and a restore looks at no
size, so that a torn file may be taken; the file of a backup that was answered
ok is never one, unless the device was silent, two calls shared a second, or the
call's own first try was broken off and its transfer still runs: one call that
nobody else meets can so answer ok over a mixture of two uploads. What a second
try leaves is excused as a whole, like the work of another call of that second;
`GoodCopyStays` leaves out the calls of one second in the same way. The
list that is "newest first" sorts by file name, hence by device. `default_bucket`
and `make_filename` read the clock twice. Template renders of one second share a
run directory and its `script.py`, and renders that write one file at the same
time may leave the text of one with the tail of the other, which a deployment
then pushes; a template deleted between `exists()` and the read raises. The
file of RESTCONF endpoints is rewritten in place without a lock; `find_mount`
takes a device's first entry, so that a device mounted at two endpoints is
refused at the second (rw.py:170); a device without a mount and with an endpoint
yields a URL of the controller's own data; `remove` forgets the entry also when
the DELETE failed. A gNMI set whose answer is lost leaves its change, though its
docstring says that a failure means nothing changed; a stream that fails after
some events reports those and no error, and one that fails inside the loop
reports the error and no events; updates are listed before deletes; callers that
arrive at the gate together go out together.

*Against the documents.* The runs that end in a violation check seven sentences of
docstrings and comments. These the code contradicts too; here each stands beside
the excuse by which a property allows for it, and without that excuse TLC finds
the property violated in the same models:

- "Any commit failure triggers ``discard-changes`` so the device is left clean"
  (nc/tools/rw.py:175). `edit_from_xml` swallows whatever its discard raises and
  answers the same `edit_error` or `commit_error` (change_ops.py:265-309): what
  was refused stays staged, nobody is told, and the next commit of any session
  applies it. `RefusedStaysOut` excuses it (`unswept`).
- "On a hard failure (...) the envelope is left at ``status="warning"``"
  (ixia/tools/run.py:67). A start whose own apply fails, or is not done by its
  deadline, only gets a line in `warnings`; the status stays ok, and what was not
  taken over does not start. `StartBringsUp` excuses it (`warned`).
- "... surrounding underscores make the match unambiguous"
  (techsupport.py:807). The test is whether `_<name>_` is anywhere in the file's
  name (456): `ts_core_bgp_x_...` is taken for the bundle of job `bgp`, uploaded
  under its name, and the job is done. `DoneIsFresh` asks for no more than a name
  that holds the job's (`TsWithin`).
- "ALWAYS try to back out (...) so the channel is left on firm ground even on
  error / timeout" (shell.py:828). When the box asks for the password of the NCM
  after the wait for it is over, `_exit_back` types `end` and `exit` into the
  challenge, and the call ends there. `FirmGround` is about calls that got in.
- "``python_script`` requires a saved ``name`` so the run is captured under an
  audit dir" (tools/templates.py:126). Two renders within one second have one
  directory and one `script.py`: one runs the other's, or leaves a directory that
  holds the other's. `RendersItsOwn` excuses it (`SameRun`).
- "Updates the per-target last-call timestamp atomically with the wait so
  concurrent callers serialise correctly" (rate_limiter.py:37). The time is read
  before the sleep and written after it: whoever arrives in between waits for the
  same moment and goes out with the first. `PacedBehindThePast` speaks of the
  calls that had gone out on arrival.

## Proofs

`TransportPoolProofs` proves, for any threads, keys, connections and calls, from
the assumption `PoolAssumption` of the module (threads are finitely many, the
sentinels are none of the values they stand beside, and the bound on calls is a
number):

- `TypeCorrect`, `InUseIsExact`, `NothingLeaks`, `PoolIsOpen`,
  `AuthenticatesOnce`: the invariants of the run `pool`;
- `ParentSafe`: its action property.

The argument. `NoLeak` says that a connection that is up has an owner: the pool
or somebody who will close it. Alone it is not inductive: an open that finds the
pool occupied would overwrite an owner. `OpeningEmpty` and `LockInv` (a key lock
is held exactly by the thread that opens for it) exclude that; `PoolInjective`
makes a pop leave the pool for good; `VictimInv`, `DoomedInv` and `DyingOurs`
say which connections are on their way out and that they are this process's;
`HoldInv` says what a thread holds where. Together they are `OwnInv`, shown
step by step in `OwnStep`. The exact count, `InUseExact`, needs `OwnInv` and the
arithmetic of one thread joining or leaving the set of users (`OneMore`,
`OneLess`): `CountStep`. `Invariance` puts them together.

It proves of `Discovery`, for any chassis, calls, tables of neighbours and
number of failures, from `DvAssumption` (calls are of the read-only tools, with
lists of lines; there is a controller and an attempt to make):

- `ReadsSound`: `ReadsAreTrue`; `DvInvariance`, `DvTypeCorrect`.

`DvInv` says of a call what it has to type and has typed (`WorkOK`, `AskedOK`);
of a batch, that the lines of its last try stand behind those of the first, in
the order they were asked in (`BatchOK`); and of a sweep, what its failures have
used up: where the box is firm (up, unchanged, with the right credentials, at a
controller the call knows) the active controller fails by a fault alone, so each
attempt costs one (`SweepOK`), whatever the standby answers. That a state, a
name or a mode is the box's own rests on what each phase prints
(`SystemMarks`, also of an output that was cut short before the inventory), and
the rack on the least management row and the set of leaf racks (`LocationTells`).

`SessionDaemonProofs` proves, for any clients, daemons and versions, from
`DaemonAssumption` (`None` is no daemon, version or reply):

- `OneServes`: a serving daemon owns the lock and the socket. The strengthening
  is `LockKept`: the lock is held from before the bind until the process is
  gone, so the unlink on the way out, which looks at nothing, cannot remove a
  successor's socket;
- `RunsOnce`: a call is executed at most once, and exactly once when a result is
  told. The strengthening is `CallInv`, which says at each point of the exchange
  what has been executed and what has been written: nothing before the handler
  has it (`Unsent`), in step with the reply while the client waits (`Sent`), and
  nothing yet when a client turns to a direct run (`Left`);
- `TypeCorrect`.

and of `DeviceCalls`, for any callers, calls, names and process tables, from
`DcAssumption` (a call is of one of the tools and has a list of lines):

- `CallsSound`: `CallsDoWhatTheySay`; `DcInvariance`, `DcTypeCorrect`.

`DcInv` goes with one call at a time. It says how far the call is (`Begun`: the
lines behind it were answered, and none of them was lost or, where a refusal
stops it, refused), that each line the box ran is one of this call's and was
typed at its place in one of its tries (`LineIsOf`, `InOrder`), and that a line
that is told to have run did so in the try that tells it (`RanIsSo`). A restart
is the last line of its call, so a try that carried it out is not followed by
another that answers "connect_error" (`AnswerIsSo`).

`TarLoadJobsProofs` proves, for any jobs, readers, images and requests, from
`TarLoadAssumption` (a request is a front and a plan that is not empty, a
detached one starts with a load; sentinels are apart) and `NoneIsNoEnvelope`:

- `OneLoadPerServer`, `LiveOnDisk`, `DoneStaged`: `ServerOneLoad`,
  `LiveIsVisible` and `DoneIsStaged`, the parts of `LoadsAreSound`;
- `NeverBack`: the action property `NeverRegresses`; `TypeCorrect`.

The argument. `SlotInv` ties the registry's slot to the one worker of the server
that may drive; the tools of the server run one at a time (`OneCall`), so what a
kickoff saw in memory is still so when it launches. `DiskInv` and `StateInv` say
what a worker's envelope is at each of its steps, so that a reader who judged an
*older* envelope (`SeenInv`) is the only one that can be wrong, and then only
about a worker that has ended. `ProgressInv` says of each command that lies
behind the worker what it has done to the image, a retried sequence included.

`JobsProofs` proves of the other jobs, for any number of each:

- `ShownIsTrue` (`Orchestrator`): `ShowIsTrue`. The invariant is that the parent
  has written every first record before the driver exists (`ParentFirst`), that
  a record follows what the driver holds (`RecordsFollow`), and that devices are
  settled in order (`InTurn`);
- `FreshWhenDone` (`TechSupport`): `DoneIsFresh`. What the device keeps for a job
  that waits is no older than the job's kick-off (`FreshJob`), also when somebody
  else's bundle takes its place, and what it archives holds its name, as a part of
  a longer one perhaps;
- `CapturesSound` (`Capture`): `CapturesAreSound`. `OwnFiles` follows the file of
  a capture that is alone at its path from `rm` to landing, `SinkHeld` says that
  the one who opened the sink is on its way to close it;
- `BuildsSound` (`Builds`): `BuildsAreTold`. `BdInv` says which build the queue
  item of a call became, whoever asked for it (`Follows`), that a call which has
  not acted has hit nothing (`Place`), what it has posted by each of its steps
  (`SlackIs`), and that Jenkins neither drops an item that became a build nor
  takes a result back (`ItemsKept`, `BuildsKept`);
- the types of `TechSupport`, `Capture` and `Builds`.

`ConfigCandidateProofs` proves, for any callers, batches, histories and settings:

- `CdInvariance`, `CdTypeCorrect`: types, and that whoever is at work holds its
  lock and stands at a command of its tool (`CdInv`);
- `CandidateIsClean`: `CandidateHolds`; `WholeCommits`: the refinement of
  `ConfigPromise` (`CommitsAreWhole`: the initial state maps to an initial state,
  every step to a step of the promise or a stutter); `EditsKeepRunning`:
  `EditKeepsRunning`; `OkDelivered`: `CliOkDelivers`.

The argument is `CdWhole`: before each command of the call that holds the lock
the candidate is what ran plus the part of the batch that was sent, or what the
load, the rollback or the restore has put there (`CdStaged`, `CdMidway`), and
when nobody is at work it is what runs. Two hypotheses of the module stand in
the theorems: `OneLock` (all callers take one lock: qactl's is per process and
per name, and callers with different locks do mix candidates) and, for all
but the last, `CleanersOnly` (where a command can be
refused, only tools that clean up are called: a refused restore, rollback or
factory default leaves its statements behind, as said above). Both are false of
some uses of qactl, true of one MCP server or daemon that is given one name per
device and the tools that clean up, and the runs cover what they leave open. No
hypothesis excludes refusals, late replies, broken transports or commits from
outside where the property speaks of them.

It proves of `NetconfCandidate`, for any callers, payloads, sections, backups and
settings, with refused and lost RPCs and no lock at all:

- `NcOkIsTrue`: `NcOkDelivers`; `RefusedIsOut`: `RefusedStaysOut`; `NcInvariance`,
  `NcTypeCorrect`;
- and of both candidates of a device, `OnlyMeantRuns`: `RunningIsMeant`, and
  `EveryOkDelivered`: `OkDelivers`, under the hypotheses above.

Here the invariant, `NcInv`, cannot speak of a call alone with its candidate. It
says what each call has still to send (`Planned`: a commit is the last RPC, and
only of a tool that commits), that what it means to bring about is in the
candidate or still to be sent (`Covered`, `NcReplaced`, with the excuses `mixed`
records of other sessions), that what ran when its session opened runs still
(`Based`), and of the candidate that each statement ran before or has a caller
who is staging it or was told that it may be staged (`Owned`). The last is why a
refused edit does not come back where its `discard-changes` was answered: only
that frees its caller from answering for the statement (`unswept`), and where it
was not, the statement may come back. `NcAssumption` says that a
caller has a payload, that sections have an order, and that the backup which
exists at first is not empty, as an empty one is not written.

And of `IxiaConfig`, for any calls, processes, trees of nodes and lines, with
REST calls that fail, interrupts and kills, from `IxiaAssumption` (a node that is
no traffic item is a topology or below one, "session" is no node, "none" is no
call, and a route action says on or off):

- `SessionSound`: `SessionHolds`; `StartsDeliver`: the action property
  `StartBringsUp`; `IxInvariance`, `IxTypeCorrect`.

`IxInv` says where a call of each tool can stand and when it owes a restart
(`IxFits`), that one call of a process is under the lock (`OneLocked`), and that
what runs, or should, exists (`GroupsExist`): with that, a restart which brings
up less than was stopped is the last word on what it leaves down. A start that
nothing has overtaken, and that has not been warned of its own apply, has nothing
left to apply (`StartsApplied`). For the lines
the argument is `SeenOK`: the mask a route action has read may be old, but of the
lines of its own process it cannot be, as their authors need the same lock; a
line of another process that is written over is no longer that one's. `LineOK`
adds that what was answered as applied is also what an engine still at work is
going to take over, so that no later apply takes it off the wire.

`DeviceMapProofs` proves, for any processes, names, chassis and hosts:

- `NamesLeadToDevices`: `MapHolds`, a name is of one device and a device of one
  chassis, and a process finds what the map holds;
- `NamesAreKept`: the action property `NamesSurvive`;
- `MapInvariance`, `MapTypeCorrect`.

`DeviceMapAssumption` says that a host is one chassis's and that the maps a
behaviour starts from (`SettingsOK`) are sound, as maps written by these calls
are. The difficulty is what a call noted before it waited for a probe or the
file lock. `MapInv` says what is still true of it: a record to be written is of
a host that was checked, or the call is marked as one that did not look
(`Checked`, `Enrols`), and the table in a process's memory is the map's, or the
map's but for the row it is about to write (`Fresh`).

It proves of `Gnmi`, whose calls look their devices up in that map, for any
calls, boxes, paths, scripts of a subscription and faults, from `GnAssumption`
(paths and messages are lists, no two boxes have one address, a call is for a
box there is):

- `GnmiSound`: `GnmiHolds`; `GnInvariance`, `GnTypeCorrect`.

`GnInv` says of each call what its answer is being made of. A read's entries are
of its first paths in their order, and no box has gone back behind one of them
(`EntriesOK`): that is what lets the next Get of a `get_many` be told beside the
earlier ones. A subscription's queue is the end of what the device sent
(`QueueOK`) and its answer all that came before, marked as it was sent
(`StreamOK`); the marks agree because the call has seen a sync_response exactly
when one is among the messages it took. What was sent, message by message, is a
recursive function, `EventsSent`; that it is one, with sequences for values, is
`EventsAre`, proved by least counterexample (`UpTo`).

`ArchivesProofs` proves, for any calls, processes, devices, buckets and
settings, from `ArAssumption` (a process per call; the sentinel is no call, and
no call has the name of a file):

- `BackupsSound`: `BackupsAreSound`; `ArchivesKeep`: the action properties
  `GoodCopyStays` and `TornIsNotDone`; `ArInvariance`, `ArTypeCorrect`.

The argument, `ArInv`, is about inodes, because a file that is open for writing
may be renamed, unlinked or replaced. No inode lies at two paths, and a file
that was not there at first lies where the name of the call which made its
inode leads (`DiskOK`, `RootOK`), wherever files are moved by hand. So whoever
has a path to itself, no other call of its second, has the inode to itself, and
what is in it follows from how far the call is: from the box's upload, which
may go on after the call has ended (`WireOK`), the copy on the box's flash
(`FlashOK`) and the bytes that NETCONF sent (`SendOK`, `CopyOK`). The excuses
of the properties (two calls or two tries in a second, a mute device, an alias
that moved)
are those of `Archives`; the proof shows that there are no others.

`StoresProofs` proves, for any calls, templates, faults, threads, interval,
controllers and chassis:

- `TemplatesSound`: `TemplatesHold`; `TemplatesKeep`: the action property
  `TemplatesStay`; `StoresKept`: `StoresKeep`, from it and `ArchivesKeep`;
- `GatePaces`: the action property `PacedBehindThePast`;
- `MountsSound` (`Restconf`): `MountsHold`, a request by device name reaches that
  device alone, and the file tells the mounts that the controllers have;
- `NothingLost` (`EventSpool`): `NothingFallsThrough`, no alert is lost that is
  not noted; `EventsSound`: `EventsHold`, and none is told more often than it
  must, where the ring is large enough;
- `TpInvariance`, `TpTypeCorrect`, `GateInvariance`, `RcInvariance`,
  `RcTypeCorrect`, `EvInvariance`, `EventTypeCorrect`.

`TpInv` says whose script a run directory holds (`ScriptOK`: the caller's own,
or one it shares the second with), that a rendered file which is not whole has
a writer at it, or had two at once, or the disk was full (`RenderedOK`), and of the names: two saves
or renames at work have met, one having looked while the other was under way
(`MetOK`), so that a name which was free can only be taken by a call that the
one which looked has met (`FreeOK`). For the gate it is enough that no call
went out after the last one the gate knows, and that a sleep ends the interval
after each call that had gone out when it began (`GateInv`).

`RcInv` gives every name on a controller its owners, the chassis that the
setting or an add has given it; where names are firm there is one
(`OwnersAreOne`). A mount is told its owner's address and has a session with
nobody else (`NodeOK`), an entry is of an owner (`EntryOK`), so a request goes
where it should (`RequestOK`), whatever mounts, drops and polls come between.
The file is right only where no call fails and no two are at it: then an entry's
mount stands, or its remove is on the way to the file (`Stands`), a mount found
connected stands until it is filed (`FiledStand`), and one filed stays filed
until someone removes it (`AddedAreFiled`). The third of these did not hold as
the model was first written: a remove may take away a mount between the poll
that found it and the write of its entry. `overlap` records that, and the
excuses of `FileTellsTheMounts` now name the removes they are about.

`EvCore` is about memories, those of the file and those in the hands of ticks
at work. Each holds alerts of its device that are in the log, once each, none
later than its cursor and none by more than an overlap later than one that
follows it (`RingOK`); and what it has done with, in the ring or before every window to
come, was posted or is noted, or is still to be posted by the tick that has it
(`Owed`, `Pending`). A line that arrives late is behind no cursor by more than
an overlap, so no memory has done with it (`LogMoves`); a tick that dies loses a
memory and owes nothing; and a process that saves an old memory over a newer one
repeats, but does not lose. So `NothingLost` holds for any devices, events,
faults, rings and processes, from `SpoolAssumption` alone.

That an alert is told once needs more: what drops out of the ring must be before
every window to come. That is `RingHolds`, the hypothesis of `EventsSound`: no
more alerts than the ring holds (`_SEEN_CAP`, 2000 per device) fall within
one overlap (by default ten minutes) of another. Were one dropped that a window can reach,
it and the full ring after it would lie within one overlap (`DroppedIsOld`, by
counting). The instance of the run satisfies it with nothing to spare, and the
mutant whose ring is one short repeats an alert; in a burst of alerts that
outruns the ring the code does repeat them. `OnceInv` then adds up, for each
event, how often it was told, is about to be and can yet be, and the same for
each link. `InOrder` is stated as what a sort returns, and that there is one is
proved by a least counterexample, over the size of a set (`OrderExists`).

Model-checked only: liveness, which needs fairness and ENABLED and is out of the
prover's reach; `AddressConverges`, for the same reason; the types of the
compositions, of which those of most parts are proved one by one; the parts of
`LoadsAreSound` that are about `Staging`; and `DialoguesHold`. `Staging` and
`ShellProtocol` compute with folds and flattened sequences, for which an
induction over data would be needed.

## Not modelled

Everywhere: the wording of answers, logs and messages, redaction, and time but
for where its order matters (the window of an event, the deadline of a wait, the
second in a file's name). What remains, by part:

- *Pool*: the host keys (`known_hosts` is a file read at connect); the hand-over
  of a `run_*` call to the daemon, which is `SessionDaemon`'s question, not the
  pool's.
- *Configure mode*: the check of mgmt0 after a commit, which reads; restore with
  `merge`, which differs in one line; callers that take different locks.
- *Tar loads*: expiry of jobs after 24 hours, and a pid that is used again.
- *Tech-supports and captures*: listing and removal of what was uploaded
  earlier; capture filters and the tshark summary.
- *Daemon*: `ping` and `status`, which change nothing; the marker that turns it
  on; clients that are killed; a backlog that is full.
- *Read-only tools*: traces, logs, cores, ping, interfaces: one command through
  functions that are modelled, and a text to format.
- *Device map*: the listing, groups, and the migration from older formats.
- *Events*: the cut of what one tick reads at 500 KB, which keeps the oldest lines.
- *NETCONF, gNMI, RESTCONF*: payloads, paths, URLs and schemas; NETCONF reads.
- *Ixia*: traffic and its statistics, the inspection tools, the REST client.
- *Spirent*: REST calls in sequence to one traffic generator, a smaller copy of
  what `IxiaConfig` models.
- *Jira, Confluence, power, console, device42, arista*: one request and its
  answer; nothing is kept.
- *Jobs listing*: reads the stores and sorts.
- *Vendor dialects, shared core (credentials, options, paths), MCP tables and
  the command table of `app.py`*: tables, and files read once by one process.

Hazards without a property have a note in `PROJECT.json` that says why.

## Plan

The models cover the parts whose order of steps matters, and the invariants of
these parts are proved. What is left is proof, for the properties that only TLC
has seen: `DialoguesHold` of `ShellProtocol`, and what `LoadsAreSound` says of
`Staging`; both need the folds in these modules replaced by what they compute.

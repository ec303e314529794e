---------------------------- MODULE ShellProtocol ----------------------------
(***************************************************************************)
(* One call of qactl on one SSH channel of a box: the prompt protocol of    *)
(* qactl/dnos/cli/core/shell.py as the run_* functions of core/session.py   *)
(* drive it, and the verdict core/runner.py draws.                          *)
(*                                                                         *)
(* The channel is two queues: lines typed, and what the box printed.  The   *)
(* client never learns which line the box is answering; it types a line,    *)
(* reads chunks until what it has read ends like the prompt it waits for,   *)
(* and types the next one.  A function of shell.py is a script of such      *)
(* steps.                                                                   *)
(***************************************************************************)
EXTENDS Naturals, Sequences, SequencesExt

CONSTANTS
  Asks,       \* how often each command asks (yes/no) or [y/n]
  Conflicts,  \* live commits: the box may ask (commit, merge-only, abort)
  Uploads,    \* commands that ask for the password of another host
  Calls       \* what a run lets happen, see ShellAssumption

Commands == DOMAIN Asks

Vias == {"none", "once", "raw", "confirm", "conflict", "transfer", "help",
         "config help", "probes", "config probes", "shell", "ncm"}

\* A call: the function, its commands, and how the box behaves: `late`: later
\* than any timeout; `nudged`: its first prompt takes longer than banner_wait;
\* `splits`: a question arrives in two chunks; `rejects`: the box may reject
\* the NCM.
ShellAssumption ==
  /\ Asks \in [Commands -> Nat] /\ Uploads \subseteq Commands
  /\ Conflicts \subseteq {c \in Commands \ Uploads : Asks[c] = 0}
  /\ \A c \in Calls :
       /\ c.via \in Vias /\ c.cmds \in Seq(Commands)
       /\ c.box \subseteq {"late", "nudged", "splits", "rejects"}
ASSUME ShellAssumption

MaxNudges == 2     \* bound: prompt_timeout / banner_wait is 7 by default
MaxLate == 2       \* bound: how often one call runs out of time on a box that is working

VARIABLES
  job,      \* the call
  client,   \* the client: where it is, what it has read, what came out
  typed,    \* lines the box has not taken yet
  wire,     \* what the box printed and the client has not read yet
  box,      \* the mode of the box, questions left, keys typed without newline
  taken,    \* history: <<the purpose of a line, what the box took it for>>
  carried       \* history: the commands the box carried out, and where

shellVars == <<job, client, typed, wire, box, taken, carried>>
boxVars == <<box, taken, carried>>

Behaves(b) == b \in job.box
MayBeLate == Behaves("late") /\ client.late < MaxLate

-----------------------------------------------------------------------------
(* Scripts.                                                                *)

Line(purpose, cmd) == [purpose |-> purpose, cmd |-> cmd]

\* A step types a line and reads until `till`; a question of kind `asks` is
\* answered on the way.  A miss ends the call ("stop"), goes to the steps that
\* leave a mode again ("leave"), or does not matter ("on").
StepOf(line, till, asks, miss) ==
  [line |-> line, till |-> till, asks |-> asks, miss |-> miss,
   leaving |-> FALSE, when |-> "always"]

Leaving(line, till) ==
  [StepOf(line, till, "none", "on") EXCEPT !.leaving = TRUE]

\* Fault: the sequence goes on after a timeout.
SendCommand_GoesOn(c) == StepOf(Line("cli", c), "prompt", "none", "on")

SendCommand(c) == StepOf(Line("cli", c), "prompt", "none", "stop")
SendWithConfirm(c) == StepOf(Line("cli", c), "prompt", "question", "stop")
\* A live commit may find that somebody else has committed since, and ask what
\* to do.  Any other question is left to the timeout.
SendWithConflict(c) == StepOf(Line("cli", c), "prompt", "conflict", "stop")
SendWithPassword(c) == StepOf(Line("cli", c), "prompt", "password", "stop")

Configure(miss) == StepOf(Line("cli", "configure"), "prompt", "none", miss)
EndConfig == Leaving(Line("leave", "end"), "prompt")

\* Keys without a newline, whatever the box prints meanwhile, and Ctrl-U.
SendHelp(c, miss) ==
  <<StepOf(Line("keys", c), "idle", "none", "on"),
    StepOf(Line("wipe", c), "prompt", "none", miss)>>

\* Fault: the session stays in configuration.
SendConfigHelp_Stays(c) == <<Configure("leave")>> \o SendHelp(c, "on")

SendConfigHelp(c) == <<Configure("leave")>> \o SendHelp(c, "on") \o <<EndConfig>>

Probes(cmds) == FlattenSeq([i \in DOMAIN cmds |-> SendHelp(cmds[i], "leave")])

\* run_probes: a miss of configure ends the call there and then.
ConfigProbes(cmds) == <<Configure("stop")>> \o Probes(cmds) \o <<EndConfig>>

LeaveShell(till) == Leaving(Line("leave", "exit"), till)

\* Fault: the password is typed without waiting for the question.
SendShellExec_Blind(c) ==
  <<StepOf(Line("cli", "shell"), "idle", "none", "on"),
    StepOf(Line("secret", ""), "linux", "none", "leave"),
    StepOf(Line("linux", c), "linux", "none", "leave"), LeaveShell("prompt")>>

\* run start shell, its password, one Linux command, and exit whatever happens.
SendShellExec(c) ==
  <<StepOf(Line("cli", "shell"), "password", "none", "leave"),
    StepOf(Line("secret", ""), "linux", "none", "leave"),
    StepOf(Line("linux", c), "linux", "none", "leave"), LeaveShell("prompt")>>

\* The nested CLI of the NCM: the password only if the box asks, commands
\* until one of them misses, then end, exit, and exit again if need be.
SendNcmCli(cmds) ==
  <<StepOf(Line("cli", "ncm"), "ncm or password", "none", "leave"),
    [StepOf(Line("secret", ""), "ncm", "none", "leave") EXCEPT !.when = "asked"]>>
  \o [i \in DOMAIN cmds |-> StepOf(Line("ncm", cmds[i]), "ncm", "question", "leave")]
  \o <<Leaving(Line("leave", "end"), "ncm"), LeaveShell("prompt"),
       [LeaveShell("prompt") EXCEPT !.when = "missed"]>>

\* Pagination is switched off first, on every channel.
PageOff == StepOf(Line("cli", "page off"), "prompt", "none", "stop")

Script ==
  LET cmds == job.cmds
      body == CASE job.via \in {"once", "raw"} -> [i \in DOMAIN cmds |-> SendCommand(cmds[i])]
                [] job.via = "confirm"  -> [i \in DOMAIN cmds |-> SendWithConfirm(cmds[i])]
                [] job.via = "conflict" -> [i \in DOMAIN cmds |-> SendWithConflict(cmds[i])]
                [] job.via = "transfer" -> [i \in DOMAIN cmds |-> SendWithPassword(cmds[i])]
                [] job.via = "help"     -> SendHelp(cmds[1], "stop")
                [] job.via = "config help"   -> SendConfigHelp(cmds[1])
                [] job.via = "probes"        -> Probes(cmds)
                [] job.via = "config probes" -> ConfigProbes(cmds)
                [] job.via = "shell"    -> SendShellExec(cmds[1])
                [] job.via = "ncm"      -> SendNcmCli(cmds)
                [] OTHER -> <<>>
  IN <<PageOff>> \o body

-----------------------------------------------------------------------------
(* What the client recognizes at the end of what it has read.              *)

Token(kind, cmd) == [kind |-> kind, cmd |-> cmd]

\* The matcher knows the shape of an NCM prompt only: HOST# is one.
LooksLikeNcm(token) == token.kind \in {"ncm", "prompt"}

EndsWith(till, token) ==
  CASE till = "ncm" -> LooksLikeNcm(token)
    [] till = "ncm or password" -> LooksLikeNcm(token) \/ token.kind = "password"
    [] OTHER -> token.kind = till

\* What remains of a chunk's question looks like a question too.
IsQuestion(asks, token) ==
  CASE asks = "question" -> token.kind \in {"question", "rest of question"}
    [] asks = "conflict" -> token.kind \in {"conflict", "rest of conflict"}
    [] asks = "password" -> token.kind = "password"
    [] OTHER -> FALSE

-----------------------------------------------------------------------------
ShellInit ==
  /\ job \in Calls
  /\ client = [pc |-> IF job.via = "none" THEN "done" ELSE "banner", step |-> 0,
               read |-> <<>>, answers |-> 0, nudges |-> 0, late |-> 0, hit |-> TRUE, outs |-> <<>>]
  /\ typed = <<>>
  /\ wire = <<>>
  /\ box = [mode |-> "login", back |-> "cli", asks |-> 0, cmd |-> "", keys |-> ""]
  /\ taken = {} /\ carried = {}

Current == Script[client.step]

\* The next step: past the ones this call does not need, and after a miss
\* only the ones that leave.
Follows(i, last, leave) ==
  LET s == Script[i] IN
  /\ leave => s.leaving
  /\ CASE s.when = "asked"  -> last = "password"
       [] s.when = "missed" -> last = "timeout"
       [] OTHER -> TRUE

\* Go on with the first step from i on that follows, or end the call.
Proceed(c, i, last, leave) ==
  LET next == {j \in i..Len(Script) : Follows(j, last, leave)} IN
  IF next = {} THEN client' = [c EXCEPT !.pc = "done"] /\ UNCHANGED typed
  ELSE LET j == CHOOSE j \in next : \A k \in next : j <= k IN
       /\ client' = [c EXCEPT !.pc = "wait", !.step = j, !.read = <<>>, !.answers = 0]
       /\ typed' = Append(typed, Script[j].line)

Texts(c) == {t \in ToSet(c.read) : t.kind \in {"output", "error", "conflict"}}

\* A raw sequence stops at the first line with an error.
StopsOnError(c) == job.via = "raw" /\ \E t \in Texts(c) : t.kind = "error"

\* A step ends, and leaves a StepCapture behind.
EndOfStep(c, last) ==
  LET s == Current
      missed == last = "timeout" /\ ~s.leaving
      d == [c EXCEPT !.hit = @ /\ ~missed,
                     !.outs = IF s.leaving THEN @
                              ELSE Append(@, [line |-> s.line, hit |-> last # "timeout",
                                              texts |-> Texts(c)])]
  IN IF (missed /\ s.miss = "stop") \/ StopsOnError(c)
     THEN client' = [d EXCEPT !.pc = "done"] /\ UNCHANGED typed
     ELSE Proceed(d, client.step + 1, last, s.leaving \/ (missed /\ s.miss = "leave"))

\* The first n tokens of the wire are read: whatever has arrived.
Takes(n) == [client EXCEPT !.read = @ \o SubSeq(wire, 1, n)]
Chunk(n) ==
  /\ n \in DOMAIN wire
  /\ wire' = SubSeq(wire, n + 1, Len(wire))
  /\ UNCHANGED <<job, boxVars>>

\* _init_channel: drain until a prompt, nudging the box with newlines.
Banner(n) ==
  /\ client.pc = "banner"
  /\ Chunk(n)
  /\ IF wire[n].kind = "prompt" THEN Proceed(client, 1, "prompt", FALSE)
     ELSE UNCHANGED <<client, typed>>

Nudge ==
  /\ client.pc = "banner" /\ Behaves("nudged") /\ client.nudges < MaxNudges
  /\ typed' = Append(typed, Line("newline", ""))
  /\ client' = [client EXCEPT !.nudges = @ + 1]
  /\ UNCHANGED <<job, wire, boxVars>>

\* No prompt on a fresh channel: the call fails.
NoPrompt ==
  /\ client.pc = "banner" /\ Behaves("late")
  /\ client' = [client EXCEPT !.pc = "done", !.hit = FALSE]
  /\ UNCHANGED <<job, typed, wire, boxVars>>

\* A chunk ends with a question the step answers: a password once, any other
\* question each time the text has grown.
Answers(c) ==
  /\ IsQuestion(Current.asks, Last(c.read))
  /\ Current.asks = "password" => c.answers = 0

\* Fault: the commit is forced over what the other has committed.
ConflictAnswer_Commit == "commit"

\* commit_conflict_answer: the question's own default.
ConflictAnswer == "abort"

Answer(c) ==
  /\ typed' = Append(typed, Line(CASE Current.asks = "password" -> "secret"
                                   [] Current.asks = "conflict" -> ConflictAnswer
                                   [] OTHER -> "answer", ""))
  /\ client' = [c EXCEPT !.answers = @ + 1]

\* Read a chunk: answer the question it ends with, or end the step with the
\* prompt it ends with, or go on reading.
Read(n) ==
  /\ client.pc = "wait" /\ Current.till # "idle"
  /\ Chunk(n)
  /\ LET c == Takes(n) IN
     IF Answers(c) THEN Answer(c)
     ELSE IF EndsWith(Current.till, Last(c.read)) THEN EndOfStep(c, Last(c.read).kind)
     ELSE client' = c /\ UNCHANGED typed

\* drain: all there is, until the box is idle.
Drain ==
  /\ client.pc = "wait" /\ Current.till = "idle"
  /\ IF typed = <<>> THEN wire # <<>> ELSE MayBeLate
  /\ wire' = <<>>
  /\ EndOfStep([client EXCEPT !.read = wire, !.late = IF typed = <<>> THEN @ ELSE @ + 1], "idle")
  /\ UNCHANGED <<job, boxVars>>

\* The overall timeout: of a late box at any time, else of one that is silent.
Timeout ==
  /\ client.pc = "wait" /\ Current.till # "idle"
  /\ LET silent == wire = <<>> /\ (typed = <<>> \/ box.mode = "closed") IN
     /\ silent \/ MayBeLate
     /\ EndOfStep([client EXCEPT !.late = @ + IF silent THEN 0 ELSE 1], "timeout")
  /\ UNCHANGED <<job, wire, boxVars>>

ClientStep ==
  \/ \E n \in DOMAIN wire : Banner(n) \/ Read(n)
  \/ Drain \/ Timeout \/ NoPrompt

-----------------------------------------------------------------------------
(* The box.                                                                *)

PromptOf(mode) == Token(IF mode \in {"linux", "ncm"} THEN mode ELSE "prompt", "")
Output(cmd) == Token("output", cmd)
Error(cmd) == Token("error", cmd)

\* A question, in one piece or two.
InPieces(kind, rest, cmd) ==
  {<<Token(kind, cmd)>>} \cup
  (IF Behaves("splits") THEN {<<Token(kind, cmd), Token(rest, cmd)>>} ELSE {})
Question(cmd) == InPieces("question", "rest of question", cmd)

\* The box takes the first line for `what`, prints, and goes to `mode`.
Took(what, printed, next) ==
  /\ typed' = Tail(typed)
  /\ taken' = taken \cup {<<Head(typed).purpose, what>>}
  /\ wire' = wire \o printed
  /\ box' = next
  /\ UNCHANGED <<job, client>>

Carried(cmd, where) == carried' = carried \cup {<<cmd, where>>}

\* It carries out a command, in mode `mode`.
Done(what, cmd, mode) ==
  /\ Took(what, <<Output(cmd), PromptOf(mode)>>, [box EXCEPT !.mode = mode])
  /\ Carried(cmd, mode)

\* It refuses, and is in mode `mode` again.
Refused(what, cmd, mode) ==
  /\ Took(what, <<Error(cmd), PromptOf(mode)>>, [box EXCEPT !.mode = mode])
  /\ UNCHANGED carried

\* It asks first.
AsksFirst(what, cmd, mode) ==
  /\ \E q \in Question(cmd) :
       Took(what, q, [box EXCEPT !.mode = "question", !.back = mode, !.cmd = cmd,
                                 !.asks = Asks[cmd]])
  /\ UNCHANGED carried

\* A live commit: somebody else has committed since the candidate was begun.
FindsConflict(what, cmd, mode) ==
  /\ \E q \in InPieces("conflict", "rest of conflict", cmd) :
       Took(what, q, [box EXCEPT !.mode = "conflict", !.back = mode, !.cmd = cmd])
  /\ UNCHANGED carried

WantsPassword(what, cmd, mode) ==
  /\ Took(what, <<Token("password", cmd)>>,
          [box EXCEPT !.mode = "password", !.back = mode, !.cmd = cmd])
  /\ UNCHANGED carried

Greets ==
  /\ box.mode = "login" /\ job.via # "none"
  /\ wire' = wire \o <<Output("banner"), PromptOf("cli")>>
  /\ box' = [box EXCEPT !.mode = "cli"]
  /\ UNCHANGED <<job, client, typed, taken, carried>>

\* A newline, or Ctrl-U and a newline: the line typed so far is gone.
TakesNewline(l) ==
  /\ l.purpose \in {"newline", "wipe"} /\ box.mode \in {"cli", "config"}
  /\ Took(box.mode, <<PromptOf("cli")>>, [box EXCEPT !.keys = ""])
  /\ UNCHANGED carried

\* Keys: the box prints help for them and keeps them.
TakesKeys(l) ==
  /\ l.purpose = "keys" /\ box.mode \in {"cli", "config"}
  /\ \E t \in {Output(l.cmd), Error(l.cmd)} :
       Took("keys", <<t>>, [box EXCEPT !.keys = l.cmd])
  /\ UNCHANGED carried

\* A line at the prompt of the CLI, after the keys typed before it.
TakesAtPrompt(l) ==
  /\ l.purpose \notin {"newline", "wipe", "keys"} /\ box.mode \in {"cli", "config"}
  /\ LET c == IF box.keys = "" THEN l.cmd ELSE box.keys
         what == IF box.keys = "" THEN "cli" ELSE "keys executed"
     IN CASE c = "shell" -> WantsPassword(what, c, "linux") \/ Refused(what, c, box.mode)
          [] c = "ncm"   -> \/ WantsPassword(what, c, "ncm") \/ Done(what, c, "ncm")
                            \/ Behaves("rejects") /\ Refused(what, c, box.mode)
          [] c = "configure" -> Done(what, c, "config") \/ Refused(what, c, box.mode)
          [] c = "end"  -> Done(what, c, "cli")
          [] c = "exit" -> Took(what, <<>>, [box EXCEPT !.mode = "closed"]) /\ UNCHANGED carried
          [] c = "page off" -> Done(what, c, "cli")
          [] c \in Uploads -> WantsPassword(what, c, "cli") \/ Refused(what, c, box.mode)
          [] c \in Commands \ Uploads ->
               \/ Asks[c] > 0 /\ AsksFirst(what, c, box.mode)
               \/ Asks[c] = 0 /\ Done(what, c, box.mode)
               \/ c \in Conflicts /\ FindsConflict(what, c, box.mode)
               \/ Refused(what, c, box.mode)
          [] OTHER -> Refused(what, c, box.mode)

\* The right password leads on; another one, or a right one now and then, is
\* answered with the question again or with the prompt.
TakesPassword(l) ==
  /\ box.mode = "password"
  /\ \/ /\ l.purpose = "secret"
        /\ IF box.back = "cli" THEN Done("password", box.cmd, "cli")
           ELSE /\ Took("password", <<PromptOf(box.back)>>, [box EXCEPT !.mode = box.back])
                /\ UNCHANGED carried
     \/ /\ l.purpose = "secret" /\ box.cmd = "ncm" => Behaves("rejects")
        /\ \/ WantsPassword("password", box.cmd, box.back)
           \/ Refused("password", box.cmd, "cli")

TakesAnswer(l) ==
  /\ box.mode = "question"
  /\ LET b == [box EXCEPT !.asks = @ - 1] IN
     \/ /\ l.purpose = "answer" /\ b.asks > 0
        /\ \E q \in Question(box.cmd) : Took("question", q, b)
        /\ UNCHANGED carried
     \/ l.purpose = "answer" /\ b.asks = 0 /\ Done("question", box.cmd, box.back)
     \/ Refused("question", box.cmd, box.back)

\* The commit is dropped, or made on top of the other's; a line that is no
\* answer is refused.
TakesChoice(l) ==
  /\ box.mode = "conflict"
  /\ CASE l.purpose = "abort"  -> /\ Took("conflict", <<PromptOf(box.back)>>, [box EXCEPT !.mode = box.back])
                                  /\ UNCHANGED carried
       [] l.purpose = "commit" -> Done("conflict", box.cmd, box.back)
       [] OTHER -> Refused("conflict", box.cmd, box.back)

TakesInLinux(l) ==
  /\ box.mode = "linux"
  /\ IF l.cmd = "exit" THEN Done("linux", "exit", "cli") ELSE Done("linux", l.cmd, "linux")

TakesInNcm(l) ==
  /\ box.mode = "ncm"
  /\ \/ l.cmd = "exit" /\ Done("ncm", l.cmd, "cli")
     \/ l.cmd # "exit" /\ Refused("ncm", l.cmd, "ncm")
     \/ /\ l.cmd # "exit"
        /\ IF l.purpose = "ncm" /\ Asks[l.cmd] > 0 THEN AsksFirst("ncm", l.cmd, "ncm")
           ELSE Done("ncm", l.cmd, "ncm")

\* A closed session takes nothing.
BoxStep ==
  \/ Greets
  \/ /\ typed # <<>>
     /\ LET l == Head(typed) IN
        \/ TakesNewline(l) \/ TakesKeys(l) \/ TakesAtPrompt(l) \/ TakesPassword(l)
        \/ TakesAnswer(l) \/ TakesChoice(l) \/ TakesInLinux(l) \/ TakesInNcm(l)

ShellNext == ClientStep \/ Nudge \/ BoxStep

\* The client goes on, and so does the box while the channel is open.
ShellFairness == WF_shellVars(ClientStep) /\ WF_shellVars(BoxStep)

-----------------------------------------------------------------------------
(* What runner.py makes of it, and parse_commit_output of a commit.        *)

\* The steps whose output the caller gets.
Reported ==
  {i \in DOMAIN client.outs : client.outs[i].line.cmd \in ToSet(job.cmds)
                               \cup (IF job.via = "config probes" THEN {"configure"} ELSE {})}

\* Fault: only the last line of a sequence is looked at.
Verdict_LastLine ==
  CASE ~client.hit -> "timeout"
    [] \E i \in Reported : /\ \A j \in Reported : j <= i
                           /\ \E t \in client.outs[i].texts : t.kind = "error" -> "error"
    [] OTHER -> "ok"

ReportHas(kind) == \E i \in Reported : \E t \in client.outs[i].texts : t.kind = kind
Verdict ==
  CASE ~client.hit -> "timeout"
    [] ReportHas("conflict") -> "conflict"
    [] ReportHas("error") -> "error"
    [] OTHER -> "ok"

-----------------------------------------------------------------------------
\* The types of the variables.
ShellTypeOK ==
  /\ job \in Calls
  /\ client.pc \in {"banner", "wait", "done"} /\ client.step \in 0..Len(Script)
  /\ client.nudges \in 0..MaxNudges /\ client.hit \in BOOLEAN
  /\ \A t \in ToSet(client.read) \cup ToSet(wire) :
       t.kind \in {"prompt", "linux", "ncm", "password", "question", "rest of question",
                   "conflict", "rest of conflict", "output", "error"}
  /\ box.mode \in {"login", "cli", "config", "password", "question", "conflict", "linux", "ncm",
                   "closed"}

\* The boxes the claims below are about: one that prints its first prompt
\* within banner_wait, or answers every nudge in the same chunk, and prints a
\* question in one piece.  On the others a stray prompt ends the wait of the
\* next command, or a question is answered twice.
Usual == job.box \cap {"nudged", "splits"} = {}

\* What each line is for.
Meant == {<<"cli", "cli">>, <<"linux", "linux">>, <<"ncm", "ncm">>, <<"answer", "question">>,
          <<"abort", "conflict">>, <<"secret", "password">>}

\* Every line reaches the shell it was typed for: a Linux command never runs
\* at the prompt of the router, an NCM command never in its configuration, and
\* the password never lands where it is echoed or executed, however late the
\* box is.  Lines that only leave a mode are harmless anywhere; and keys, on
\* any box, are "never submitted" (shell.py:450).
LinesReachTheirShell == \A t \in taken :
  /\ t[2] # "keys executed"
  /\ Usual /\ ~Behaves("rejects") /\ t[1] \in {"cli", "linux", "ncm", "answer", "abort", "secret"}
       => t \in Meant

\* run_ncm_cli "runs commands against the NCM switch's native CLI - which is
\* neither Linux nor DNOS" (cli/tools/shell.py:117).
NcmCommandsInNcm == \A t \in taken : t[1] = "ncm" => t[2] = "ncm"

\* A step that won its prompt back has the output of its own command, and
\* nothing of another (StepCapture, session.py:833).
OutputIsTheCommands ==
  Usual => \A i \in DOMAIN client.outs :
    LET s == client.outs[i] IN
    s.hit /\ s.line.purpose \in {"cli", "linux", "ncm"}
      => \A t \in s.texts : t.cmd = s.line.cmd

\* What the caller is told is ok was carried out, all of it and where it
\* should have been; and where it is told of a conflict nothing is: "we answered
\* the rebase prompt with ``abort`` so nothing was applied"
\* (commit_sequence.py:83).
OkMeansDone ==
  Usual /\ ~Behaves("rejects") /\ client.pc = "done" =>
    /\ Verdict = "ok" => \A c \in ToSet(job.cmds) :
         CASE job.via = "shell" -> <<c, "linux">> \in carried
           [] job.via = "ncm" -> <<c, "ncm">> \in carried
           [] job.via \in {"once", "raw", "confirm", "conflict", "transfer"} -> <<c, "cli">> \in carried
           [] OTHER -> TRUE
    /\ Verdict = "conflict" => \A c \in Conflicts : \A mode \in {"cli", "config"} : <<c, mode>> \notin carried

\* The Linux shell, or the NCM, has taken a command of the call.
GotIn == \E shell \in {"linux", "ncm"} : <<shell, shell>> \in taken

\* The call is over, and the box has taken all it typed.
Settled == client.pc = "done" /\ client.step # 0 /\ typed = <<>>

\* send_shell_exec: "so the channel is left on firm ground even if step 3
\* errored or timed out" (shell.py:588), step 3 being the Linux command; the
\* same of a session of the NCM that got in, and of one that typed half a line
\* or went into configuration.  However late the box is, it is at its prompt,
\* with nothing half typed, once it has taken all the lines.  Two calls have no
\* such promise: run_probes when `configure` is late, after which no `end` is
\* sent, and those whose way in failed: a challenge for the password of the
\* NCM that is late takes the `end` and `exit` of _exit_back for passwords,
\* although the channel is to be "left on firm ground even on error / timeout"
\* (shell.py:828-830).
FirmGround ==
  /\ Settled /\ Usual
  /\ \/ job.via \in {"help", "config help", "probes"}
     \/ job.via = "config probes" /\ ~Behaves("late")
     \/ job.via \in {"shell", "ncm"} /\ GotIn
  => box.mode \in {"cli", "closed"} /\ box.keys = ""

\* The call is over.
CallOver == client.pc = "done"
=============================================================================

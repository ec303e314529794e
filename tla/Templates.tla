------------------------------ MODULE Templates ------------------------------
(***************************************************************************)
(* The templates on the local disk, the configurations rendered from them   *)
(* and the deployment that reads one back: qactl/dnos/cli/core/             *)
(* jinja_store.py and the tools of cli/tools/templates.py.                  *)
(*                                                                         *)
(* Nothing is locked.  A template is written to a .tmp that is renamed; a   *)
(* rendered configuration is written in place; the script that makes the    *)
(* variables is written to a directory named after the template and the     *)
(* second, and run from there.  The commit of a deployment is in            *)
(* ConfigCandidate: here it ends when it has read its statements.           *)
(***************************************************************************)
EXTENDS Naturals, Maps

CONSTANTS
  TpCallers,   \* the calls
  TpSettings   \* what a run lets happen, see TpSettingsOK

TpTools == {"save", "delete", "rename", "get", "render", "deploy"}
TpFaults == {"script fails", "script hangs", "long output", "editor", "full"}

\* Bodies of templates: one that reads variables, one that reads none, one
\* that renders to nothing, one that does not parse, and the empty file.
Parses(body) == body \notin {"bad", "blank"}
Reads(body) == body = "loop"

\* A setting: what each call is, the templates that exist at first, the
\* faults, and a bound on the ticks of the clock.  `vars` says where a render
\* takes its variables from: a script, a YAML text, or nowhere.
TpSettingsOK == \A s \in TpSettings :
  /\ DOMAIN s.jobs \subseteq TpCallers /\ s.faults \subseteq TpFaults /\ s.ticks \in Nat
  /\ \A c \in DOMAIN s.jobs :
       /\ s.jobs[c].tool \in TpTools /\ s.jobs[c].vars \in {"script", "yaml", "none"}
       /\ s.jobs[c].over \in BOOLEAN

ASSUME TpAssumption == TpSettingsOK

VARIABLES
  tpSetting,  \* which of TpSettings this behaviour runs under
  tpNow,      \* the second the clock shows
  tpDisk,     \* the templates: of each path <<name, suffix>>, its inode
  text,       \* of each inode: the body written in it
  script,     \* of each run directory: whose script is in it
  rendered,   \* of each rendered file: what is written in it
  tpCall      \* of each call, see TpTypeOK

tpVars == <<tpSetting, tpNow, tpDisk, text, script, rendered, tpCall>>

Job(c) == tpSetting.jobs[c]
J2(name) == <<name, "j2">>
TmpOf(name) == <<name, "j2.tmp">>
Exists(p) == p \in DOMAIN tpDisk
BodyAt(p) == text[tpDisk[p]]

\* `hands`: the calls that had the file open since one had it to itself.
NoFile == [body |-> "none", of |-> "none", size |-> "none", hands |-> {}]
Emptied(hands) == [NoFile EXCEPT !.size = "blank", !.hands = hands]
NoTpCall == [pc |-> "idle", at |-> 0, inode |-> "none", body |-> "none", vars |-> "none",
             got |-> NoFile, verdict |-> "none", late |-> {}]

\* Where a render with a script runs, and the files a render writes.
RunDir(c) == <<Job(c).name, tpCall[c].at>>
AuditFile(c) == <<"rendered.cli", RunDir(c)>>
OutFile == <<"out", "file">>

WritesTo(d, f) ==
  \/ tpCall[d].pc = "write audit" /\ f = AuditFile(d)
  \/ tpCall[d].pc = "write out" /\ f = OutFile

TpInit ==
  /\ tpSetting \in TpSettings
  /\ tpNow = 1
  /\ tpDisk = [p \in {J2(n) : n \in DOMAIN tpSetting.templates} |-> p]
  /\ text = [i \in Range(tpDisk) \cup TpCallers |->
               IF i \in TpCallers THEN "blank" ELSE tpSetting.templates[i[1]]]
  /\ script = [r \in {} |-> "blank"] /\ rendered = [f \in {} |-> NoFile]
  /\ tpCall = [c \in DOMAIN tpSetting.jobs |-> NoTpCall]

TpFault(f) == f \in tpSetting.faults
TpMoves(c, next) == tpCall' = [tpCall EXCEPT ![c] = next]
TpEnds(c, v) == TpMoves(c, [tpCall[c] EXCEPT !.pc = "over", !.verdict = v])
TpGoes(c, pc) == TpMoves(c, [tpCall[c] EXCEPT !.pc = pc])
SameStore == UNCHANGED <<tpDisk, text>>
SameRuns == UNCHANGED <<script, rendered>>
SameTime == UNCHANGED <<tpSetting, tpNow>>

Other(c, tools) == {d \in DOMAIN tpCall \ {c} : Job(d).tool \in tools /\ tpCall[d].pc \notin {"idle", "over"}}

(***************************************************************************)
(* save_template                                                            *)
(***************************************************************************)
\* The body must parse, and the name be free unless overwrite is given; that
\* it is free is looked at once.
SaveCheck(c) ==
  /\ tpCall[c].pc = "idle" /\ Job(c).tool = "save"
  /\ IF Parses(Job(c).body) /\ (Exists(J2(Job(c).name)) => Job(c).over)
     THEN TpMoves(c, [tpCall[c] EXCEPT !.pc = "open", !.late = Other(c, {"save", "rename"})])
     ELSE TpEnds(c, "error")
  /\ SameStore /\ SameRuns /\ SameTime

SaveOpen(c) ==
  /\ tpCall[c].pc = "open"
  /\ LET t == TmpOf(Job(c).name)
         i == IF Exists(t) THEN tpDisk[t] ELSE c IN
     /\ tpDisk' = Put(tpDisk, t, i)
     /\ text' = [text EXCEPT ![i] = "blank"]
     /\ TpMoves(c, [tpCall[c] EXCEPT !.pc = "write", !.inode = i])
  /\ SameRuns /\ SameTime

\* From the start of the file on: what another save of the name has written
\* there may stick out behind, and a mixture is taken for one that does not
\* parse.
SaveWrite(c) ==
  /\ tpCall[c].pc = "write"
  /\ LET i == tpCall[c].inode IN
     \E body \in {Job(c).body} \cup (IF text[i] = "blank" THEN {} ELSE {"bad"}) :
       text' = [text EXCEPT ![i] = body]
  /\ TpGoes(c, "replace")
  /\ UNCHANGED tpDisk /\ SameRuns /\ SameTime

\* The .tmp may have been renamed by another save of the name.
SaveReplace(c) ==
  /\ tpCall[c].pc = "replace"
  /\ LET t == TmpOf(Job(c).name)  p == J2(Job(c).name) IN
     IF Exists(t)
     THEN /\ tpDisk' = Renamed(tpDisk, t, p)
          /\ TpGoes(c, "stat")
     ELSE UNCHANGED tpDisk /\ TpEnds(c, "raised")
  /\ UNCHANGED text /\ SameRuns /\ SameTime

\* _stat_template fails for a file that is gone by now.
StatTemplate(c) ==
  /\ tpCall[c].pc = "stat"
  /\ TpEnds(c, IF Exists(J2(IF Job(c).tool = "rename" THEN Job(c).new ELSE Job(c).name))
               THEN "ok" ELSE "raised")
  /\ SameStore /\ SameRuns /\ SameTime

(***************************************************************************)
(* delete_template, rename_template, read_template                          *)
(***************************************************************************)
DeleteCheck(c) ==
  /\ tpCall[c].pc = "idle" /\ Job(c).tool = "delete"
  /\ IF Exists(J2(Job(c).name)) THEN TpGoes(c, "unlink") ELSE TpEnds(c, "error")
  /\ SameStore /\ SameRuns /\ SameTime

Unlink(c) ==
  /\ tpCall[c].pc = "unlink"
  /\ LET p == J2(Job(c).name) IN
     IF Exists(p) THEN tpDisk' = Without(tpDisk, p) /\ TpEnds(c, "ok")
     ELSE UNCHANGED tpDisk /\ TpEnds(c, "raised")
  /\ UNCHANGED text /\ SameRuns /\ SameTime

RenameCheck(c) ==
  /\ tpCall[c].pc = "idle" /\ Job(c).tool = "rename"
  /\ IF Exists(J2(Job(c).name)) /\ ~Exists(J2(Job(c).new))
     THEN TpMoves(c, [tpCall[c] EXCEPT !.pc = "move", !.late = Other(c, {"save", "rename"})])
     ELSE TpEnds(c, "error")
  /\ SameStore /\ SameRuns /\ SameTime

Move(c) ==
  /\ tpCall[c].pc = "move"
  /\ LET p == J2(Job(c).name)  q == J2(Job(c).new) IN
     IF Exists(p)
     THEN /\ tpDisk' = Renamed(tpDisk, p, q)
          /\ TpGoes(c, "stat")
     ELSE UNCHANGED tpDisk /\ TpEnds(c, "raised")
  /\ UNCHANGED text /\ SameRuns /\ SameTime

\* exists(), and then the read: one that is deleted in between fails with an
\* error that render_config, unlike template_get, lets through.
ReadCheck(c) ==
  /\ tpCall[c].pc = "render" \/ (tpCall[c].pc = "idle" /\ Job(c).tool = "get")
  /\ IF Exists(J2(Job(c).name)) THEN TpGoes(c, "read") ELSE TpEnds(c, "error")
  /\ SameStore /\ SameRuns /\ SameTime

ReadTemplate(c) ==
  /\ tpCall[c].pc = "read"
  /\ LET p == J2(Job(c).name) IN
     IF ~Exists(p) THEN TpEnds(c, IF Job(c).tool = "get" THEN "error" ELSE "raised")
     ELSE IF ~Parses(BodyAt(p)) THEN TpEnds(c, "error")
     ELSE TpMoves(c, [tpCall[c] EXCEPT !.body = BodyAt(p),
                       !.pc = IF Job(c).tool = "get" THEN "over" ELSE "template",
                       !.verdict = IF Job(c).tool = "get" THEN "ok" ELSE "none"])
  /\ SameStore /\ SameRuns /\ SameTime

(***************************************************************************)
(* render_config                                                            *)
(***************************************************************************)
\* run_scale_script: the script is written to its directory (emptied, then
\* written), python reads it from there.
StartRender(c) ==
  /\ tpCall[c].pc = "idle" /\ Job(c).tool = "render"
  /\ IF Job(c).vars = "script"
     THEN /\ TpMoves(c, [tpCall[c] EXCEPT !.pc = "script", !.at = tpNow])
          /\ script' = Put(script, <<Job(c).name, tpNow>>, "blank")
     ELSE /\ TpMoves(c, [tpCall[c] EXCEPT !.pc = "render",
                          !.vars = IF Job(c).vars = "yaml" THEN c ELSE "none"])
          /\ UNCHANGED script
  /\ UNCHANGED rendered /\ SameStore /\ SameTime

WriteScript(c) ==
  /\ tpCall[c].pc = "script"
  /\ script' = [script EXCEPT ![RunDir(c)] = c]
  /\ TpGoes(c, "exec")
  /\ UNCHANGED rendered /\ SameStore /\ SameTime

\* What python finds in the file decides the variables; output that is cut at
\* the cap may still be a mapping, a shorter one.
Exec(c) ==
  /\ tpCall[c].pc = "exec"
  /\ \/ TpMoves(c, [tpCall[c] EXCEPT !.pc = "render", !.vars = script[RunDir(c)]])
     \/ TpFault("script fails") /\ TpEnds(c, "error")
     \/ TpFault("script hangs") /\ TpEnds(c, "error")
     \/ TpFault("long output") /\ script[RunDir(c)] # "blank" /\ TpEnds(c, "error")
     \/ TpFault("long output") /\ script[RunDir(c)] # "blank"
        /\ TpMoves(c, [tpCall[c] EXCEPT !.pc = "render", !.vars = "cut"])
  /\ SameStore /\ SameRuns /\ SameTime

\* Fault: a missing variable renders as nothing.
Undefined_Lenient(c) == FALSE

\* Without variables it is a preflight that writes nothing; a variable that
\* is missing is an error (an empty script gives a mapping with none).
Undefined(c) == Reads(tpCall[c].body) /\ tpCall[c].vars = "blank"

Render(c) ==
  /\ tpCall[c].pc = "template"
  /\ IF tpCall[c].vars = "none" THEN TpEnds(c, "preflight")
     ELSE IF Undefined(c) \/ tpCall[c].body = "nothing" THEN TpEnds(c, "error")
     ELSE TpGoes(c, IF Job(c).vars = "script" THEN "audit" ELSE "out")
  /\ SameStore /\ SameRuns /\ SameTime

\* What c writes, as much of it as `size` says.
Statements(c, f, size) ==
  [body |-> tpCall[c].body, of |-> tpCall[c].vars, size |-> size, hands |-> rendered[f].hands]

\* write_rendered_cli empties the file, also under who is writing it.
OpenOut(c) ==
  /\ tpCall[c].pc \in {"audit", "out"}
  /\ LET f == IF tpCall[c].pc = "audit" THEN AuditFile(c) ELSE OutFile IN
     rendered' = Put(rendered, f, Emptied({c} \cup {d \in DOMAIN tpCall : WritesTo(d, f)}))
  /\ TpGoes(c, IF tpCall[c].pc = "audit" THEN "write audit" ELSE "write out")
  /\ UNCHANGED script /\ SameStore /\ SameTime

\* And then it writes from its start on, over what others have written.  With
\* others at it the end may be a mixture: the longer text sticks out behind the
\* shorter one.  A write that fails is a warning: the envelope then names no
\* such file.
WriteOut(c) ==
  /\ tpCall[c].pc \in {"write audit", "write out"}
  /\ LET f == IF tpCall[c].pc = "write audit" THEN AuditFile(c) ELSE OutFile
         alone == rendered[f].hands = {c}
         Writes(size) == rendered' = [rendered EXCEPT ![f] = Statements(c, f, size)] IN
     \/ \E size \in {"whole"} \cup (IF alone THEN {} ELSE {"mixed"}) :
          /\ Writes(size)
          /\ IF f = OutFile
             THEN TpMoves(c, [tpCall[c] EXCEPT !.pc = "over", !.verdict = "ok", !.got = Statements(c, f, "whole")])
             ELSE TpGoes(c, "out")
     \/ /\ rendered[f].size \in (IF alone THEN {"blank"} ELSE {"blank", "part", "whole"})
        /\ \E size \in {"part"} \cup (IF alone THEN {} ELSE {"mixed"}) : Writes(size)
        /\ UNCHANGED tpCall
     \/ /\ TpFault("full") /\ UNCHANGED rendered
        /\ IF f = OutFile THEN TpEnds(c, "warned") ELSE TpGoes(c, "out")
  /\ UNCHANGED script /\ SameStore /\ SameTime

(***************************************************************************)
(* scale_deploy                                                             *)
(***************************************************************************)
\* The file is read once; no statements are an error.
Deploy(c) ==
  /\ tpCall[c].pc = "idle" /\ Job(c).tool = "deploy"
  /\ \E f \in DOMAIN rendered \cup {OutFile} :
       IF f \notin DOMAIN rendered \/ rendered[f].size = "blank" THEN TpEnds(c, "error")
       ELSE TpMoves(c, [tpCall[c] EXCEPT !.pc = "over", !.verdict = "ok", !.got = rendered[f],
                         !.late = {d \in DOMAIN tpCall : WritesTo(d, f)}])
  /\ SameStore /\ SameRuns /\ SameTime

TpTick ==
  /\ tpNow <= tpSetting.ticks
  /\ tpNow' = tpNow + 1
  /\ UNCHANGED <<tpSetting, tpDisk, text, script, rendered, tpCall>>

\* A template edited by hand, in place.
Editor ==
  /\ TpFault("editor")
  /\ \E p \in DOMAIN tpDisk, body \in {"blank", "bad", "loop"} :
       p[2] = "j2" /\ text' = [text EXCEPT ![tpDisk[p]] = body]
  /\ UNCHANGED <<tpSetting, tpNow, tpDisk, script, rendered, tpCall>>

TpStep(c) ==
  \/ SaveCheck(c) \/ SaveOpen(c) \/ SaveWrite(c) \/ SaveReplace(c) \/ StatTemplate(c)
  \/ DeleteCheck(c) \/ Unlink(c) \/ RenameCheck(c) \/ Move(c) \/ ReadCheck(c) \/ ReadTemplate(c)
  \/ StartRender(c) \/ WriteScript(c) \/ Exec(c) \/ Render(c) \/ OpenOut(c) \/ WriteOut(c)
  \/ Deploy(c)

TpNext == (\E c \in DOMAIN tpCall : TpStep(c)) \/ TpTick \/ Editor

TpSpec == TpInit /\ [][TpNext]_tpVars

(***************************************************************************)
(* Properties                                                               *)
(***************************************************************************)
\* The types of the variables.
TpTypeOK ==
  /\ tpNow \in Nat
  /\ Range(tpDisk) \subseteq DOMAIN text
  /\ \A f \in DOMAIN rendered : rendered[f].size \in {"blank", "part", "whole", "mixed"}
  /\ \A c \in DOMAIN tpCall :
       /\ tpCall[c].pc \in {"idle", "open", "write", "replace", "stat", "unlink", "move", "read", "template",
                            "render", "script", "exec", "audit", "out", "write audit", "write out", "over"}
       /\ tpCall[c].verdict \in {"none", "ok", "error", "raised", "preflight", "warned"}
       /\ tpCall[c].late \subseteq DOMAIN tpCall

\* Another render ran its script in the same directory.
SameRun(c) == \E d \in DOMAIN tpCall \ {c} :
  Job(d).tool = "render" /\ Job(d).vars = "script" /\ tpCall[d].at # 0 /\ RunDir(d) = RunDir(c)

\* A render that answers ok used the variables its own caller gave, whole,
\* unless another render of the template shared its second, and with it the
\* script.py of the run, or the output of the script was cut (the envelope
\* says so); and it never rendered a
\* template that reads variables without any.
RendersItsOwn == \A c \in DOMAIN tpCall :
  Job(c).tool = "render" /\ tpCall[c].verdict = "ok" =>
    /\ tpCall[c].vars = c \/ SameRun(c) \/ tpCall[c].vars = "cut"
    /\ Reads(tpCall[c].body) => tpCall[c].vars \notin {"none", "blank"}
    /\ Parses(tpCall[c].body)

\* What a deployment pushes is the whole of one render, unless a render was
\* still writing the file when it was read, or its write had failed; or two
\* renders have written the file at the same time, and it is a mixture of both.
DeploysWhole == \A c \in DOMAIN tpCall :
  Job(c).tool = "deploy" /\ tpCall[c].verdict = "ok" =>
    \/ tpCall[c].got.size = "whole" \/ tpCall[c].late # {} \/ TpFault("full")
    \/ tpCall[c].got.size = "mixed" /\ \E d, e \in tpCall[c].got.hands : d # e

\* A render is of its caller's variables, and a deployment of a whole render.
TemplatesHold == RendersItsOwn /\ DeploysWhole

\* A save without overwrite, or a rename, takes the place of no template
\* that was there when it looked: only of one that came in between.
Takes(c) == IF Job(c).tool = "rename" THEN J2(Job(c).new) ELSE J2(Job(c).name)
NothingOverwritten == \A c \in DOMAIN tpCall :
  /\ tpCall[c].pc \in {"replace", "move"} /\ tpCall'[c].pc = "stat"
  /\ Job(c).tool = "save" => ~Job(c).over
  /\ Exists(Takes(c))
  => \E d \in DOMAIN tpCall \ {c} : d \in tpCall[c].late \/ c \in tpCall[d].late
TemplatesStay == [][NothingOverwritten]_tpVars
=============================================================================

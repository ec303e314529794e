--------------------------- MODULE NetconfCandidate ---------------------------
(***************************************************************************)
(* The NETCONF tools of qactl (nc edit, apply, rollback, discard, backup,   *)
(* restore) on the candidate datastore that all sessions of a device share: *)
(* qactl/dnos/nc/core/change_ops.py, tools/lifecycle.py, tools/backup.py    *)
(* over core/netconf_rpc.py and core/backup_store.py.                       *)
(*                                                                         *)
(* Nothing locks the datastore and no call takes a lock of its own: calls   *)
(* interleave RPC by RPC.  An RPC succeeds, is refused by the device        *)
(* (RPCError), or is lost: a timeout or a closed session, whether or not    *)
(* the device acted.                                                        *)
(***************************************************************************)
EXTENDS Naturals, FiniteSets, Sequences, SequencesExt, Functions

CONSTANTS
  NcCallers,     \* processes that use the NETCONF tools
  Payloads,      \* of each: the statements its payload files hold, in order
  SectionOf,     \* the section under drivenets-top a statement belongs to
  SectionOrder,  \* the order in which a restore sends the sections
  Factory,       \* what runs at first
  Archive,       \* what the backup that exists at first holds
  NcSettings     \* what a run lets happen, see NcSettingsOK

NcTools == {"edit", "apply", "stage", "rollback", "revert", "discard", "backup",
            "restore merge", "restore replace"}
NcFaults == {"refuse", "lose"}

\* A setting: the tools each caller uses, the faults, and (a bound) the calls
\* of each caller.
NcSettingsOK == \A s \in NcSettings :
  /\ s.tools \in [NcCallers -> SUBSET NcTools] /\ s.faults \subseteq NcFaults
  /\ s.calls \in [NcCallers -> Nat]

NcStatements == (UNION {ToSet(Payloads[c]) : c \in NcCallers}) \cup Factory \cup Archive

ASSUME NcAssumption ==
  /\ NcSettingsOK
  /\ \A c \in NcCallers : Payloads[c] \in Seq(ToSet(Payloads[c])) \ {<<>>}
  /\ SectionOrder \in Seq(ToSet(SectionOrder))
  /\ SectionOf \in [NcStatements -> ToSet(SectionOrder)]
  /\ Archive # {}

VARIABLES
  ncSetting,  \* which of NcSettings this behaviour runs under
  store,      \* the device: candidate, committed configurations (newest
              \* first), and every statement that ever ran
  tarball,    \* the newest backup on the local disk
  call,       \* of each caller: its call, see NcTypeOK
  mixed       \* history: what other sessions did to the datastores between
              \* the first and the last RPC of a caller's call

ncVars == <<ncSetting, store, tarball, call, mixed>>

NcRunning == store.hist[1]

NcInit ==
  /\ ncSetting \in NcSettings
  /\ store = [cand |-> Factory, hist |-> <<Factory>>, seen |-> Factory]
  /\ tarball = Archive
  /\ call = [c \in NcCallers |->
       [pc |-> "idle", tool |-> "backup", rpcs |-> <<>>, verdict |-> "none",
        goal |-> {}, base |-> {}, told |-> FALSE, unswept |-> FALSE,
        left |-> ncSetting.calls[c]]]
  /\ mixed = [c \in NcCallers |-> {}]

-----------------------------------------------------------------------------
(* The RPCs of a call, in order.                                           *)

Rpc(do) == [do |-> do]
EditConfig(stmts) == [do |-> "edit-config", stmts |-> stmts]
ReplaceSection(s, stmts) == [do |-> "replace", section |-> s, stmts |-> stmts]

InSection(conf, s) == {x \in conf : SectionOf[x] = s}
Held(conf) == {k \in DOMAIN SectionOrder : InSection(conf, SectionOrder[k]) # {}}
SectionsOf(conf) ==
  [i \in 1 .. Cardinality(Held(conf)) |->
    SectionOrder[CHOOSE k \in Held(conf) : Cardinality({j \in Held(conf) : j < k}) + 1 = i]]

EditFromXml(c) == <<EditConfig({Payloads[c][1]}), Rpc("commit")>>
ChangeOperation(c, commits) ==
  [i \in DOMAIN Payloads[c] |-> EditConfig({Payloads[c][i]})]
  \o (IF commits THEN <<Rpc("commit")>> ELSE <<>>)
Rollback(commits) == <<Rpc("rollback")>> \o (IF commits THEN <<Rpc("commit")>> ELSE <<>>)

\* One edit-config per section of the backup, and one commit.
SectionRpcs(conf, mode) ==
  [i \in DOMAIN SectionsOf(conf) |->
    LET s == SectionsOf(conf)[i] IN
    IF mode = "replace" THEN ReplaceSection(s, InSection(conf, s)) ELSE EditConfig(InSection(conf, s))]
Restore(conf, mode) == SectionRpcs(conf, mode) \o <<Rpc("commit")>>

\* The backup is read before the session is opened.
RpcsOf(c, tool) ==
  CASE tool = "edit"     -> EditFromXml(c)
    [] tool = "apply"    -> ChangeOperation(c, TRUE)
    [] tool = "stage"    -> ChangeOperation(c, FALSE)
    [] tool = "rollback" -> Rollback(TRUE)
    [] tool = "revert"   -> Rollback(FALSE)
    [] tool = "discard"  -> <<Rpc("discard-changes")>>
    [] tool = "backup"   -> <<Rpc("get-config")>>
    [] tool = "restore merge"   -> Restore(tarball, "merge")
    [] tool = "restore replace" -> Restore(tarball, "replace")

\* What the call is to bring about.
GoalOf(c, tool) ==
  CASE tool = "edit"  -> {Payloads[c][1]}
    [] tool \in {"apply", "stage"} -> ToSet(Payloads[c])
    [] tool \in {"restore merge", "restore replace"} -> tarball
    [] OTHER -> {}

-----------------------------------------------------------------------------
(* The device.                                                             *)

WithCand(conf) == [store EXCEPT !.cand = conf]

\* The configuration before the last, or the last where there is none.
Earlier == IF Len(store.hist) > 1 THEN store.hist[2] ELSE store.hist[1]

Effect(r) ==
  CASE r.do = "edit-config" -> WithCand(store.cand \cup r.stmts)
    [] r.do = "replace"  -> WithCand((store.cand \ InSection(store.cand, r.section)) \cup r.stmts)
    [] r.do = "rollback" -> WithCand(Earlier)
    [] r.do = "discard-changes" -> WithCand(NcRunning)
    [] r.do = "commit"   ->
         [cand |-> store.cand, seen |-> store.seen \cup store.cand,
          hist |-> <<store.cand>> \o SubSeq(store.hist, 1, 1)]
    [] OTHER -> store

EmptyCommit(r) == r.do = "commit" /\ store.cand = NcRunning

\* The replies the device may give to r: what it does, and what is heard.
RpcReplies(r) ==
  (IF EmptyCommit(r) THEN {[heard |-> "empty commit", store |-> store]}
   ELSE {[heard |-> "ok", store |-> Effect(r)]})
  \cup (IF "refuse" \in ncSetting.faults /\ r.do # "get-config"
        THEN {[heard |-> "rpc-error", store |-> store]} ELSE {})
  \cup (IF "lose" \in ncSetting.faults
        THEN {[heard |-> "lost", store |-> store]}
             \cup (IF EmptyCommit(r) THEN {} ELSE {[heard |-> "lost", store |-> Effect(r)]})
        ELSE {})

\* The others notice what this RPC did to the datastores.
Notice(c, r) ==
  mixed' = [d \in NcCallers |->
    IF d # c /\ call[d].pc # "idle" /\ store' # store
    THEN mixed[d] \cup {IF r.do = "commit" THEN "commit"
                        ELSE IF r.do = "edit-config" THEN "edit" ELSE "load"}
    ELSE mixed[d]]

-----------------------------------------------------------------------------
(* A call: connect, the RPCs, and the session is closed whatever happens.  *)

NcStart(c, tool) ==
  /\ call[c].pc = "idle" /\ call[c].left > 0
  /\ call' = [call EXCEPT ![c] =
       [@ EXCEPT !.pc = "connect", !.tool = tool, !.rpcs = RpcsOf(c, tool),
                 !.verdict = "none", !.goal = GoalOf(c, tool), !.left = call[c].left - 1]]
  /\ mixed' = [mixed EXCEPT ![c] = {}]
  /\ UNCHANGED <<ncSetting, store, tarball>>

\* Whether the answer tells the caller that statements of it may be staged.
Told(c, verdict) ==
  CASE verdict \in {"edit_error", "commit_error"} -> FALSE
    [] verdict = "ok" -> call[c].told \/ call[c].tool \in {"stage", "revert"}
    [] OTHER -> TRUE

\* unswept is history: the clean-up of a refused edit failed, of which the
\* answer says nothing.
NcReturnAs(c, verdict, unswept) ==
  call' = [call EXCEPT ![c] = [@ EXCEPT !.pc = "idle", !.rpcs = <<>>, !.verdict = verdict,
                                        !.goal = {}, !.base = {},
                                        !.told = Told(c, verdict), !.unswept = unswept]]

NcReturn(c, verdict) == NcReturnAs(c, verdict, call[c].unswept)

\* The session opens on a device with a candidate, or the call ends.
NcConnect(c) ==
  /\ call[c].pc = "connect"
  /\ \/ call' = [call EXCEPT ![c].pc = "open", ![c].base = NcRunning]
     \/ "lose" \in ncSetting.faults /\ NcReturn(c, "error")
  /\ UNCHANGED <<ncSetting, store, tarball, mixed>>

\* Fault: every error of a commit passes for an empty one.
TryCommit_Lenient(heard) == heard \in {"ok", "empty commit", "rpc-error"}

\* An empty commit is as good as one, except for edit_from_xml.
TryCommit(heard) == heard \in {"ok", "empty commit"}

Succeeded(c, heard) == IF call[c].tool = "edit" THEN heard = "ok" ELSE TryCommit(heard)

\* edit_from_xml discards the candidate after an RPCError, of its edit or of
\* its commit, and after nothing else.
Discards(c, heard) == call[c].tool = "edit" /\ heard \in {"rpc-error", "empty commit"}

RefusedAs(r) == IF r.do = "commit" THEN "commit_error" ELSE "edit_error"

\* get-config of the running datastore; an empty one is not backed up.
Pull == NcRunning

\* The next RPC of the call, and what the tool does with the reply.
NcCall(c) ==
  /\ call[c].pc = "open"
  /\ LET r == Head(call[c].rpcs) rest == Tail(call[c].rpcs) IN
     \E reply \in RpcReplies(r) :
       /\ store' = reply.store
       /\ Notice(c, r)
       /\ CASE Discards(c, reply.heard) ->
                 call' = [call EXCEPT ![c].pc = "cleanup", ![c].verdict = RefusedAs(r)]
            [] ~Discards(c, reply.heard) /\ ~Succeeded(c, reply.heard) -> NcReturn(c, "error")
            [] Succeeded(c, reply.heard) /\ rest # <<>> ->
                 call' = [call EXCEPT ![c].rpcs = rest]
            [] OTHER -> NcReturn(c, IF r.do = "get-config" /\ Pull = {} THEN "error" ELSE "ok")
       /\ tarball' = IF r.do = "get-config" /\ reply.heard = "ok" /\ Pull # {}
                     THEN Pull ELSE tarball
  /\ UNCHANGED ncSetting

\* Fault: the session is closed without a word to the device, as if that
\* emptied the candidate.
NcDiscard_Closes(c) ==
  /\ call[c].pc = "cleanup"
  /\ NcReturnAs(c, call[c].verdict, FALSE)
  /\ UNCHANGED <<ncSetting, store, tarball, mixed>>

\* discard_changes after a refusal.  Its own failure is swallowed: the answer
\* is the same edit_error or commit_error.
NcDiscard(c) ==
  /\ call[c].pc = "cleanup"
  /\ \E reply \in RpcReplies(Rpc("discard-changes")) :
       /\ store' = reply.store
       /\ NcReturnAs(c, call[c].verdict, reply.heard # "ok")
  /\ Notice(c, Rpc("discard-changes"))
  /\ UNCHANGED <<ncSetting, tarball>>

NcProgress(c) == NcConnect(c) \/ NcCall(c) \/ NcDiscard(c)

NcNext == \E c \in NcCallers : NcProgress(c) \/ \E t \in ncSetting.tools[c] : NcStart(c, t)

\* ncclient waits for a reply no longer than its timeout.
NcFairness == \A c \in NcCallers : WF_ncVars(NcProgress(c))

-----------------------------------------------------------------------------
NcVerdicts == {"none", "ok", "error", "edit_error", "commit_error"}

\* The types of the variables.
NcTypeOK ==
  /\ store.cand \subseteq NcStatements /\ store.seen \subseteq NcStatements
  /\ Len(store.hist) \in {1, 2} /\ \A conf \in ToSet(store.hist) : conf \subseteq store.seen
  /\ tarball \subseteq NcStatements /\ tarball # {}
  /\ \A c \in NcCallers :
       /\ call[c].pc \in {"idle", "connect", "open", "cleanup"}
       /\ call[c].tool \in NcTools /\ call[c].verdict \in NcVerdicts
       /\ (call[c].pc = "open") => call[c].rpcs # <<>>
       /\ mixed[c] \subseteq {"commit", "edit", "load"}

NcReturns(c) == call[c].pc # "idle" /\ call'[c].pc = "idle"

\* A statement of c that runs now may have lain in the candidate with c's
\* knowledge: c is at it, or was told by its last answer that it may.
Vouches(c, x) == x \in ToSet(Payloads[c]) /\ (call[c].pc # "idle" \/ call[c].told)

\* What edit_from_xml reports as refused stays out of the configuration: it is
\* not running (unless another session committed it meanwhile), and no later
\* commit slips it in, unless the discard-changes after the refusal failed,
\* which nobody is told (`unswept`, change_ops.py:265-309): with that the
\* device is not "left clean", as nc/tools/rw.py:175 has it, and without the
\* excuse this does not hold.  A commit applies, besides its own, only
\* statements that somebody is staging, or was told may be staged.
RefusedStaysOut ==
  [][/\ \A c \in NcCallers :
          NcReturns(c) /\ call'[c].verdict \in {"edit_error", "commit_error"} /\ "commit" \notin mixed[c]
          => store'.hist[1] = call[c].base
     /\ \A x \in store'.seen \ store.seen : x \in Archive \/
          \E c \in NcCallers : Vouches(c, x) \/ (x \in ToSet(Payloads[c]) /\ call[c].unswept)]_ncVars

\* A call that answers ok and was to commit has its statements running, unless
\* another session emptied or reloaded the candidate under it: a lost or
\* refused RPC never passes for a success.  A restore with mode replace leaves
\* every section of the backup as it was backed up, and the others alone, when
\* nobody else was at it.
NcOkDelivers ==
  [][\A c \in NcCallers :
       /\ NcReturns(c) /\ call'[c].verdict = "ok" /\ "load" \notin mixed[c]
       /\ call[c].tool \notin {"stage", "revert", "backup", "discard"}
       => /\ call[c].goal \subseteq store'.hist[1]
          /\ call[c].tool = "restore replace" /\ mixed[c] = {} =>
               \A x \in ToSet(SectionsOf(call[c].goal)) :
                 InSection(store'.hist[1], x) = InSection(call[c].goal, x)]_ncVars

\* No call goes on.
NcNoCall == \A c \in NcCallers : call[c].pc = "idle"
=============================================================================

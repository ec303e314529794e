---------------------------- MODULE MC_Candidates ----------------------------
(* The configurations that several callers edit: the two candidates of a    *)
(* device, of the configure-mode tools (ConfigCandidate) and of the NETCONF *)
(* tools (NetconfCandidate), and the configuration of an IxNetwork session  *)
(* (IxiaConfig).  A behaviour exercises one of the three, `part`; the       *)
(* others have no calls.                                                    *)
EXTENDS MC_ConfigCandidate, MC_IxiaConfig, Candidates

CONSTANTS eve, fay, n1, n2, n3, n4

\* eve's edits come in two files, fay's in one; fay's statement ran when the
\* backup was made.
NcBatches == (eve :> <<n1, n2>>) @@ (fay :> <<n3>>)
NcSections == (n1 :> "system") @@ (n2 :> "protocols") @@ (n3 :> "system") @@ (n4 :> "protocols")
NcOrder == <<"system", "protocols">>
NcFactory == {n4}
NcArchive == {n3, n4}

NcRun(t, f, n) == [tools |-> t, faults |-> f, calls |-> n]
NcIdle == NcRun([c \in NcCallers |-> {}], {}, [c \in NcCallers |-> 0])

\* Every tool of eve against two calls of fay; and faults, and leftovers of
\* an earlier call.
NcEverySetting ==
  {NcIdle,
   NcRun((eve :> NcTools) @@ (fay :> {"edit", "stage", "discard", "restore replace"}), {},
         (eve :> 1) @@ (fay :> 2)),
   NcRun((eve :> {"edit", "apply", "restore merge"})
         @@ (fay :> {"edit", "stage", "rollback", "revert"}), {"lose", "refuse"},
         (eve :> 2) @@ (fay :> 1))}

CliIdle == Setting(EveryTool, {}, 0)

CliEverySetting == EverySetting \cup {CliIdle}

VARIABLE part

allVars == <<vars, ncVars, ixVars, part>>

CandidatesInit ==
  /\ part \in {"cli", "netconf", "ixia"}
  /\ Init /\ NcInit /\ IxInit
  /\ (part = "cli") = (setting # CliIdle)
  /\ (part = "netconf") = (ncSetting # NcIdle)
  /\ (part = "ixia") = (ixOf # IxNone)
  /\ part # "ixia" => dgUp = {} /\ port = "up"

CandidatesNext ==
  \/ part = "cli" /\ Next /\ UNCHANGED <<ncVars, ixVars, part>>
  \/ part = "netconf" /\ NcNext /\ UNCHANGED <<vars, ixVars, part>>
  \/ part = "ixia" /\ IxNext /\ UNCHANGED <<vars, ncVars, part>>
  \/ part = "netconf" /\ NcNoCall /\ UNCHANGED allVars
  \/ part = "ixia" /\ IxQuiet /\ UNCHANGED allVars

CandidatesFairness ==
  /\ \A c \in Clients : WF_vars(Step(c) /\ UNCHANGED setting)
  /\ NcFairness
  /\ IxFairness

CandidatesSpec == CandidatesInit /\ [][CandidatesNext]_allVars /\ CandidatesFairness

\* The types of the variables.
TypesOK == TypeOK /\ NcTypeOK /\ IxTypeOK

\* Every call returns: each of the configure-mode tools gets its lock, its
\* cleanup runs under the lock the call holds already, every RPC ends, and no
\* Ixia tool waits for a lock that is not given back.
EveryCallReturns == []<>(NoCall /\ NcNoCall /\ IxQuiet)
=============================================================================

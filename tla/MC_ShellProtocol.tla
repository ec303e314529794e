--------------------------- MODULE MC_ShellProtocol ---------------------------
(* ShellProtocol with calls of one or two commands on boxes of every kind.  *)
EXTENDS ShellProtocol, TLC

\* show asks nothing, load asks once, wipeout twice, upload wants a password,
\* and commit may find that somebody else has committed.
TwiceAsking == ("show" :> 0) @@ ("load" :> 1) @@ ("wipeout" :> 2) @@ ("upload" :> 0) @@ ("commit" :> 0)
Transfers == {"upload"}
LiveCommits == {"commit"}

Call(via, cmds, behaviour) == [via |-> via, cmds |-> cmds, box |-> behaviour]

Behaviours == {{}, {"late"}, {"nudged"}, {"splits"}}

EveryCall ==
  {Call(v, cs, b) : v \in {"once", "help", "config help", "shell"},
                    cs \in {<<"show">>, <<"load">>}, b \in Behaviours}
  \cup {Call("raw", cs, b) : cs \in {<<"show", "load">>, <<"load", "show">>}, b \in Behaviours}
  \cup {Call("confirm", cs, b) : cs \in {<<"wipeout", "show">>, <<"show", "load">>}, b \in Behaviours}
  \cup {Call("conflict", cs, b) : cs \in {<<"commit", "show">>, <<"show", "commit">>, <<"load", "commit">>},
                                  b \in Behaviours}
  \cup {Call("transfer", cs, b) : cs \in {<<"upload", "show">>, <<"show", "upload">>},
                                  b \in Behaviours}
  \cup {Call(v, <<"load", "show">>, b) : v \in {"probes", "config probes"}, b \in Behaviours}
  \cup {Call("ncm", <<"load", "show">>, b) : b \in Behaviours \cup {{"late", "rejects"}}}

NcmRejected == {Call("ncm", <<"load", "show">>, {"rejects"})}

ShellSpec == ShellInit /\ [][ShellNext]_shellVars /\ ShellFairness
=============================================================================

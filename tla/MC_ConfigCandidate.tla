-------------------------- MODULE MC_ConfigCandidate --------------------------
(* ConfigCandidate for two callers; the operators below are constants'      *)
(* values, chosen in the configurations.                                    *)
EXTENDS ConfigCandidate, TLC

CONSTANTS ann, bob, s1, s2, s3, s4, theLock

\* ann stages two statements, bob one of his own.
Batches == (ann :> <<s1, s2>>) @@ (bob :> <<s3>>)

\* One process (or one daemon per key): both callers take the same lock.
SharedLock == (ann :> theLock) @@ (bob :> theLock)

EveryTool == (ann :> OpNames) @@ (bob :> OpNames)
OneChecks == (ann :> {"edit", "check"}) @@ (bob :> {"edit"})
CheckThenEdit == (ann :> {"check"}) @@ (bob :> {"edit"})
BothEdit == (ann :> {"edit"}) @@ (bob :> {"edit"})

Setting(o, f, n) == [ops |-> o, faults |-> f, calls |-> n]

\* Every reply arrives, but it may be a refusal, and others commit as well;
\* every fault, or a late or lost reply and a commit of somebody else; or no
\* fault, and all six tools.
EverySetting ==
  {Setting(OneChecks, {"reject", "invalid", "outsider"}, 2),
   Setting(OneChecks, FaultNames \ {"outsider"}, 2),
   Setting(OneChecks, {"timeout", "outsider"}, 1),
   Setting(OneChecks, {"break", "outsider"}, 1),
   Setting(EveryTool, {}, 2)}
LateDryRun == {Setting(CheckThenEdit, {"timeout"}, 1)}
BrokenEdits == {Setting(BothEdit, {"reject", "break"}, 1)}

\* The device runs s4 on top of the factory default.
Deployed == <<{s4}, {}>>
Backup == {s2}
=============================================================================

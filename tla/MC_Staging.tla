------------------------------- MODULE MC_Staging -------------------------------
(* Staging on two builds and the boxes a call may find.                      *)
EXTENDS Staging, TLC

\* Build A has every image under its version's name; B has no base OS, and the
\* name of its GI file tells no version; C is broken.
SgArtifacts ==
  ("A" :> [c \in SgParts |-> "named"])
  @@ ("B" :> [c \in SgParts |-> CASE c = "base_os" -> "missing" [] c = "dnos" -> "named" [] OTHER -> "odd"])
  @@ ("C" :> [c \in SgParts |-> IF c = "dnos" THEN "broken" ELSE "named"])

SgBox(v) == [c \in SgParts |-> v]
SgFile(b) == [part |-> "dnos", build |-> b]
SgChecked(s) == <<[by |-> 0, stack |-> s, at |-> "succeeded"]>>
SgBare == [stack |-> SgBox(SgAbsent), files |-> {}, pulling |-> SgNothing, tasks |-> <<>>]
SgUsed == [SgBare EXCEPT !.stack = SgBox("old"), !.tasks = SgChecked(SgBox("old"))]
\* A download was cut off, or still runs; or another build came on top.
SgCut == [SgUsed EXCEPT !.files = {SgFile("A")}]
SgBusy == [SgCut EXCEPT !.pulling = SgFile("A")]
SgOnTop == [SgUsed EXCEPT !.stack.dnos = "B", !.files = {SgFile("A"), SgFile("B")}]

LoadOf(b, cs, check) ==
  [tool |-> "load", build |-> b, comps |-> cs, confirm |-> TRUE, check |-> check, args |-> TRUE]
OnlyCheck == [LoadOf("A", {"all"}, TRUE) EXCEPT !.tool = "precheck"]
Staged(orders, box, mode, faults, n) ==
  [orders |-> orders, box |-> box, mode |-> mode, faults |-> faults, others |-> n]
SgIdle == Staged(<<>>, SgBare, "deployed", {}, 0)

\* Every call on a bare box; one image on every box, with every fault and with
\* a pre-check of somebody else; two calls that mix two builds, and two of
\* which the first may fail.
SgEverySetting ==
  {SgIdle}
  \cup {Staged(<<o>>, SgBare, m, {"artifact", "probe"}, 0) : m \in {"deployed", "gi"}, o \in
          {LoadOf(b, cs, k) : b \in {"A", "B", "C"}, k \in BOOLEAN, cs \in {{"all"}, {"gi"}, {"base_os", "dnos"}, {}, {"os"}}}
          \cup {[a EXCEPT ![f] = FALSE] : a \in {LoadOf("A", {"all"}, TRUE), OnlyCheck}, f \in {"confirm", "args"}}}
  \cup {Staged(<<LoadOf("A", {"dnos"}, k)>>, b, "deployed", f, 1) : k \in BOOLEAN,
          b \in {SgUsed, SgCut, SgBusy, SgOnTop},
          f \in {{"late", "drop"}, {"error", "download"}, {"probe", "drop", "download"}}}
  \cup {Staged(<<LoadOf("B", {"dnos", "gi"}, TRUE)>>, b, "deployed", {}, 2) : b \in {SgUsed, SgBusy, SgOnTop}}
  \cup {Staged(<<LoadOf("B", {"dnos"}, FALSE), LoadOf("A", {"base_os"}, TRUE)>>, b, "deployed", {"late"}, 1) :
          b \in {SgUsed, SgBusy}}
  \cup {Staged(<<OnlyCheck, OnlyCheck>>, SgUsed, "deployed", {"late"}, 1),
        Staged(<<OnlyCheck>>, SgUsed, "deployed", {"late", "drop", "probe"}, 2)}
=============================================================================

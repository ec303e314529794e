---------------------------- MODULE ConfigPromise ----------------------------
(***************************************************************************)
(* What the configure-mode tools of qactl promise about one device: every   *)
(* commit applies the whole effect of one call to the configuration that    *)
(* was running, and nothing else.                                           *)
(***************************************************************************)
EXTENDS Naturals, Sequences, Functions

CONSTANTS Clients,     \* callers of the configure-mode tools
          Batch,       \* the statements each of them stages, in order
          Ops,         \* the tools each of them may call
          Golden,      \* the configuration in the backup restore_device loads
          RollbackId,  \* the id rollback_config is called with
          HistMax,     \* commits the device remembers
          Before,      \* the configurations committed so far, newest first
          Outsider     \* the author of commits made outside qactl

VARIABLE hist          \* committed configurations, newest first, with authors

Statements ==
  (UNION {Range(Batch[c]) : c \in Clients}) \cup Golden \cup (UNION Range(Before))

InitHist == [i \in DOMAIN Before |-> [conf |-> Before[i], by |-> Outsider]]

Init == hist = InitHist

Running == hist[1].conf

\* The device remembers the HistMax newest commits.
Push(h, conf, who) ==
  SubSeq(<<[conf |-> conf, by |-> who]>> \o h, 1,
         IF Len(h) < HistMax THEN Len(h) + 1 ELSE HistMax)

\* The configuration a whole call of tool op by c makes out of history h;
\* factory default is the empty one.
Result(h, c, op) ==
  CASE op = "edit"     -> h[1].conf \cup Range(Batch[c])
    [] op = "lofd"     -> {}
    [] op = "restore"  -> Golden \cup Range(Batch[c])
    [] op = "rollback" -> IF RollbackId < Len(h) THEN h[RollbackId + 1].conf
                                                  ELSE h[1].conf
    [] op \in {"check", "compare"} -> h[1].conf

Apply(c) ==
  \E op \in Ops[c] \ {"check", "compare"} : hist' = Push(hist, Result(hist, c, op), c)

\* Somebody commits outside qactl.
Elsewhere == \E conf \in SUBSET Statements : hist' = Push(hist, conf, Outsider)

Next == Elsewhere \/ \E c \in Clients : Apply(c)

Spec == Init /\ [][Next]_hist
=============================================================================

---------------------------- MODULE MC_TarLoadJobs ----------------------------
(* TarLoadJobs on small sets; the operators are constants' values.          *)
EXTENDS TarLoadJobs, TLC

CONSTANTS j1, j2, tar, precheck

Req(f, p) == [front |-> f, plan |-> p]

\* A load of the server, against another of its loads, one of a process of its
\* own with a pre-check, or a blocking pre-check of the command line.
MixedRequests ==
  (j1 :> {Req("server", <<tar>>), Req("detach", <<tar, precheck>>), Req("block", <<precheck>>)}) @@
  (j2 :> {Req("server", <<tar>>)})
=============================================================================

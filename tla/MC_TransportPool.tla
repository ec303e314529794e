--------------------------- MODULE MC_TransportPool ---------------------------
(* TransportPool on small sets of threads, keys and connections.            *)
EXTENDS TransportPool

\* Nobody waits for ever on the pool: a call comes back whatever others drop
\* or reap (core/session.py:525), and a dead connection leaves it.
PoolMovesOn == CallsReturn /\ DeadLeavePool
=============================================================================

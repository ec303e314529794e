--------------------------------- MODULE Maps ---------------------------------
(* Functions whose domain grows and shrinks: the map of devices, the paths   *)
(* of a directory, the files of a disk.                                      *)
EXTENDS Functions

\* f with k leading to v, and f without k.
Put(f, k, v) == [x \in DOMAIN f \cup {k} |-> IF x = k THEN v ELSE f[x]]
Without(f, k) == Restrict(f, DOMAIN f \ {k})

\* What k led to is what l leads to now, in the place of what it led to.
Renamed(f, k, l) == Put(Without(f, k), l, f[k])
=============================================================================

---------------------------- MODULE MC_DeviceMap ----------------------------
(* DeviceMap with two chassis and three names.                              *)
EXTENDS DeviceMap, TLC

CONSTANTS x, y, hx1, hx2, hy, a, b, nick, ip1, ip2

\* x has two NCCs, y has one.
TwoChassis == (x :> {hx1, hx2}) @@ (y :> {hy})

\* The chassis were named by other people than the registry.
Named == (x :> b) @@ (y :> a)

\* x is registered as a, with a nickname; b is known by its address only.
OneDevice == a :> [sns |-> {hx1}, aliases |-> {nick}, sid |-> x, mgmt0 |-> ip1]
Seeded == b :> [sns |-> {}, aliases |-> {}, sid |-> None, mgmt0 |-> ip2]

Setting(m, ops, e, v) ==
  [map |-> m, address |-> (x :> ip1) @@ (y :> ip2), ops |-> ops, edits |-> e, moves |-> v]

\* Two edits of any kind by one or two processes; or processes that use the
\* devices while their addresses move and one of them is edited.
NamesOrAddresses ==
  {Setting(OneDevice, {"add", "foreign", "refresh", "check", "rename", "alias",
                       "unalias", "remove"}, 2, 0),
   Setting(OneDevice @@ Seeded, {"add", "refresh", "rename", "verify", "connect"}, 1, 2)}
=============================================================================

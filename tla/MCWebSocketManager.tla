------------------------- MODULE MCWebSocketManager -------------------------
(* A small instance of WebSocketManager for TLC: three browsers, two       *)
(* sensors.                                                                *)
EXTENDS WebSocketManager, TLC

CONSTANTS c1, c2, c3, s1, s2

ThreeClients == {c1, c2, c3}
TwoSenders == {s1, s2}
Symmetry == Permutations(ThreeClients) \cup Permutations(TwoSenders)
=============================================================================

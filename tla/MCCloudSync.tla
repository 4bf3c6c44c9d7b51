----------------------------- MODULE MCCloudSync -----------------------------
(* Small instances of CloudSync for TLC: tasks and clients are model       *)
(* values.                                                                 *)
EXTENDS CloudSync, TLC

CONSTANTS s1, s2, l1, l2, p1, c1, c2, c3

TwoSenders == {s1, s2}
TwoLoops == {l1, l2}
OnePut == {p1}
ThreeClients == {c1, c2, c3}
=============================================================================

---------------------------- MODULE MCOrchestrator ----------------------------
(* Small instances of Orchestrator for TLC: requests, driver objects and   *)
(* the contents of a row are model values.                                 *)
EXTENDS Orchestrator, TLC

CONSTANTS r1, r2, d1, d2, d3, d4, c1, c2, bad, f1, f2, t1

OneRequest == {r1}
TwoRequests == {r1, r2}
TwoDrivers == {d1, d2}
ThreeDrivers == {d1, d2, d3}
FourDrivers == {d1, d2, d3, d4}
OneConf == {c1}
TwoConfs == {c1, c2}
NoBad == {}
BadConf == {bad}
AllConfs == {c1, c2, bad}
OneFormula == {f1}
TwoFormulas == {f1, f2}
OneTwin == {t1}

Symmetry == Permutations(Requests) \cup Permutations(Drivers) \cup Permutations(Formulas)
                \cup Permutations(Confs \ BadConfs)
=============================================================================

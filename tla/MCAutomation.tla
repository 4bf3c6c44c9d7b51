---------------------------- MODULE MCAutomation ----------------------------
(* Small values of the constants of Automation.                            *)
EXTENDS Automation

CONSTANTS a, b, r1, r2

TwoSensors == {a, b}
TwoRules == {r1, r2}
=============================================================================

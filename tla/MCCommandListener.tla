------------------------- MODULE MCCommandListener -------------------------
(* Small values of the constants of CommandListener.                       *)
EXTENDS CommandListener

CONSTANTS m, c

OneMqtt == {m}
OneCan == {c}
=============================================================================

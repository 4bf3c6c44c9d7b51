---------------------------- MODULE ModbusReadings ----------------------------
(***************************************************************************)
(* ModbusBus with the registers of its sensors: a reading takes as many    *)
(* transactions as RegisterBlocks cuts the list of registers into.         *)
(***************************************************************************)
EXTENDS ModbusBus, RegisterBlocks

CONSTANT RegistersOf   \* ModbusDriver._registers

(* A sensor without a list is read in one transaction, by read()           *)
(* (base.py:257-260).                                                      *)
ASSUME BlocksAssumption ==
    /\ RegistersOf \in [Drivers -> RegisterMaps]
    /\ \A d \in Drivers :
          Blocks[d] = IF RegistersOf[d] = <<>> THEN 1 ELSE Transactions(RegistersOf[d])

(* The lists of registers do not change while the drivers run: what        *)
(* RegisterBlocks claims of every list is looked at once, at the start.    *)

(* Every register is decoded from its own words (EveryListDecoded).        *)
RegistersDecoded == Init => EveryListDecoded

(* No list takes more transactions than its gaps demand (EveryListMinimal).*)
BlocksMinimal == Init => EveryListMinimal
=============================================================================

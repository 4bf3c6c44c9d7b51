----------------------------- MODULE MCModbusBus -----------------------------
(* A small instance of ModbusReadings for TLC: one sensor with a single    *)
(* register and no list, one whose registers take two transactions; and    *)
(* the lists of registers that RegisterBlocks is checked for.              *)
EXTENDS ModbusReadings

CONSTANTS d1, d2, w1, c1, c2, c3, c4

TwoDrivers == {d1, d2}
OneWriter == {w1}
FourClients == {c1, c2, c3, c4}

(* Every list of up to three registers at the addresses 0 to 4.            *)
Registers == [type : {"holding", "coil"}, address : 0..4, count : 1..3]
ShortMaps == BoundedSeq(Registers, 3)

Holding(address) == [type |-> "holding", address |-> address, count |-> 1]

OneAndTwo == d1 :> 1 @@ d2 :> 2
AcrossAGap == d1 :> <<>> @@ d2 :> <<Holding(0), Holding(4)>>
=============================================================================

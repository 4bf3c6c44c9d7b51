---------------------------- MODULE MCBufferQueue ----------------------------
(* Small instances of BufferQueue for TLC.                                 *)
EXTENDS BufferQueue, TLC

(* Two readings of one sensor and, between them in time, one of another.   *)
ThreeReadings == {1, 2, 3}
ThreeSensors == 1 :> "a" @@ 2 :> "b" @@ 3 :> "a"
ThreeTimestamps == [r \in ThreeReadings |-> r]

(* Two readings of one sensor.                                             *)
TwoReadings == {1, 2}
TwoSensors == [r \in TwoReadings |-> "a"]
TwoTimestamps == [r \in TwoReadings |-> r]
=============================================================================

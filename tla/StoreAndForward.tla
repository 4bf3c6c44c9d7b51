--------------------------- MODULE StoreAndForward ---------------------------
(***************************************************************************)
(* What the store-and-forward queue of backend/app/services/buffer.py      *)
(* promises its callers, without saying how: a reading the queue has       *)
(* accepted is either held on the gateway's disk or already in InfluxDB,   *)
(* and it leaves the disk only once it is in InfluxDB.                     *)
(*                                                                         *)
(* A reading that was never acknowledged (the write timed out, the task    *)
(* was cancelled) may still end up on disk or in InfluxDB: the promise     *)
(* says nothing about it beyond that.                                      *)
(***************************************************************************)
CONSTANT Readings

VARIABLES accepted,   \* readings for which add() returned True
          held,       \* readings in a row of sensor_readings not marked synced
          delivered   \* readings present in InfluxDB

vars == <<accepted, held, delivered>>

Init ==
    /\ accepted = {}
    /\ held = {}
    /\ delivered = {}

(* A reading reaches the gateway's disk or InfluxDB.                       *)
Arrive(r) ==
    \/ /\ held' = held \cup {r}
       /\ UNCHANGED delivered
    \/ /\ delivered' = delivered \cup {r}
       /\ UNCHANGED held

(* The caller is told the reading is safe, in the step that makes it so.   *)
Accept(r) ==
    /\ r \notin accepted
    /\ accepted' = accepted \cup {r}
    /\ Arrive(r)

(* The reading is saved but nobody is told.                                *)
ArriveUnacknowledged(r) ==
    /\ r \notin accepted
    /\ Arrive(r)
    /\ UNCHANGED accepted

(* Some of the held readings are copied to InfluxDB.                       *)
Deliver ==
    /\ \E S \in SUBSET held : delivered' = delivered \cup S
    /\ UNCHANGED <<accepted, held>>

(* Some of the held readings are let go of: only delivered ones.           *)
Release ==
    /\ \E S \in SUBSET (held \cap delivered) : held' = held \ S
    /\ UNCHANGED <<accepted, delivered>>

Next ==
    \/ \E r \in Readings : Accept(r) \/ ArriveUnacknowledged(r)
    \/ Deliver
    \/ Release

Spec == Init /\ [][Next]_vars
=============================================================================

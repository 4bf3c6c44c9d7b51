-------------------------- MODULE BufferQueueProofs --------------------------
(***************************************************************************)
(* What BufferQueue guarantees for every set of readings, every number of  *)
(* concurrent flushes, every batch size and any number of faults, outages  *)
(* and restarts.                                                           *)
(***************************************************************************)
EXTENDS BufferQueue, TLAPS

Used(id) == table[id].status # "none"

(* A flush that has not read the table yet, or has returned, has no rows.  *)
BatchClear == \A f \in Flushers : flush[f] \in {"idle", "select"} => batch[f] = {}

(* A row that is in use holds a reading whose add() has begun.             *)
RowsAdded ==
    \A id \in Ids : Used(id) => /\ table[id].reading \in Readings
                                /\ add[table[id].reading] # "new"

(* The rows a flush has read are still there and still hold what it read.  *)
BatchRows ==
    \A f \in Flushers : \A b \in batch[f] : Used(b.id) /\ table[b.id].reading = b.reading

(* When clean-up may run there is one flush at a time, and its rows wait.  *)
OneFlusher ==
    /\ flush["loop"] # "idle" => phase = "up"
    /\ flush["stop"] # "idle" => phase = "stopping"
    /\ CleanupScheduled =>
          \A f \in Flushers : \A b \in batch[f] : table[b.id].status = "unsynced"

(* A flush marks its rows only after InfluxDB has their readings.          *)
WrittenBeforeMark ==
    \A f \in Flushers : flush[f] = "mark" => \A b \in batch[f] : b.reading \in influx

(* While a reading is being added no later one of its sensor has begun.    *)
OneAtATime ==
    \A q, r \in Readings :
        add[q] \in InFlight /\ SameSensor(q, r) /\ Older(q, r) => add[r] = "new"

(* What a flush has read is a prefix of what waits, sensor by sensor.      *)
BatchPrefix ==
    \A f \in Flushers : flush[f] = "fetched" =>
        \A b \in batch[f], id \in UnsyncedIds :
            SameSensor(table[id].reading, b.reading) /\ Older(table[id].reading, b.reading)
            => \/ table[id].reading \in influx
               \/ \E c \in batch[f] : c.reading = table[id].reading

TypeInv == TypeOK /\ BatchClear /\ RowsAdded

FlowInv == BatchRows /\ OneFlusher /\ WrittenBeforeMark /\ SyncedDelivered /\ NoLoss

OrderInv == OneAtATime /\ BatchPrefix

-----------------------------------------------------------------------------
(* The operators.                                                          *)

(* A new row goes to a number no row has, and changes no other row.        *)
LEMMA InsertRowEffect ==
    ASSUME TypeOK, NEW r \in Readings, InsertRow(r)
    PROVE  \E id \in Ids :
              /\ table[id].status = "none"
              /\ table'[id] = [status |-> "unsynced", reading |-> r]
              /\ \A j \in Ids \ {id} : table'[j] = table[j]
              /\ table' \in [Ids -> Row]
<1>1. PICK id \in Ids :
         /\ NextId(id)
         /\ table' = [table EXCEPT ![id] = [status |-> "unsynced", reading |-> r]]
      BY DEF InsertRow
<1>2. table[id].status = "none"
      BY <1>1 DEF NextId, Ids
<1>3. [status |-> "unsynced", reading |-> r] \in Row
      BY DEF Row, Statuses
<1>4. QED  BY <1>1, <1>2, <1>3 DEF TypeOK

(* The UPDATE keeps every row and every reading, and turns exactly the     *)
(* rows that were read into synced ones.                                   *)
LEMMA MarkSyncedEffect ==
    ASSUME TypeOK, NEW f \in Flushers, table' = MarkSynced(f)
    PROVE  /\ table' \in [Ids -> Row]
           /\ \A id \in Ids :
                 /\ table'[id].reading = table[id].reading
                 /\ Used(id)' <=> Used(id)
                 /\ table'[id].status = "synced" =>
                       \/ table[id].status = "synced"
                       \/ \E b \in batch[f] : b.id = id
                 /\ table'[id].status = "unsynced" =>
                       /\ table[id].status = "unsynced"
                       /\ ~ \E b \in batch[f] : b.id = id
                 /\ table[id].status = "unsynced" =>
                       \/ table'[id].status = "unsynced"
                       \/ \E b \in batch[f] : b.id = id
<1>1. \A id \in Ids :
         table'[id] = IF id \in IdsIn(batch[f]) /\ table[id].status # "none"
                      THEN [table[id] EXCEPT !.status = "synced"] ELSE table[id]
      BY DEF MarkSynced
<1>2. \A id \in Ids : table[id] \in Row
      BY DEF TypeOK
<1>3. \A id \in Ids : [table[id] EXCEPT !.status = "synced"] \in Row
      BY <1>2 DEF Row, Statuses
<1>4. table' \in [Ids -> Row]
      BY <1>2, <1>3 DEF MarkSynced
<1>5. ASSUME NEW id \in Ids
      PROVE  /\ table'[id].reading = table[id].reading
             /\ Used(id)' <=> Used(id)
             /\ id \in IdsIn(batch[f]) /\ Used(id) => table'[id].status = "synced"
             /\ id \notin IdsIn(batch[f]) => table'[id] = table[id]
             /\ table[id].status = "none" => table'[id] = table[id]
      BY <1>1, <1>2 DEF Row, Statuses, Used
<1>6. \A id \in Ids : id \in IdsIn(batch[f]) <=> \E b \in batch[f] : b.id = id
      BY DEF IdsIn
<1>7. QED  BY <1>4, <1>5, <1>6 DEF Used

-----------------------------------------------------------------------------
(* Type correctness.                                                       *)

LEMMA TypeInit == Init => TypeInv
<1> SUFFICES ASSUME Init PROVE TypeInv
    OBVIOUS
<1>1. EmptyRow \in Row
      BY DEF EmptyRow, Row, Statuses
<1>2. TypeOK
      BY <1>1 DEF TypeOK, Init, InFlight
<1>3. BatchClear /\ RowsAdded
      BY DEF Init, BatchClear, RowsAdded, Used, EmptyRow, Flushers
<1>4. QED  BY <1>2, <1>3 DEF TypeInv

LEMMA TypeNext == TypeInv /\ [Next]_vars => TypeInv'
<1> SUFFICES ASSUME TypeOK, BatchClear, RowsAdded, [Next]_vars PROVE TypeInv'
    BY DEF TypeInv
<1> USE DEF TypeOK, TypeInv, BatchClear, RowsAdded, Used, InFlight
<1>1. ASSUME NEW r \in Readings, BeginAdd(r) PROVE TypeInv'
      BY <1>1 DEF BeginAdd
<1>2. ASSUME NEW r \in Readings, DirectOk(r) PROVE TypeInv'
      BY <1>2 DEF DirectOk
<1>3. ASSUME NEW r \in Readings, DirectFail(r) PROVE TypeInv'
  <2>1. faults' \in Nat
        BY <1>3 DEF DirectFail, WriteFails
  <2>2. influx' \in SUBSET Readings
        BY <1>3 DEF DirectFail, WriteFails
  <2>3. add' \in [Readings -> {"new", "accepted", "rejected", "cancelled"} \cup InFlight]
        BY <1>3 DEF DirectFail
  <2>4. BatchClear' /\ RowsAdded'
        BY <1>3 DEF DirectFail
  <2>5. QED  BY <1>3, <2>1, <2>2, <2>3, <2>4 DEF DirectFail
<1>4. ASSUME NEW r \in Readings, add[r] \in InFlight, InsertRow(r),
             add' \in {[add EXCEPT ![r] = "accepted"], [add EXCEPT ![r] = "cancelled"]},
             UNCHANGED <<phase, connected, cloudAvailable, flush, batch,
                         influx, serverUp, faults, outages, restarts>>
      PROVE  TypeInv'
  <2>1. table' \in [Ids -> Row]
        BY <1>4, InsertRowEffect
  <2>2. PICK id \in Ids :
           /\ table'[id] = [status |-> "unsynced", reading |-> r]
           /\ \A j \in Ids \ {id} : table'[j] = table[j]
        BY <1>4, InsertRowEffect
  <2>3. add'[r] # "new" /\ \A q \in Readings \ {r} : add'[q] = add[q]
        BY <1>4
  <2>4. RowsAdded'
        BY <2>2, <2>3
  <2>5. QED  BY <1>4, <2>1, <2>4
<1>5. ASSUME NEW r \in Readings, StoreOk(r) PROVE TypeInv'
      BY <1>4, <1>5 DEF StoreOk
<1>6. ASSUME NEW r \in Readings, StoreFail(r) PROVE TypeInv'
      BY <1>6 DEF StoreFail, DatabaseFails
<1>7. ASSUME NEW r \in Readings, CancelAdd(r) PROVE TypeInv'
  <2>1. CASE InsertRow(r) /\ UNCHANGED influx
        BY <1>4, <1>7, <2>1 DEF CancelAdd
  <2>2. CASE UNCHANGED table
        BY <1>7, <2>2 DEF CancelAdd
  <2>3. QED  BY <1>7, <2>1, <2>2 DEF CancelAdd
<1>8. ASSUME NEW f \in Flushers, FlushBegin(f) \/ FlushNotConnected(f) PROVE TypeInv'
      BY <1>8 DEF FlushBegin, FlushNotConnected, AfterFlush
<1>9. ASSUME NEW f \in Flushers, FlushSelect(f) PROVE TypeInv'
  <2>1. PICK S \in SUBSET UnsyncedIds :
           batch' = [batch EXCEPT ![f] =
                        {[id |-> id, reading |-> table[id].reading] : id \in S}]
        BY <1>9 DEF FlushSelect
  <2>2. {[id |-> id, reading |-> table[id].reading] : id \in S} \subseteq Item
        BY DEF UnsyncedIds, Item
  <2>3. batch' \in [Flushers -> SUBSET Item]
        BY <2>1, <2>2
  <2>4. QED  BY <1>9, <2>1, <2>3 DEF FlushSelect
<1>10. ASSUME NEW f \in Flushers, NEW available \in BOOLEAN, FlushReturns(f, available)
       PROVE  /\ phase' \in {"down", "up", "stopping", "stopped"}
              /\ flush' \in [Flushers -> {"idle", "select", "fetched", "mark"}]
              /\ batch' \in [Flushers -> SUBSET Item]
              /\ cloudAvailable' \in BOOLEAN
              /\ BatchClear'
       BY <1>10 DEF FlushReturns, AfterFlush
<1>11. ASSUME NEW f \in Flushers, FlushSelectFail(f) \/ FlushMarkFail(f) PROVE TypeInv'
  <2>0. DatabaseFails
        BY <1>11 DEF FlushSelectFail, FlushMarkFail
  <2>1. faults' \in Nat
        BY <2>0 DEF DatabaseFails
  <2>2. FlushReturns(f, FALSE)
        BY <1>11 DEF FlushSelectFail, FlushMarkFail
  <2>3. UNCHANGED <<connected, add, table, influx, serverUp, outages, restarts>>
        BY <1>11 DEF FlushSelectFail, FlushMarkFail
  <2>4. /\ phase' \in {"down", "up", "stopping", "stopped"}
        /\ flush' \in [Flushers -> {"idle", "select", "fetched", "mark"}]
        /\ batch' \in [Flushers -> SUBSET Item]
        /\ cloudAvailable' \in BOOLEAN
        /\ BatchClear'
        BY <1>10, <2>2
  <2>5. QED  BY <2>1, <2>3, <2>4
<1>12. ASSUME NEW f \in Flushers, FlushEmpty(f) PROVE TypeInv'
       BY <1>10, <1>12 DEF FlushEmpty
<1>13. ASSUME NEW f \in Flushers PROVE ReadingsIn(batch[f]) \subseteq Readings
       BY DEF ReadingsIn, Item
<1>14. ASSUME NEW f \in Flushers, FlushWriteOk(f) PROVE TypeInv'
       BY <1>13, <1>14 DEF FlushWriteOk
<1>15. ASSUME NEW f \in Flushers, FlushWriteFail(f) PROVE TypeInv'
  <2>1. influx' \in SUBSET Readings /\ faults' \in Nat
        BY <1>13, <1>15 DEF FlushWriteFail, WriteFails
  <2>2. QED  BY <1>10, <1>15, <2>1 DEF FlushWriteFail
<1>16. ASSUME NEW f \in Flushers, FlushMark(f) PROVE TypeInv'
  <2>1. table' \in [Ids -> Row] /\ RowsAdded'
        BY <1>16, MarkSyncedEffect DEF FlushMark
  <2>2. QED  BY <1>10, <1>16, <2>1 DEF FlushMark
<1>17. ASSUME CleanupSynced PROVE TypeInv'
  <2>1. EmptyRow \in Row
        BY DEF EmptyRow, Row, Statuses
  <2>2. table' \in [Ids -> Row]
        BY <1>17, <2>1 DEF CleanupSynced
  <2>3. RowsAdded'
        BY <1>17 DEF CleanupSynced, EmptyRow
  <2>4. QED  BY <1>17, <2>2, <2>3 DEF CleanupSynced
<1>18. ASSUME Boot PROVE TypeInv'
       BY <1>18 DEF Boot
<1>19. ASSUME ProcessGone, UNCHANGED <<table, influx, serverUp, faults, outages>>,
              restarts' \in Nat
       PROVE  TypeInv'
       BY <1>19 DEF ProcessGone
<1>20. ASSUME Crash \/ Exit PROVE TypeInv'
       BY <1>19, <1>20 DEF Crash, Exit
<1>21. ASSUME Stop PROVE TypeInv'
       BY <1>21 DEF Stop, Flushers
<1>22. ASSUME ServerDown \/ ServerBack PROVE TypeInv'
  <2>1. outages' \in Nat
        BY <1>22 DEF ServerDown, ServerBack
  <2>2. serverUp' \in BOOLEAN
        BY <1>22 DEF ServerDown, ServerBack
  <2>3. UNCHANGED <<phase, connected, cloudAvailable, add, flush, batch, table,
                    influx, faults, restarts>>
        BY <1>22 DEF ServerDown, ServerBack
  <2>4. QED  BY <2>1, <2>2, <2>3
<1>23. ASSUME UNCHANGED vars PROVE TypeInv'
       BY <1>23 DEF vars
<1>24. QED
  BY <1>1, <1>2, <1>3, <1>5, <1>6, <1>7, <1>8, <1>9, <1>11, <1>12, <1>14, <1>15, <1>16,
     <1>17, <1>18, <1>20, <1>21, <1>22, <1>23
     DEF Next, AddStep, FlushStep

(* Every value a variable takes is of its type, for all constants.         *)
THEOREM TypeCorrect == Spec => []TypeOK
<1>1. TypeInv => TypeOK
      BY DEF TypeInv
<1>2. QED  BY TypeInit, TypeNext, <1>1, PTL DEF Spec

-----------------------------------------------------------------------------
(* No reading is lost.                                                     *)

LEMMA HeldMeaning ==
    \A r : r \in Held <=> \E id \in Ids : table[id].status = "unsynced" /\ table[id].reading = r
BY DEF Held, UnsyncedIds

LEMMA HeldMeaningNext ==
    \A r : r \in Held' <=>
              \E id \in Ids : table'[id].status = "unsynced" /\ table'[id].reading = r
BY DEF Held, UnsyncedIds

LEMMA FlowInit == Init => FlowInv
<1> SUFFICES ASSUME Init PROVE FlowInv
    OBVIOUS
<1>1. \A f \in Flushers : flush[f] = "idle" /\ batch[f] = {}
      BY DEF Init
<1>2. BatchRows /\ OneFlusher /\ WrittenBeforeMark
      BY <1>1 DEF BatchRows, OneFlusher, WrittenBeforeMark, Flushers
<1>3. SyncedDelivered /\ NoLoss
      BY DEF Init, SyncedDelivered, NoLoss, EmptyRow
<1>4. QED  BY <1>2, <1>3 DEF FlowInv

(* Steps that change no row and no batch: InfluxDB only gains points, and  *)
(* what becomes accepted is among them.                                    *)
LEMMA FlowQuiet ==
    ASSUME FlowInv, UNCHANGED <<table, batch>>,
           influx \subseteq influx',
           \A f \in Flushers : flush'[f] = "mark" => flush[f] = "mark",
           \A r \in Readings : add'[r] = "accepted" => add[r] = "accepted" \/ r \in influx'
    PROVE  BatchRows' /\ WrittenBeforeMark' /\ SyncedDelivered' /\ NoLoss'
<1>1. BatchRows'
      BY DEF FlowInv, BatchRows, Used
<1>2. WrittenBeforeMark'
      BY DEF FlowInv, WrittenBeforeMark
<1>3. SyncedDelivered'
      BY DEF FlowInv, SyncedDelivered
<1>4. NoLoss'
  <2>1. Held' = Held
        BY DEF Held, UnsyncedIds
  <2>2. QED  BY <2>1 DEF FlowInv, NoLoss
<1>5. QED  BY <1>1, <1>2, <1>3, <1>4

(* A new row disturbs no batch, and holds the reading being acknowledged.  *)
LEMMA FlowInsert ==
    ASSUME TypeInv, FlowInv, NEW r \in Readings, InsertRow(r),
           UNCHANGED <<phase, flush, batch, influx>>,
           \A q \in Readings \ {r} : add'[q] = add[q]
    PROVE  FlowInv'
<1>1. PICK id \in Ids :
         /\ table[id].status = "none"
         /\ table'[id] = [status |-> "unsynced", reading |-> r]
         /\ \A j \in Ids \ {id} : table'[j] = table[j]
      BY InsertRowEffect DEF TypeInv
<1>2. \A f \in Flushers : \A b \in batch[f] : b.id \in Ids /\ b.id # id
      BY <1>1 DEF TypeInv, TypeOK, Item, FlowInv, BatchRows, Used
<1>3. \A f \in Flushers : \A b \in batch[f] : table'[b.id] = table[b.id]
      BY <1>1, <1>2
<1>4. BatchRows' /\ OneFlusher' /\ WrittenBeforeMark'
      BY <1>3 DEF FlowInv, BatchRows, OneFlusher, WrittenBeforeMark, Used
<1>5. SyncedDelivered'
      BY <1>1 DEF FlowInv, SyncedDelivered
<1>6. NoLoss'
  <2>1. r \in Held'
        BY <1>1, HeldMeaningNext
  <2>2. Held \subseteq Held'
        BY <1>1, HeldMeaning, HeldMeaningNext
  <2>3. QED  BY <2>1, <2>2 DEF FlowInv, NoLoss
<1>7. QED  BY <1>4, <1>5, <1>6 DEF FlowInv

(* A flush gives up its rows: whatever it learns, nothing is lost by it.   *)
LEMMA FlowReturn ==
    ASSUME TypeInv, FlowInv, NEW f \in Flushers, flush[f] # "idle",
           flush' = [flush EXCEPT ![f] = "idle"],
           batch' = [batch EXCEPT ![f] = {}],
           phase' = AfterFlush(f),
           UNCHANGED <<table, add>>, influx \subseteq influx'
    PROVE  FlowInv'
<1>1. \A g \in Flushers : batch'[g] \subseteq batch[g]
      BY DEF TypeInv, TypeOK
<1>2. \A g \in Flushers : flush'[g] # "idle" => flush'[g] = flush[g] /\ g # f
      BY DEF TypeInv, TypeOK
<1>3. BatchRows'
      BY <1>1 DEF FlowInv, BatchRows, Used
<1>4. WrittenBeforeMark'
      BY <1>1, <1>2 DEF FlowInv, WrittenBeforeMark
<1>5. OneFlusher'
  <2>1. "loop" \in Flushers /\ "stop" \in Flushers
        BY DEF Flushers
  <2>2. flush'["loop"] # "idle" => phase' = "up"
        BY <1>2, <2>1 DEF FlowInv, OneFlusher, AfterFlush
  <2>3. flush'["stop"] # "idle" => phase' = "stopping"
        BY <1>2, <2>1 DEF FlowInv, OneFlusher, AfterFlush
  <2>4. QED  BY <1>1, <2>2, <2>3 DEF FlowInv, OneFlusher
<1>6. SyncedDelivered'
      BY DEF FlowInv, SyncedDelivered
<1>7. NoLoss'
  <2>1. Held' = Held
        BY DEF Held, UnsyncedIds
  <2>2. QED  BY <2>1 DEF FlowInv, NoLoss
<1>8. QED  BY <1>3, <1>4, <1>5, <1>6, <1>7 DEF FlowInv

LEMMA FlowMark ==
    ASSUME TypeInv, FlowInv, NEW f \in Flushers, FlushMark(f)
    PROVE  FlowInv'
<1>1. /\ flush[f] = "mark" /\ table' = MarkSynced(f)
      /\ flush' = [flush EXCEPT ![f] = "idle"] /\ batch' = [batch EXCEPT ![f] = {}]
      /\ phase' = AfterFlush(f) /\ UNCHANGED <<add, influx>>
      BY DEF FlushMark, FlushReturns
<1>2. \A g \in Flushers : batch'[g] = IF g = f THEN {} ELSE batch[g]
      BY <1>1 DEF TypeInv, TypeOK
<1>3. \A g \in Flushers : flush'[g] # "idle" => flush'[g] = flush[g] /\ g # f
      BY <1>1 DEF TypeInv, TypeOK
<1>4. \A g \in Flushers : \A b \in batch[g] : b.id \in Ids
      BY DEF TypeInv, TypeOK, Item
<1>5. BatchRows'
      BY <1>1, <1>2, <1>4, MarkSyncedEffect DEF TypeInv, FlowInv, BatchRows
<1>6. WrittenBeforeMark'
      BY <1>1, <1>2, <1>3 DEF FlowInv, WrittenBeforeMark
<1>7. OneFlusher'
  <2>1. "loop" \in Flushers /\ "stop" \in Flushers
        BY DEF Flushers
  <2>2. flush'["loop"] # "idle" => phase' = "up"
        BY <1>1, <1>3, <2>1 DEF FlowInv, OneFlusher, AfterFlush
  <2>3. flush'["stop"] # "idle" => phase' = "stopping"
        BY <1>1, <1>3, <2>1 DEF FlowInv, OneFlusher, AfterFlush
  <2>4. ASSUME CleanupScheduled, NEW g \in Flushers PROVE batch'[g] = {}
    <3>1. Flushers = {"loop", "stop"}
          BY <2>4, CleanupAssumption DEF Flushers
    <3>2. CASE g = f
          BY <1>2, <3>2
    <3>3. CASE g # f
      <4>1. flush[g] = "idle"
            BY <1>1, <3>1, <3>3 DEF FlowInv, OneFlusher
      <4>2. QED  BY <1>2, <3>3, <4>1 DEF TypeInv, BatchClear
    <3>4. QED  BY <3>2, <3>3
  <2>5. QED  BY <2>2, <2>3, <2>4 DEF OneFlusher
<1>8. ASSUME NEW id \in Ids, NEW b \in batch[f], b.id = id
      PROVE  table[id].reading \in influx
      BY <1>1, <1>8 DEF FlowInv, BatchRows, WrittenBeforeMark
<1>9. SyncedDelivered'
      BY <1>1, <1>8, MarkSyncedEffect DEF TypeInv, FlowInv, SyncedDelivered
<1>10. NoLoss'
  <2>1. \A r \in Held : r \in Held' \/ r \in influx
        BY <1>1, <1>8, MarkSyncedEffect, HeldMeaning, HeldMeaningNext DEF TypeInv
  <2>2. QED  BY <1>1, <2>1 DEF FlowInv, NoLoss
<1>11. QED  BY <1>5, <1>6, <1>7, <1>9, <1>10 DEF FlowInv

(* Clean-up takes only rows no flush has read and nobody waits for.        *)
LEMMA FlowCleanup ==
    ASSUME TypeInv, FlowInv, CleanupSynced
    PROVE  FlowInv' /\ Held' = Held
<1>1. \A id \in Ids : table'[id] = IF table[id].status = "synced" THEN EmptyRow ELSE table[id]
      BY DEF CleanupSynced
<1>2. CleanupScheduled /\ UNCHANGED <<phase, add, flush, batch, influx>>
      BY DEF CleanupSynced
<1>3. EmptyRow.status = "none"
      BY DEF EmptyRow
<1>4. \A f \in Flushers : \A b \in batch[f] :
         b.id \in Ids /\ table[b.id].status = "unsynced" /\ table'[b.id] = table[b.id]
      BY <1>1, <1>2 DEF TypeInv, TypeOK, Item, FlowInv, OneFlusher
<1>5. BatchRows' /\ OneFlusher' /\ WrittenBeforeMark'
      BY <1>2, <1>4 DEF FlowInv, BatchRows, OneFlusher, WrittenBeforeMark, Used
<1>6. SyncedDelivered'
      BY <1>1, <1>2, <1>3 DEF FlowInv, SyncedDelivered
<1>7. Held' = Held
  <2>1. \A r : r \in Held' <=> r \in Held
        BY <1>1, <1>3, HeldMeaning, HeldMeaningNext
  <2>2. QED  BY <2>1 DEF Held
<1>8. NoLoss'
      BY <1>2, <1>7 DEF FlowInv, NoLoss
<1>9. QED  BY <1>5, <1>6, <1>7, <1>8 DEF FlowInv

LEMMA FlowSelect ==
    ASSUME TypeInv, FlowInv, NEW f \in Flushers, FlushSelect(f)
    PROVE  FlowInv'
<1>1. PICK S \in SUBSET UnsyncedIds :
         batch' = [batch EXCEPT ![f] = {[id |-> id, reading |-> table[id].reading] : id \in S}]
      BY DEF FlushSelect
<1>2. /\ flush[f] = "select" /\ flush' = [flush EXCEPT ![f] = "fetched"]
      /\ UNCHANGED <<phase, add, table, influx>>
      BY DEF FlushSelect
<1>3. \A g \in Flushers : \A b \in batch'[g] :
         \/ g = f /\ b.id \in UnsyncedIds /\ table[b.id].reading = b.reading
         \/ b \in batch[g]
      BY <1>1 DEF TypeInv, TypeOK
<1>4. \A g \in Flushers : g # f => batch'[g] = batch[g] /\ flush'[g] = flush[g]
      BY <1>1, <1>2 DEF TypeInv, TypeOK
<1>5. flush'[f] = "fetched"
      BY <1>2 DEF TypeInv, TypeOK
<1>6. BatchRows'
      BY <1>2, <1>3 DEF FlowInv, BatchRows, Used, UnsyncedIds
<1>7. WrittenBeforeMark'
      BY <1>2, <1>4, <1>5 DEF FlowInv, WrittenBeforeMark
<1>8. OneFlusher'
  <2>1. \A g \in Flushers : flush'[g] # "idle" => flush[g] # "idle"
        BY <1>2, <1>4
  <2>2. "loop" \in Flushers /\ "stop" \in Flushers
        BY DEF Flushers
  <2>3. QED  BY <1>2, <1>3, <2>1, <2>2 DEF FlowInv, OneFlusher, UnsyncedIds
<1>9. SyncedDelivered'
      BY <1>2 DEF FlowInv, SyncedDelivered
<1>10. NoLoss'
  <2>1. Held' = Held
        BY <1>2 DEF Held, UnsyncedIds
  <2>2. QED  BY <1>2, <2>1 DEF FlowInv, NoLoss
<1>11. QED  BY <1>6, <1>7, <1>8, <1>9, <1>10 DEF FlowInv

LEMMA FlowNext == TypeInv /\ FlowInv /\ [Next]_vars => FlowInv'
<1> SUFFICES ASSUME TypeInv, FlowInv, [Next]_vars PROVE FlowInv'
    OBVIOUS
<1>1. ASSUME UNCHANGED <<table, batch, flush, phase>>, influx \subseteq influx',
             \A r \in Readings : add'[r] = "accepted" => add[r] = "accepted" \/ r \in influx'
      PROVE  FlowInv'
  <2>1. OneFlusher'
        BY <1>1 DEF FlowInv, OneFlusher
  <2>2. QED  BY <1>1, <2>1, FlowQuiet DEF FlowInv
<1>2. ASSUME NEW r \in Readings, BeginAdd(r) PROVE FlowInv'
  <2>1. \A q \in Readings : add'[q] = "accepted" => add[q] = "accepted"
        BY <1>2 DEF BeginAdd, TypeInv, TypeOK
  <2>2. QED  BY <1>1, <1>2, <2>1 DEF BeginAdd
<1>3. ASSUME NEW r \in Readings, DirectOk(r) PROVE FlowInv'
  <2>1. \A q \in Readings : add'[q] = "accepted" => add[q] = "accepted" \/ q \in influx'
        BY <1>3 DEF DirectOk, TypeInv, TypeOK
  <2>2. QED  BY <1>1, <1>3, <2>1 DEF DirectOk
<1>4. ASSUME NEW r \in Readings, DirectFail(r) PROVE FlowInv'
  <2>1. \A q \in Readings : add'[q] = "accepted" => add[q] = "accepted"
        BY <1>4 DEF DirectFail, TypeInv, TypeOK
  <2>2. influx \subseteq influx'
        BY <1>4 DEF DirectFail, WriteFails
  <2>3. QED  BY <1>1, <1>4, <2>1, <2>2 DEF DirectFail
<1>5. ASSUME NEW r \in Readings, StoreOk(r) PROVE FlowInv'
  <2>1. \A q \in Readings \ {r} : add'[q] = add[q]
        BY <1>5 DEF StoreOk, TypeInv, TypeOK
  <2>2. QED  BY <1>5, <2>1, FlowInsert DEF StoreOk
<1>6. ASSUME NEW r \in Readings, StoreFail(r) PROVE FlowInv'
  <2>1. \A q \in Readings : add'[q] = "accepted" => add[q] = "accepted"
        BY <1>6 DEF StoreFail, TypeInv, TypeOK
  <2>2. QED  BY <1>1, <1>6, <2>1 DEF StoreFail
<1>7. ASSUME NEW r \in Readings, CancelAdd(r) PROVE FlowInv'
  <2>1. /\ \A q \in Readings : add'[q] = "accepted" => add[q] = "accepted"
        /\ \A q \in Readings \ {r} : add'[q] = add[q]
        BY <1>7 DEF CancelAdd, TypeInv, TypeOK
  <2>2. CASE UNCHANGED table
    <3>1. influx \subseteq influx'
          BY <1>7 DEF CancelAdd
    <3>2. QED  BY <1>1, <1>7, <2>1, <2>2, <3>1 DEF CancelAdd
  <2>3. CASE InsertRow(r) /\ UNCHANGED influx
        BY <1>7, <2>1, <2>3, FlowInsert DEF CancelAdd
  <2>4. QED  BY <1>7, <2>2, <2>3 DEF CancelAdd
<1>8. ASSUME NEW f \in Flushers, FlushBegin(f) PROVE FlowInv'
  <2>1. /\ UNCHANGED <<table, batch, influx, add, phase>>
        /\ flush' = [flush EXCEPT ![f] = "select"]
        /\ MayFlush(f)
        BY <1>8 DEF FlushBegin
  <2>2. \A g \in Flushers : flush'[g] # flush[g] => g = f /\ flush'[g] = "select"
        BY <2>1 DEF TypeInv, TypeOK
  <2>3. OneFlusher'
    <3>1. "loop" \in Flushers /\ "stop" \in Flushers
          BY DEF Flushers
    <3>2. flush'["loop"] # "idle" => phase' = "up"
          BY <2>1, <2>2, <3>1 DEF MayFlush, FlowInv, OneFlusher
    <3>3. flush'["stop"] # "idle" => phase' = "stopping"
          BY <2>1, <2>2, <3>1 DEF MayFlush, FlowInv, OneFlusher
    <3>4. QED  BY <2>1, <3>2, <3>3 DEF FlowInv, OneFlusher
  <2>4. QED  BY <2>1, <2>2, <2>3, FlowQuiet DEF FlowInv
<1>9. ASSUME NEW f \in Flushers, FlushNotConnected(f) PROVE FlowInv'
  <2>1. OneFlusher'
        BY <1>9 DEF FlushNotConnected, MayFlush, AfterFlush, FlowInv, OneFlusher
  <2>2. QED  BY <1>9, <2>1, FlowQuiet DEF FlushNotConnected, FlowInv
<1>10. ASSUME NEW f \in Flushers, FlushSelect(f) PROVE FlowInv'
       BY <1>10, FlowSelect
<1>11. ASSUME NEW f \in Flushers,
              FlushSelectFail(f) \/ FlushEmpty(f) \/ FlushWriteFail(f) \/ FlushMarkFail(f)
       PROVE  FlowInv'
  <2>1. flush[f] # "idle"
        BY <1>11 DEF FlushSelectFail, FlushEmpty, FlushWriteFail, FlushMarkFail
  <2>2. /\ flush' = [flush EXCEPT ![f] = "idle"]
        /\ batch' = [batch EXCEPT ![f] = {}]
        /\ phase' = AfterFlush(f)
        BY <1>11 DEF FlushSelectFail, FlushEmpty, FlushWriteFail, FlushMarkFail, FlushReturns
  <2>3. UNCHANGED <<table, add>>
        BY <1>11 DEF FlushSelectFail, FlushEmpty, FlushWriteFail, FlushMarkFail
  <2>4. influx \subseteq influx'
        BY <1>11 DEF FlushSelectFail, FlushEmpty, FlushWriteFail, FlushMarkFail, WriteFails
  <2>5. QED  BY <2>1, <2>2, <2>3, <2>4, FlowReturn
<1>12. ASSUME NEW f \in Flushers, FlushWriteOk(f) PROVE FlowInv'
  <2>1. /\ UNCHANGED <<table, batch, add, phase>>
        /\ flush[f] = "fetched" /\ flush' = [flush EXCEPT ![f] = "mark"]
        /\ influx' = influx \cup ReadingsIn(batch[f])
        BY <1>12 DEF FlushWriteOk
  <2>2. \A g \in Flushers : g # f => flush'[g] = flush[g]
        BY <2>1 DEF TypeInv, TypeOK
  <2>3. \A b \in batch[f] : b.reading \in influx'
        BY <2>1 DEF ReadingsIn
  <2>4. WrittenBeforeMark'
        BY <2>1, <2>2, <2>3 DEF FlowInv, WrittenBeforeMark
  <2>5. OneFlusher'
    <3>1. "loop" \in Flushers /\ "stop" \in Flushers
          BY DEF Flushers
    <3>2. QED  BY <2>1, <2>2, <3>1 DEF FlowInv, OneFlusher
  <2>6. BatchRows' /\ SyncedDelivered'
        BY <2>1 DEF FlowInv, BatchRows, SyncedDelivered, Used
  <2>7. NoLoss'
    <3>1. Held' = Held
          BY <2>1 DEF Held, UnsyncedIds
    <3>2. QED  BY <2>1, <3>1 DEF FlowInv, NoLoss
  <2>8. QED  BY <2>4, <2>5, <2>6, <2>7 DEF FlowInv
<1>13. ASSUME NEW f \in Flushers, FlushMark(f) PROVE FlowInv'
       BY <1>13, FlowMark
<1>14. ASSUME CleanupSynced PROVE FlowInv'
       BY <1>14, FlowCleanup
<1>15. ASSUME Boot PROVE FlowInv'
  <2>1. OneFlusher'
        BY <1>15 DEF Boot, FlowInv, OneFlusher
  <2>2. QED  BY <1>15, <2>1, FlowQuiet DEF Boot, FlowInv
<1>16. ASSUME ProcessGone, UNCHANGED <<table, influx>> PROVE FlowInv'
  <2>1. /\ \A f \in Flushers : flush'[f] = "idle" /\ batch'[f] = {}
        /\ \A r \in Readings : add'[r] = "accepted" => add[r] = "accepted"
        BY <1>16 DEF ProcessGone
  <2>2. BatchRows' /\ OneFlusher' /\ WrittenBeforeMark'
        BY <2>1 DEF BatchRows, OneFlusher, WrittenBeforeMark, Flushers
  <2>3. Held' = Held /\ SyncedDelivered'
        BY <1>16 DEF Held, UnsyncedIds, FlowInv, SyncedDelivered
  <2>4. QED  BY <1>16, <2>1, <2>2, <2>3 DEF FlowInv, NoLoss
<1>17. ASSUME Crash \/ Exit PROVE FlowInv'
       BY <1>16, <1>17 DEF Crash, Exit
<1>18. ASSUME Stop PROVE FlowInv'
  <2>1. /\ phase = "up" /\ phase' = "stopping" /\ UNCHANGED <<add, table, influx>>
        /\ flush' = [flush EXCEPT !["loop"] = "idle"]
        /\ batch' = [batch EXCEPT !["loop"] = {}]
        BY <1>18 DEF Stop
  <2>2. \A g \in Flushers : /\ batch'[g] \subseteq batch[g]
                            /\ flush'[g] = "mark" => flush[g] = "mark"
        BY <2>1 DEF TypeInv, TypeOK
  <2>3. BatchRows' /\ WrittenBeforeMark'
        BY <2>1, <2>2 DEF FlowInv, BatchRows, WrittenBeforeMark, Used
  <2>4. OneFlusher'
    <3>1. "loop" \in Flushers /\ "stop" \in Flushers
          BY DEF Flushers
    <3>2. flush'["loop"] = "idle"
          BY <2>1, <3>1 DEF TypeInv, TypeOK
    <3>3. QED  BY <2>1, <2>2, <3>2 DEF FlowInv, OneFlusher
  <2>5. Held' = Held /\ SyncedDelivered'
        BY <2>1 DEF Held, UnsyncedIds, FlowInv, SyncedDelivered
  <2>6. QED  BY <2>1, <2>3, <2>4, <2>5 DEF FlowInv, NoLoss
<1>19. ASSUME ServerDown \/ ServerBack PROVE FlowInv'
       BY <1>1, <1>19 DEF ServerDown, ServerBack
<1>20. ASSUME UNCHANGED vars PROVE FlowInv'
       BY <1>1, <1>20 DEF vars
<1>21. QED
  BY <1>2, <1>3, <1>4, <1>5, <1>6, <1>7, <1>8, <1>9, <1>10, <1>11, <1>12, <1>13, <1>14,
     <1>15, <1>17, <1>18, <1>19, <1>20
     DEF Next, AddStep, FlushStep

(* An accepted reading is in InfluxDB or in a row that waits, always: for  *)
(* every number of concurrent flushes, fault, outage, crash and restart.   *)
THEOREM NothingLost == Spec => []NoLoss
<1>1. FlowInv => NoLoss
      BY DEF FlowInv
<1>2. QED  BY TypeInit, TypeNext, FlowInit, FlowNext, <1>1, PTL DEF Spec

(* A row is marked synced only when its reading is in InfluxDB.            *)
THEOREM MarkedIsDelivered == Spec => []SyncedDelivered
<1>1. FlowInv => SyncedDelivered
      BY DEF FlowInv
<1>2. QED  BY TypeInit, TypeNext, FlowInit, FlowNext, <1>1, PTL DEF Spec

-----------------------------------------------------------------------------
(* The backlog drains oldest first.                                        *)

LEMMA OrderInit == Init => OrderInv
<1> SUFFICES ASSUME Init PROVE OrderInv
    OBVIOUS
<1>1. /\ \A f \in Flushers : flush[f] = "idle"
      /\ \A r \in Readings : add[r] = "new"
      BY DEF Init
<1>2. QED  BY <1>1 DEF OrderInv, OneAtATime, BatchPrefix, InFlight

LEMMA TimestampsAreNumbers == \A r \in Readings : Timestamp[r] \in Nat
BY ReadingsAssumption

(* Steps that start no reading leave the sensors' turns alone.             *)
LEMMA TurnsKept ==
    ASSUME OneAtATime,
           \A q \in Readings : /\ add'[q] \in InFlight => add[q] \in InFlight
                               /\ add[q] = "new" => add'[q] = "new"
    PROVE  OneAtATime'
BY DEF OneAtATime, SameSensor, Older, InFlight

(* Steps that neither fill a batch nor add a waiting row keep the prefix.  *)
LEMMA PrefixKept ==
    ASSUME TypeInv, BatchPrefix, influx \subseteq influx',
           \A f \in Flushers : flush'[f] = "fetched" =>
                                 flush[f] = "fetched" /\ batch'[f] = batch[f],
           \A id \in Ids : table'[id].status = "unsynced" =>
                             table[id].status = "unsynced" /\
                             table'[id].reading = table[id].reading
    PROVE  BatchPrefix'
<1> SUFFICES ASSUME NEW f \in Flushers, flush'[f] = "fetched",
                    NEW b \in batch'[f], NEW id \in UnsyncedIds',
                    SameSensor(table'[id].reading, b.reading), Older(table'[id].reading, b.reading)
             PROVE  \/ table'[id].reading \in influx'
                    \/ \E c \in batch'[f] : c.reading = table'[id].reading
    BY DEF BatchPrefix, SameSensor, Older
<1>1. flush[f] = "fetched" /\ b \in batch[f] /\ batch'[f] = batch[f]
      OBVIOUS
<1>2. id \in UnsyncedIds /\ table'[id].reading = table[id].reading
      BY DEF UnsyncedIds
<1>3. QED  BY <1>1, <1>2 DEF BatchPrefix

(* A new row is newer than every row of its sensor that a flush has read.  *)
LEMMA PrefixInsert ==
    ASSUME TypeInv, FlowInv, OrderInv, NEW r \in Readings, add[r] \in InFlight, InsertRow(r),
           UNCHANGED <<flush, batch, influx>>
    PROVE  BatchPrefix'
<1> SUFFICES ASSUME NEW f \in Flushers, flush'[f] = "fetched",
                    NEW b \in batch'[f], NEW id \in UnsyncedIds',
                    SameSensor(table'[id].reading, b.reading), Older(table'[id].reading, b.reading)
             PROVE  \/ table'[id].reading \in influx'
                    \/ \E c \in batch'[f] : c.reading = table'[id].reading
    BY DEF BatchPrefix, SameSensor, Older
<1>1. PICK new \in Ids :
         /\ table'[new] = [status |-> "unsynced", reading |-> r]
         /\ \A j \in Ids \ {new} : table'[j] = table[j]
      BY InsertRowEffect DEF TypeInv
<1>2. CASE id # new
  <2>1. id \in UnsyncedIds /\ table'[id] = table[id]
        BY <1>1, <1>2 DEF UnsyncedIds
  <2>2. QED  BY <2>1 DEF OrderInv, BatchPrefix
<1>3. CASE id = new
  <2>1. b \in batch[f] /\ b.id \in Ids /\ b.reading \in Readings
        BY DEF TypeInv, TypeOK, Item
  <2>2. add[b.reading] # "new"
        BY <2>1 DEF TypeInv, RowsAdded, FlowInv, BatchRows
  <2>3. SameSensor(r, b.reading) /\ Older(r, b.reading)
        BY <1>1, <1>3
  <2>4. add[b.reading] = "new"
        BY <2>1, <2>3 DEF OrderInv, OneAtATime
  <2>5. QED  BY <2>2, <2>4
<1>4. QED  BY <1>2, <1>3

(* The query returns the oldest rows, so what it leaves is not older.      *)
LEMMA PrefixSelect ==
    ASSUME TypeInv, OrderInv, NEW f \in Flushers, FlushSelect(f)
    PROVE  BatchPrefix'
<1> SUFFICES ASSUME NEW g \in Flushers, flush'[g] = "fetched",
                    NEW b \in batch'[g], NEW id \in UnsyncedIds',
                    SameSensor(table'[id].reading, b.reading), Older(table'[id].reading, b.reading)
             PROVE  \/ table'[id].reading \in influx'
                    \/ \E c \in batch'[g] : c.reading = table'[id].reading
    BY DEF BatchPrefix, SameSensor, Older
<1>1. PICK S \in SUBSET UnsyncedIds :
         /\ OldestRows(S)
         /\ batch' = [batch EXCEPT ![f] = {[id |-> i, reading |-> table[i].reading] : i \in S}]
      BY DEF FlushSelect
<1>2. /\ flush' = [flush EXCEPT ![f] = "fetched"]
      /\ UNCHANGED <<table, influx>>
      BY DEF FlushSelect
<1>3. id \in UnsyncedIds
      BY <1>2 DEF UnsyncedIds
<1>4. CASE g # f
  <2>1. flush[g] = "fetched" /\ b \in batch[g] /\ batch'[g] = batch[g]
        BY <1>1, <1>2, <1>4 DEF TypeInv, TypeOK
  <2>2. QED  BY <1>2, <1>3, <2>1 DEF OrderInv, BatchPrefix
<1>5. CASE g = f
  <2>1. batch'[f] = {[id |-> i, reading |-> table[i].reading] : i \in S}
        BY <1>1 DEF TypeInv, TypeOK
  <2>2. PICK i \in S : b.reading = table[i].reading
        BY <1>5, <2>1
  <2>3. table[i].reading \in Readings /\ table[id].reading \in Readings
        BY <1>3 DEF TypeInv, RowsAdded, UnsyncedIds, Used
  <2>4. Timestamp[table[id].reading] < Timestamp[table[i].reading]
        BY <1>2, <2>2 DEF Older
  <2>5. ~ (Timestamp[table[i].reading] <= Timestamp[table[id].reading])
        BY <2>3, <2>4, TimestampsAreNumbers
  <2>6. id \in S
        BY <1>1, <1>3, <2>5 DEF OldestRows
  <2>7. [id |-> id, reading |-> table[id].reading] \in batch'[g]
        BY <1>5, <2>1, <2>6
  <2>8. [id |-> id, reading |-> table[id].reading].reading = table'[id].reading
        BY <1>2
  <2>9. QED  BY <2>7, <2>8
<1>6. QED  BY <1>4, <1>5

LEMMA OrderNext == TypeInv /\ FlowInv /\ OrderInv /\ [Next]_vars => OrderInv'
<1> SUFFICES ASSUME TypeInv, FlowInv, OrderInv, [Next]_vars PROVE OrderInv'
    OBVIOUS
<1>1. ASSUME UNCHANGED <<flush, batch, table>>, influx \subseteq influx' PROVE BatchPrefix'
      BY <1>1, PrefixKept DEF OrderInv
<1>2. ASSUME UNCHANGED add PROVE OneAtATime'
      BY <1>2, TurnsKept DEF OrderInv
<1>3. ASSUME NEW r \in Readings, BeginAdd(r) PROVE OrderInv'
  <2>1. /\ add'[r] \in InFlight
        /\ \A q \in Readings \ {r} : add'[q] = add[q]
        BY <1>3 DEF BeginAdd, InFlight, TypeInv, TypeOK
  <2>2. \A q \in Readings \ {r} :
           SameSensor(q, r) => add[q] \notin InFlight /\ (Older(r, q) => add[q] = "new")
        BY <1>3 DEF BeginAdd, SensorsTurn
  <2>3. \A q, p \in Readings : /\ SameSensor(q, p) => SameSensor(p, q)
                               /\ ~ Older(q, q)
        BY TimestampsAreNumbers DEF SameSensor, Older
  <2>4. SUFFICES ASSUME NEW q \in Readings, NEW p \in Readings,
                        add'[q] \in InFlight, SameSensor(q, p), Older(q, p)
                 PROVE  add'[p] = "new"
    <3>1. OneAtATime'
          BY <2>4 DEF OneAtATime, SameSensor, Older
    <3>2. QED  BY <1>1, <1>3, <3>1 DEF BeginAdd, OrderInv
  <2>5. CASE q = r
        BY <2>1, <2>2, <2>3, <2>4, <2>5
  <2>6. CASE q # r
        BY <2>1, <2>2, <2>4, <2>6 DEF OrderInv, OneAtATime
  <2>7. QED  BY <2>5, <2>6
<1>4. ASSUME NEW r \in Readings, add[r] \in InFlight,
             \/ add' = [add EXCEPT ![r] = "store"]
             \/ \E s \in {"accepted", "rejected", "cancelled"} : add' = [add EXCEPT ![r] = s]
      PROVE  OneAtATime'
  <2>1. \A q \in Readings : /\ add'[q] \in InFlight => add[q] \in InFlight
                            /\ add[q] = "new" => add'[q] = "new"
        BY <1>4 DEF InFlight, TypeInv, TypeOK
  <2>2. QED  BY <2>1, TurnsKept DEF OrderInv
<1>5. ASSUME NEW r \in Readings, DirectOk(r) \/ DirectFail(r) \/ StoreFail(r) PROVE OrderInv'
  <2>1. OneAtATime'
        BY <1>4, <1>5 DEF DirectOk, DirectFail, StoreFail, InFlight
  <2>2. influx \subseteq influx' /\ UNCHANGED <<flush, batch, table>>
        BY <1>5 DEF DirectOk, DirectFail, StoreFail, WriteFails
  <2>3. QED  BY <1>1, <2>1, <2>2 DEF OrderInv
<1>6. ASSUME NEW r \in Readings, StoreOk(r) PROVE OrderInv'
  <2>1. OneAtATime'
        BY <1>4, <1>6 DEF StoreOk, InFlight
  <2>2. BatchPrefix'
        BY <1>6, PrefixInsert DEF StoreOk, InFlight
  <2>3. QED  BY <2>1, <2>2 DEF OrderInv
<1>7. ASSUME NEW r \in Readings, CancelAdd(r) PROVE OrderInv'
  <2>1. OneAtATime'
        BY <1>4, <1>7 DEF CancelAdd
  <2>2. CASE UNCHANGED table
    <3>1. influx \subseteq influx'
          BY <1>7 DEF CancelAdd
    <3>2. QED  BY <1>1, <1>7, <2>1, <2>2, <3>1 DEF CancelAdd, OrderInv
  <2>3. CASE InsertRow(r) /\ UNCHANGED influx
        BY <1>7, <2>1, <2>3, PrefixInsert DEF CancelAdd, OrderInv
  <2>4. QED  BY <1>7, <2>2, <2>3 DEF CancelAdd
<1>8. ASSUME NEW f \in Flushers, FlushBegin(f) PROVE OrderInv'
  <2>1. \A g \in Flushers : flush'[g] = "fetched" => flush[g] = "fetched" /\ batch'[g] = batch[g]
        BY <1>8 DEF FlushBegin, TypeInv, TypeOK
  <2>2. QED  BY <1>2, <1>8, <2>1, PrefixKept DEF FlushBegin, OrderInv
<1>9. ASSUME NEW f \in Flushers, FlushNotConnected(f) PROVE OrderInv'
      BY <1>1, <1>2, <1>9 DEF FlushNotConnected, OrderInv
<1>10. ASSUME NEW f \in Flushers, FlushSelect(f) PROVE OrderInv'
       BY <1>2, <1>10, PrefixSelect DEF FlushSelect, OrderInv
<1>11. ASSUME NEW f \in Flushers,
              flush' = [flush EXCEPT ![f] = "idle"], batch' = [batch EXCEPT ![f] = {}],
              UNCHANGED add, influx \subseteq influx',
              \A id \in Ids : table'[id].status = "unsynced" =>
                                table[id].status = "unsynced" /\
                                table'[id].reading = table[id].reading
       PROVE  OrderInv'
  <2>1. \A g \in Flushers : flush'[g] = "fetched" => flush[g] = "fetched" /\ batch'[g] = batch[g]
        BY <1>11 DEF TypeInv, TypeOK
  <2>2. QED  BY <1>2, <1>11, <2>1, PrefixKept DEF OrderInv
<1>12. ASSUME NEW f \in Flushers,
              FlushSelectFail(f) \/ FlushEmpty(f) \/ FlushWriteFail(f) \/ FlushMarkFail(f)
       PROVE  OrderInv'
  <2>1. /\ flush' = [flush EXCEPT ![f] = "idle"]
        /\ batch' = [batch EXCEPT ![f] = {}]
        BY <1>12 DEF FlushSelectFail, FlushEmpty, FlushWriteFail, FlushMarkFail, FlushReturns
  <2>2. UNCHANGED <<table, add>>
        BY <1>12 DEF FlushSelectFail, FlushEmpty, FlushWriteFail, FlushMarkFail
  <2>3. influx \subseteq influx'
        BY <1>12 DEF FlushSelectFail, FlushEmpty, FlushWriteFail, FlushMarkFail, WriteFails
  <2>4. QED  BY <1>11, <2>1, <2>2, <2>3
<1>13. ASSUME NEW f \in Flushers, FlushWriteOk(f) PROVE OrderInv'
  <2>1. \A g \in Flushers : flush'[g] = "fetched" => flush[g] = "fetched" /\ batch'[g] = batch[g]
        BY <1>13 DEF FlushWriteOk, TypeInv, TypeOK
  <2>2. QED  BY <1>2, <1>13, <2>1, PrefixKept DEF FlushWriteOk, OrderInv
<1>14. ASSUME NEW f \in Flushers, FlushMark(f) PROVE OrderInv'
  <2>1. table' = MarkSynced(f) /\ UNCHANGED <<add, influx>>
        BY <1>14 DEF FlushMark
  <2>2. flush' = [flush EXCEPT ![f] = "idle"] /\ batch' = [batch EXCEPT ![f] = {}]
        BY <1>14 DEF FlushMark, FlushReturns
  <2>3. \A id \in Ids : table'[id].status = "unsynced" =>
                            table[id].status = "unsynced" /\
                            table'[id].reading = table[id].reading
        BY <2>1, MarkSyncedEffect DEF TypeInv
  <2>4. QED  BY <1>11, <2>1, <2>2, <2>3
<1>15. ASSUME CleanupSynced PROVE OrderInv'
  <2>1. \A id \in Ids : table'[id].status = "unsynced" => table'[id] = table[id]
        BY <1>15 DEF CleanupSynced, EmptyRow
  <2>2. QED  BY <1>2, <1>15, <2>1, PrefixKept DEF CleanupSynced, OrderInv
<1>16. ASSUME Boot PROVE OrderInv'
       BY <1>1, <1>2, <1>16 DEF Boot, OrderInv
<1>17. ASSUME Crash \/ Exit PROVE OrderInv'
  <2>1. ProcessGone /\ UNCHANGED <<table, influx>>
        BY <1>17 DEF Crash, Exit
  <2>2. \A q \in Readings : /\ add'[q] \notin InFlight
                            /\ add[q] = "new" => add'[q] = "new"
        BY <2>1 DEF ProcessGone, InFlight
  <2>3. \A f \in Flushers : flush'[f] = "idle"
        BY <2>1 DEF ProcessGone
  <2>4. QED  BY <2>2, <2>3 DEF OrderInv, OneAtATime, BatchPrefix
<1>18. ASSUME Stop PROVE OrderInv'
  <2>1. \A g \in Flushers : flush'[g] = "fetched" => flush[g] = "fetched" /\ batch'[g] = batch[g]
        BY <1>18 DEF Stop, TypeInv, TypeOK
  <2>2. QED  BY <1>2, <1>18, <2>1, PrefixKept DEF Stop, OrderInv
<1>19. ASSUME ServerDown \/ ServerBack PROVE OrderInv'
       BY <1>1, <1>2, <1>19 DEF ServerDown, ServerBack, OrderInv
<1>20. ASSUME UNCHANGED vars PROVE OrderInv'
       BY <1>1, <1>2, <1>20 DEF vars, OrderInv
<1>21. QED
  BY <1>3, <1>5, <1>6, <1>7, <1>8, <1>9, <1>10, <1>12, <1>13, <1>14, <1>15, <1>16, <1>17,
     <1>18, <1>19, <1>20
     DEF Next, AddStep, FlushStep

(* Only a write that InfluxDB confirms takes a flush from its batch to the *)
(* UPDATE.                                                                 *)
LEMMA ConfirmedWrite ==
    ASSUME TypeInv, Next, NEW f \in Flushers, flush[f] = "fetched", flush'[f] = "mark"
    PROVE  influx' = influx \cup ReadingsIn(batch[f])
<1>1. flush \in [Flushers -> {"idle", "select", "fetched", "mark"}]
      BY DEF TypeInv, TypeOK
<1>2. ASSUME NEW r \in Readings, AddStep(r) \/ CancelAdd(r) PROVE FALSE
      BY <1>2 DEF AddStep, BeginAdd, DirectOk, DirectFail, StoreOk, StoreFail, CancelAdd
<1>3. ASSUME NEW g \in Flushers, NEW step \in {"idle", "select", "fetched"},
             flush' = [flush EXCEPT ![g] = step]
      PROVE  FALSE
      BY <1>1, <1>3
<1>4. ASSUME NEW g \in Flushers, FlushBegin(g) \/ FlushNotConnected(g) \/ FlushSelect(g) PROVE FALSE
      BY <1>3, <1>4 DEF FlushBegin, FlushNotConnected, FlushSelect
<1>5. ASSUME NEW g \in Flushers,
             \/ FlushSelectFail(g) \/ FlushEmpty(g) \/ FlushWriteFail(g)
             \/ FlushMark(g) \/ FlushMarkFail(g)
      PROVE  FALSE
  <2>1. flush' = [flush EXCEPT ![g] = "idle"]
        BY <1>5 DEF FlushSelectFail, FlushEmpty, FlushWriteFail, FlushMark, FlushMarkFail,
                    FlushReturns
  <2>2. QED  BY <1>3, <2>1
<1>6. ASSUME CleanupSynced \/ Boot \/ ServerDown \/ ServerBack PROVE FALSE
      BY <1>6 DEF CleanupSynced, Boot, ServerDown, ServerBack
<1>7. ASSUME Crash \/ Exit PROVE FALSE
      BY <1>7 DEF Crash, Exit, ProcessGone
<1>8. ASSUME Stop PROVE FALSE
      BY <1>1, <1>8 DEF Stop
<1>9. PICK g \in Flushers : FlushWriteOk(g)
      BY <1>2, <1>4, <1>5, <1>6, <1>7, <1>8 DEF Next, FlushStep
<1>10. flush' = [flush EXCEPT ![g] = "mark"] /\ influx' = influx \cup ReadingsIn(batch[g])
       BY <1>9 DEF FlushWriteOk
<1>11. g = f
       BY <1>1, <1>10
<1>12. QED  BY <1>10, <1>11

(* Each batch that reaches InfluxDB completes a prefix of its sensors'     *)
(* backlogs, however many flushes run beside each other.                   *)
THEOREM BacklogInOrder == Spec => FlushFIFO
<1>1. ASSUME TypeInv, FlowInv, OrderInv, Next, NEW f \in Flushers,
             flush[f] = "fetched", flush'[f] = "mark",
             NEW r \in ReadingsIn(batch[f]), NEW q \in Held, SameSensor(q, r), Older(q, r)
      PROVE  q \in influx'
  <2>1. influx' = influx \cup ReadingsIn(batch[f])
        BY <1>1, ConfirmedWrite
  <2>2. PICK b \in batch[f] : b.reading = r
        BY <1>1 DEF ReadingsIn
  <2>3. PICK id \in UnsyncedIds : table[id].reading = q
        BY <1>1 DEF Held
  <2>4. q \in influx \/ \E c \in batch[f] : c.reading = q
        BY <1>1, <2>2, <2>3 DEF OrderInv, BatchPrefix
  <2>5. QED  BY <2>1, <2>4 DEF ReadingsIn
<1>2. TypeInv /\ FlowInv /\ OrderInv /\ [Next]_vars =>
         [\A f \in Flushers :
             flush[f] = "fetched" /\ flush'[f] = "mark" =>
                \A r \in ReadingsIn(batch[f]), q \in Held :
                    SameSensor(q, r) /\ Older(q, r) => q \in influx']_vars
      BY <1>1
<1>3. QED
  BY TypeInit, TypeNext, FlowInit, FlowNext, OrderInit, OrderNext, <1>2, PTL
     DEF Spec, FlushFIFO

-----------------------------------------------------------------------------
(* The queue implements StoreAndForward.                                   *)

(* What flush() sends is held or is in InfluxDB already.                   *)
LEMMA SentIsHeldOrDelivered ==
    ASSUME TypeInv, FlowInv, NEW f \in Flushers
    PROVE  ReadingsIn(batch[f]) \subseteq Held \cup influx
<1> SUFFICES ASSUME NEW b \in batch[f] PROVE b.reading \in Held \cup influx
    BY DEF ReadingsIn
<1>1. b.id \in Ids /\ table[b.id].status \in Statuses
      BY DEF TypeInv, TypeOK, Item, Row
<1>2. table[b.id].status \in {"unsynced", "synced"} /\ table[b.id].reading = b.reading
      BY <1>1 DEF FlowInv, BatchRows, Used, Statuses
<1>3. QED  BY <1>1, <1>2, HeldMeaning DEF FlowInv, SyncedDelivered

LEMMA HeldAfterInsert ==
    ASSUME TypeInv, NEW r \in Readings, InsertRow(r)
    PROVE  Held' = Held \cup {r}
<1>1. PICK id \in Ids :
         /\ table[id].status = "none"
         /\ table'[id] = [status |-> "unsynced", reading |-> r]
         /\ \A j \in Ids \ {id} : table'[j] = table[j]
      BY InsertRowEffect DEF TypeInv
<1>2. \A q : q \in Held' <=> q \in Held \/ q = r
      BY <1>1, HeldMeaning, HeldMeaningNext
<1>3. QED  BY <1>2 DEF Held

LEMMA HeldAfterMark ==
    ASSUME TypeInv, FlowInv, NEW f \in Flushers, FlushMark(f)
    PROVE  \E S \in SUBSET (Held \cap influx) : Held' = Held \ S
<1>1. flush[f] = "mark" /\ table' = MarkSynced(f)
      BY DEF FlushMark
<1>2. \A b \in batch[f] : table[b.id].reading \in influx
      BY <1>1 DEF FlowInv, BatchRows, WrittenBeforeMark
<1>3. \A q : q \in Held' => q \in Held
      BY <1>1, MarkSyncedEffect, HeldMeaning, HeldMeaningNext DEF TypeInv
<1>4. \A q : q \in Held => q \in Held' \/ q \in influx
      BY <1>1, <1>2, MarkSyncedEffect, HeldMeaning, HeldMeaningNext DEF TypeInv
<1>5. Held \ Held' \in SUBSET (Held \cap influx)
      BY <1>4
<1>6. Held' = Held \ (Held \ Held')
      BY <1>3
<1>7. QED  BY <1>5, <1>6

Accepted == {r \in Readings : add[r] = "accepted"}

(* A step that accepts one reading and puts it where it is accepted to.    *)
LEMMA AcceptStep ==
    ASSUME TypeInv, NEW r \in Readings, add[r] \in InFlight,
           add' = [add EXCEPT ![r] = "accepted"],
           \/ Held' = Held \cup {r} /\ UNCHANGED influx
           \/ influx' = influx \cup {r} /\ UNCHANGED Held
    PROVE  SF!Next
<1>1. r \notin Accepted /\ Accepted' = Accepted \cup {r}
      BY DEF Accepted, InFlight, TypeInv, TypeOK
<1>2. SF!Accept(r)
      BY <1>1 DEF SF!Accept, SF!Arrive, Accepted
<1>3. QED  BY <1>2 DEF SF!Next

(* A step that accepts none, and may bring one unfinished reading in.      *)
LEMMA UnacknowledgedStep ==
    ASSUME TypeInv, NEW r \in Readings, add[r] \in InFlight,
           Accepted' = Accepted,
           \/ Held' = Held \cup {r} /\ UNCHANGED influx
           \/ influx' \in {influx, influx \cup {r}} /\ UNCHANGED Held
    PROVE  [SF!Next]_SF!vars
<1>1. CASE Held' = Held \cup {r} /\ UNCHANGED influx
  <2>1. SF!ArriveUnacknowledged(r)
        BY <1>1 DEF SF!ArriveUnacknowledged, SF!Arrive, Accepted, InFlight
  <2>2. QED  BY <2>1 DEF SF!Next
<1>2. CASE influx' = influx \cup {r} /\ UNCHANGED Held
  <2>1. SF!ArriveUnacknowledged(r)
        BY <1>2 DEF SF!ArriveUnacknowledged, SF!Arrive, Accepted, InFlight
  <2>2. QED  BY <2>1 DEF SF!Next
<1>3. CASE influx' = influx /\ UNCHANGED Held
      BY <1>3 DEF SF!vars, Accepted
<1>4. QED  BY <1>1, <1>2, <1>3

LEMMA DeliverStep ==
    ASSUME TypeInv, FlowInv, NEW f \in Flushers, UNCHANGED <<add, table>>,
           influx' \in {influx, influx \cup ReadingsIn(batch[f])}
    PROVE  [SF!Next]_SF!vars
<1>1. Accepted' = Accepted /\ Held' = Held
      BY DEF Accepted, Held, UnsyncedIds
<1>2. CASE influx' = influx
      BY <1>1, <1>2 DEF SF!vars, Accepted
<1>3. CASE influx' = influx \cup ReadingsIn(batch[f])
  <2> DEFINE S == ReadingsIn(batch[f]) \cap Held
  <2>1. S \in SUBSET Held /\ influx' = influx \cup S
        BY <1>3, SentIsHeldOrDelivered
  <2>2. SF!Deliver
        BY <1>1, <2>1 DEF SF!Deliver, Accepted
  <2>3. QED  BY <2>2 DEF SF!Next
<1>4. QED  BY <1>2, <1>3

LEMMA RefinementStep ==
    TypeInv /\ FlowInv /\ [Next]_vars => [SF!Next]_SF!vars
<1> SUFFICES ASSUME TypeInv, FlowInv, [Next]_vars PROVE [SF!Next]_SF!vars
    OBVIOUS
<1>1. ASSUME Accepted' = Accepted, Held' = Held, influx' = influx PROVE [SF!Next]_SF!vars
      BY <1>1 DEF SF!vars, Accepted
<1>2. ASSUME UNCHANGED table PROVE Held' = Held
      BY <1>2 DEF Held, UnsyncedIds
<1>3. ASSUME UNCHANGED add PROVE Accepted' = Accepted
      BY <1>3 DEF Accepted
<1>4. ASSUME NEW r \in Readings, add[r] # "accepted",
             NEW s \in {"direct", "store", "rejected", "cancelled"}, add' = [add EXCEPT ![r] = s]
      PROVE  Accepted' = Accepted
      BY <1>4 DEF Accepted, TypeInv, TypeOK
<1>5. ASSUME NEW r \in Readings, BeginAdd(r) PROVE [SF!Next]_SF!vars
  <2>1. Accepted' = Accepted
        BY <1>4, <1>5 DEF BeginAdd
  <2>2. QED  BY <1>1, <1>2, <1>5, <2>1 DEF BeginAdd
<1>6. ASSUME NEW r \in Readings, DirectOk(r) PROVE [SF!Next]_SF!vars
      BY <1>2, <1>6, AcceptStep DEF DirectOk, InFlight
<1>7. ASSUME NEW r \in Readings, DirectFail(r) PROVE [SF!Next]_SF!vars
  <2>1. Accepted' = Accepted
        BY <1>4, <1>7 DEF DirectFail
  <2>2. influx' \in {influx, influx \cup {r}}
        BY <1>7 DEF DirectFail, WriteFails
  <2>3. QED  BY <1>2, <1>7, <2>1, <2>2, UnacknowledgedStep DEF DirectFail, InFlight
<1>8. ASSUME NEW r \in Readings, StoreOk(r) PROVE [SF!Next]_SF!vars
      BY <1>8, AcceptStep, HeldAfterInsert DEF StoreOk, InFlight
<1>9. ASSUME NEW r \in Readings, StoreFail(r) PROVE [SF!Next]_SF!vars
  <2>1. Accepted' = Accepted
        BY <1>4, <1>9 DEF StoreFail
  <2>2. QED  BY <1>1, <1>2, <1>9, <2>1 DEF StoreFail
<1>10. ASSUME NEW r \in Readings, CancelAdd(r) PROVE [SF!Next]_SF!vars
  <2>1. Accepted' = Accepted
        BY <1>4, <1>10 DEF CancelAdd, InFlight
  <2>2. CASE UNCHANGED table
    <3>1. influx' \in {influx, influx \cup {r}}
          BY <1>10 DEF CancelAdd
    <3>2. QED  BY <1>2, <1>10, <2>1, <2>2, <3>1, UnacknowledgedStep DEF CancelAdd
  <2>3. CASE InsertRow(r) /\ UNCHANGED influx
        BY <1>10, <2>1, <2>3, HeldAfterInsert, UnacknowledgedStep DEF CancelAdd
  <2>4. QED  BY <1>10, <2>2, <2>3 DEF CancelAdd
<1>11. ASSUME UNCHANGED <<add, table, influx>> PROVE [SF!Next]_SF!vars
       BY <1>1, <1>2, <1>3, <1>11
<1>12. ASSUME NEW f \in Flushers,
              \/ FlushBegin(f) \/ FlushNotConnected(f) \/ FlushSelect(f) \/ FlushSelectFail(f)
              \/ FlushEmpty(f) \/ FlushMarkFail(f)
       PROVE  [SF!Next]_SF!vars
  <2>1. UNCHANGED <<add, table, influx>>
        BY <1>12 DEF FlushBegin, FlushNotConnected, FlushSelect, FlushSelectFail, FlushEmpty,
                     FlushMarkFail
  <2>2. QED  BY <1>11, <2>1
<1>13. ASSUME NEW f \in Flushers, FlushWriteOk(f) \/ FlushWriteFail(f) PROVE [SF!Next]_SF!vars
  <2>1. /\ UNCHANGED <<add, table>>
        /\ influx' \in {influx, influx \cup ReadingsIn(batch[f])}
        BY <1>13 DEF FlushWriteOk, FlushWriteFail, WriteFails
  <2>2. QED  BY <2>1, DeliverStep
<1>14. ASSUME NEW f \in Flushers, FlushMark(f) PROVE [SF!Next]_SF!vars
  <2>1. UNCHANGED <<add, influx>>
        BY <1>14 DEF FlushMark
  <2>2. SF!Release
        BY <1>3, <1>14, <2>1, HeldAfterMark DEF SF!Release, Accepted
  <2>3. QED  BY <2>2 DEF SF!Next
<1>15. ASSUME CleanupSynced PROVE [SF!Next]_SF!vars
       BY <1>1, <1>3, <1>15, FlowCleanup DEF CleanupSynced
<1>16. ASSUME Crash \/ Exit PROVE [SF!Next]_SF!vars
  <2>1. ProcessGone /\ UNCHANGED <<table, influx>>
        BY <1>16 DEF Crash, Exit
  <2>2. \A r \in Readings : add'[r] = "accepted" <=> add[r] = "accepted"
        BY <2>1 DEF ProcessGone, InFlight
  <2>3. Accepted' = Accepted
        BY <2>2 DEF Accepted
  <2>4. QED  BY <1>1, <1>2, <2>1, <2>3
<1>17. ASSUME Boot \/ Stop \/ ServerDown \/ ServerBack \/ UNCHANGED vars PROVE [SF!Next]_SF!vars
       BY <1>11, <1>17 DEF Boot, Stop, ServerDown, ServerBack, vars
<1>18. QED
  BY <1>5, <1>6, <1>7, <1>8, <1>9, <1>10, <1>12, <1>13, <1>14, <1>15, <1>16, <1>17
     DEF Next, AddStep, FlushStep

(* BufferQueue implements StoreAndForward, for all constants.              *)
THEOREM Implementation == Spec => ImplementsStoreAndForward
<1>1. Init => SF!Init
  <2> SUFFICES ASSUME Init PROVE SF!Init
      OBVIOUS
  <2>1. Accepted = {} /\ Held = {} /\ influx = {}
        BY DEF Init, Accepted, Held, UnsyncedIds, EmptyRow
  <2>2. QED  BY <2>1 DEF SF!Init, Accepted
<1>2. QED
  BY <1>1, TypeInit, TypeNext, FlowInit, FlowNext, RefinementStep, PTL
     DEF Spec, SF!Spec, ImplementsStoreAndForward
=============================================================================

----------------------------- MODULE BufferQueue -----------------------------
(***************************************************************************)
(* The store-and-forward queue: BufferQueue of                             *)
(* backend/app/services/buffer.py, with the InfluxDB client it writes      *)
(* through (backend/app/db/influx.py), the sensor_readings table it keeps  *)
(* (backend/app/models/sensor.py) and the part of the application's        *)
(* lifespan that starts and stops it (backend/app/main.py).                *)
(*                                                                         *)
(* The backend is one asyncio event loop: a coroutine runs without         *)
(* interruption from one await to the next.  Every action below is such a  *)
(* stretch, and its result (a row committed, a point written) belongs to   *)
(* the step that resumes the coroutine.  add() runs once for each reading, *)
(* in the task of the sensor it comes from; flush() runs in the queue's    *)
(* own loop, in HTTP requests (POST /buffer/flush) and in stop().          *)
(***************************************************************************)
EXTENDS Naturals, FiniteSets

CONSTANTS
    Readings,          \* the readings the drivers produce
    NoReading,         \* what an unused row holds
    SensorOf,          \* the sensor task that adds each reading
    Timestamp,         \* the time stamp each reading was given
    ApiFlushers,       \* HTTP requests that may call flush(), concurrently
    BatchSize,         \* BufferQueue._batch_size
    CleanupScheduled,  \* is cleanup_synced() called by somebody?
    MaxRows,           \* bound: rows the table can hold
    MaxFaults,         \* bound: writes and commits that fail for no lasting reason
    MaxOutages,        \* bound: times InfluxDB goes away
    MaxRestarts        \* bound: crashes and orderly stops of the gateway

ASSUME ReadingsAssumption ==
    /\ IsFiniteSet(Readings)
    /\ NoReading \notin Readings
    /\ Timestamp \in [Readings -> Nat]

ASSUME BoundsAssumption ==
    /\ BatchSize \in Nat \ {0}
    /\ {MaxRows, MaxFaults, MaxOutages, MaxRestarts} \subseteq Nat

(* Nothing in the repository calls cleanup_synced().  A task that did      *)
(* would have to be the only one beside the flush loop: see the README.    *)
ASSUME CleanupAssumption ==
    /\ CleanupScheduled \in BOOLEAN
    /\ CleanupScheduled => ApiFlushers = {}

ASSUME FlushersAssumption == {"loop", "stop"} \cap ApiFlushers = {}

Flushers == {"loop", "stop"} \cup ApiFlushers

Ids == 1 .. MaxRows

VARIABLES
    phase,           \* the process: down, up, stopping or stopped
    connected,       \* InfluxDBClient._connected
    cloudAvailable,  \* BufferQueue._cloud_available
    add,             \* how far add() is with each reading
    flush,           \* how far each flush() is
    batch,           \* the rows each flush() has read and not yet marked
    table,           \* sensor_readings, on disk: survives the process
    influx,          \* the points InfluxDB has
    serverUp,        \* does InfluxDB answer?
    faults, outages, restarts

vars == <<phase, connected, cloudAvailable, add, flush, batch, table,
          influx, serverUp, faults, outages, restarts>>

Statuses == {"none", "unsynced", "synced"}
Row == [status : Statuses, reading : Readings \cup {NoReading}]
Item == [id : Ids, reading : Readings]

EmptyRow == [status |-> "none", reading |-> NoReading]

InFlight == {"direct", "store"}

TypeOK ==
    /\ phase \in {"down", "up", "stopping", "stopped"}
    /\ connected \in BOOLEAN
    /\ cloudAvailable \in BOOLEAN
    /\ add \in [Readings -> {"new", "accepted", "rejected", "cancelled"} \cup InFlight]
    /\ flush \in [Flushers -> {"idle", "select", "fetched", "mark"}]
    /\ batch \in [Flushers -> SUBSET Item]
    /\ table \in [Ids -> Row]
    /\ influx \in SUBSET Readings
    /\ serverUp \in BOOLEAN
    /\ faults \in Nat /\ outages \in Nat /\ restarts \in Nat

(* The rows flush() has to deliver, and what they hold.                    *)
UnsyncedIds == {id \in Ids : table[id].status = "unsynced"}
Held == {table[id].reading : id \in UnsyncedIds}

ReadingsIn(items) == {b.reading : b \in items}
IdsIn(items) == {b.id : b \in items}

Init ==
    /\ phase = "down"
    /\ connected = FALSE
    /\ cloudAvailable = TRUE
    /\ add = [r \in Readings |-> "new"]
    /\ flush = [f \in Flushers |-> "idle"]
    /\ batch = [f \in Flushers |-> {}]
    /\ table = [id \in Ids |-> EmptyRow]
    /\ influx = {}
    /\ serverUp \in BOOLEAN
    /\ faults = 0 /\ outages = 0 /\ restarts = 0

-----------------------------------------------------------------------------
(* Failures.                                                               *)

(* A write request that comes back as an error.  If the server is up it    *)
(* may have applied the points before the answer was lost.                 *)
WriteFails(rs) ==
    \/ /\ ~serverUp
       /\ UNCHANGED <<influx, faults>>
    \/ /\ serverUp
       /\ faults < MaxFaults
       /\ faults' = faults + 1
       /\ influx' \in {influx, influx \cup rs}

(* A statement or commit that SQLite refuses (locked, full, I/O error).    *)
DatabaseFails ==
    /\ faults < MaxFaults
    /\ faults' = faults + 1

ServerDown ==
    /\ serverUp
    /\ outages < MaxOutages
    /\ serverUp' = FALSE
    /\ outages' = outages + 1
    /\ UNCHANGED <<phase, connected, cloudAvailable, add, flush, batch, table,
                   influx, faults, restarts>>

ServerBack ==
    /\ ~serverUp
    /\ serverUp' = TRUE
    /\ UNCHANGED <<phase, connected, cloudAvailable, add, flush, batch, table,
                   influx, faults, outages, restarts>>

-----------------------------------------------------------------------------
(* add(): one call for each reading.                                       *)

SameSensor(q, r) == SensorOf[q] = SensorOf[r]
Older(q, r) == Timestamp[q] < Timestamp[r]

(* A sensor's task awaits the whole handler before it reads the device     *)
(* again, so its readings are added one at a time, oldest first.           *)
SensorsTurn(r) ==
    \A q \in Readings \ {r} :
        SameSensor(q, r) => /\ add[q] \notin InFlight
                            /\ Older(r, q) => add[q] = "new"

DirectMode == cloudAvailable /\ connected

BeginAdd(r) ==
    /\ phase = "up"
    /\ add[r] = "new"
    /\ SensorsTurn(r)
    /\ add' = [add EXCEPT ![r] = IF DirectMode THEN "direct" ELSE "store"]
    /\ UNCHANGED <<phase, connected, cloudAvailable, flush, batch, table,
                   influx, serverUp, faults, outages, restarts>>

DirectOk(r) ==
    /\ add[r] = "direct"
    /\ serverUp
    /\ influx' = influx \cup {r}
    /\ add' = [add EXCEPT ![r] = "accepted"]
    /\ UNCHANGED <<phase, connected, cloudAvailable, flush, batch, table,
                   serverUp, faults, outages, restarts>>

DirectFail(r) ==
    /\ add[r] = "direct"
    /\ WriteFails({r})
    /\ cloudAvailable' = FALSE
    /\ add' = [add EXCEPT ![r] = "store"]
    /\ UNCHANGED <<phase, connected, flush, batch, table, serverUp, outages, restarts>>

(* SQLite numbers a new row one above the highest row there is.            *)
NextId(id) ==
    /\ \A j \in Ids : table[j].status # "none" => j < id
    /\ id > 1 => table[id - 1].status # "none"

InsertRow(r) ==
    \E id \in Ids :
        /\ NextId(id)
        /\ table' = [table EXCEPT ![id] = [status |-> "unsynced", reading |-> r]]

StoreOk(r) ==
    /\ add[r] = "store"
    /\ InsertRow(r)
    /\ add' = [add EXCEPT ![r] = "accepted"]
    /\ UNCHANGED <<phase, connected, cloudAvailable, flush, batch,
                   influx, serverUp, faults, outages, restarts>>

StoreFail(r) ==
    /\ add[r] = "store"
    /\ DatabaseFails
    /\ add' = [add EXCEPT ![r] = "rejected"]
    /\ UNCHANGED <<phase, connected, cloudAvailable, flush, batch, table,
                   influx, serverUp, outages, restarts>>

(* The driver is stopped while its task is inside add(): the request that  *)
(* is under way may or may not take effect, and nobody sees the answer.    *)
CancelAdd(r) ==
    /\ add[r] \in InFlight
    /\ add' = [add EXCEPT ![r] = "cancelled"]
    /\ \/ UNCHANGED <<table, influx>>
       \/ /\ add[r] = "direct"
          /\ serverUp
          /\ influx' = influx \cup {r}
          /\ UNCHANGED table
       \/ /\ add[r] = "store"
          /\ InsertRow(r)
          /\ UNCHANGED influx
    /\ UNCHANGED <<phase, connected, cloudAvailable, flush, batch,
                   serverUp, faults, outages, restarts>>

-----------------------------------------------------------------------------
(* flush(): by the loop, by an HTTP request, by stop().                    *)

MayFlush(f) ==
    CASE f = "loop" -> phase = "up"
      [] f = "stop" -> phase = "stopping"
      [] OTHER      -> phase = "up"

(* The whole of stop()'s work is one flush(): when that returns, stop()    *)
(* has returned.                                                           *)
AfterFlush(f) == IF f = "stop" THEN "stopped" ELSE phase

FlushBegin(f) ==
    /\ flush[f] = "idle"
    /\ MayFlush(f)
    /\ connected
    /\ flush' = [flush EXCEPT ![f] = "select"]
    /\ UNCHANGED <<phase, connected, cloudAvailable, add, batch, table,
                   influx, serverUp, faults, outages, restarts>>

FlushNotConnected(f) ==
    /\ flush[f] = "idle"
    /\ MayFlush(f)
    /\ ~connected
    /\ phase' = AfterFlush(f)
    /\ UNCHANGED <<connected, cloudAvailable, add, flush, batch, table,
                   influx, serverUp, faults, outages, restarts>>

(* Mutant: the query without its ORDER BY.                                 *)
AnyRows(S) ==
    /\ S \subseteq UnsyncedIds
    /\ Cardinality(S) <= BatchSize
    /\ Cardinality(S) < BatchSize => S = UnsyncedIds

(* ORDER BY timestamp LIMIT batch_size over the unsynced rows.             *)
OldestRows(S) ==
    /\ S \subseteq UnsyncedIds
    /\ Cardinality(S) <= BatchSize
    /\ Cardinality(S) < BatchSize => S = UnsyncedIds
    /\ \A i \in S, j \in UnsyncedIds \ S :
           Timestamp[table[i].reading] <= Timestamp[table[j].reading]

FlushSelect(f) ==
    /\ flush[f] = "select"
    /\ \E S \in SUBSET UnsyncedIds :
           /\ OldestRows(S)
           /\ batch' = [batch EXCEPT ![f] =
                           {[id |-> id, reading |-> table[id].reading] : id \in S}]
    /\ flush' = [flush EXCEPT ![f] = "fetched"]
    /\ UNCHANGED <<phase, connected, cloudAvailable, add, table,
                   influx, serverUp, faults, outages, restarts>>

(* Mutant: a success does not put the queue back into direct mode.         *)
FlushReturnsStuck(f, available) ==
    /\ flush' = [flush EXCEPT ![f] = "idle"]
    /\ batch' = [batch EXCEPT ![f] = {}]
    /\ cloudAvailable' = (cloudAvailable /\ available)
    /\ phase' = AfterFlush(f)

(* flush() returns: with what _cloud_available becomes.                    *)
FlushReturns(f, available) ==
    /\ flush' = [flush EXCEPT ![f] = "idle"]
    /\ batch' = [batch EXCEPT ![f] = {}]
    /\ cloudAvailable' = available
    /\ phase' = AfterFlush(f)

FlushSelectFail(f) ==
    /\ flush[f] = "select"
    /\ DatabaseFails
    /\ FlushReturns(f, FALSE)
    /\ UNCHANGED <<connected, add, table, influx, serverUp, outages, restarts>>

FlushEmpty(f) ==
    /\ flush[f] = "fetched"
    /\ batch[f] = {}
    /\ FlushReturns(f, TRUE)
    /\ UNCHANGED <<connected, add, table, influx, serverUp, faults, outages, restarts>>

FlushWriteOk(f) ==
    /\ flush[f] = "fetched"
    /\ batch[f] # {}
    /\ serverUp
    /\ influx' = influx \cup ReadingsIn(batch[f])
    /\ flush' = [flush EXCEPT ![f] = "mark"]
    /\ UNCHANGED <<phase, connected, cloudAvailable, add, batch, table,
                   serverUp, faults, outages, restarts>>

FlushWriteFail(f) ==
    /\ flush[f] = "fetched"
    /\ batch[f] # {}
    /\ WriteFails(ReadingsIn(batch[f]))
    /\ FlushReturns(f, FALSE)
    /\ UNCHANGED <<connected, add, table, serverUp, outages, restarts>>

(* Mutants: the UPDATE without its WHERE, and the UPDATE that finds no row. *)
MarkEverything(f) ==
    [id \in Ids |-> IF table[id].status # "none"
                    THEN [table[id] EXCEPT !.status = "synced"]
                    ELSE table[id]]
MarkNothing(f) == table

(* UPDATE ... SET synced WHERE id IN (the rows that were read).            *)
MarkSynced(f) ==
    [id \in Ids |-> IF id \in IdsIn(batch[f]) /\ table[id].status # "none"
                    THEN [table[id] EXCEPT !.status = "synced"]
                    ELSE table[id]]

FlushMark(f) ==
    /\ flush[f] = "mark"
    /\ table' = MarkSynced(f)
    /\ FlushReturns(f, TRUE)
    /\ UNCHANGED <<connected, add, influx, serverUp, faults, outages, restarts>>

FlushMarkFail(f) ==
    /\ flush[f] = "mark"
    /\ DatabaseFails
    /\ FlushReturns(f, FALSE)
    /\ UNCHANGED <<connected, add, table, influx, serverUp, outages, restarts>>

FlushStep(f) ==
    \/ FlushBegin(f) \/ FlushNotConnected(f)
    \/ FlushSelect(f) \/ FlushSelectFail(f)
    \/ FlushEmpty(f) \/ FlushWriteOk(f) \/ FlushWriteFail(f)
    \/ FlushMark(f) \/ FlushMarkFail(f)

CleanupSynced ==
    /\ CleanupScheduled
    /\ phase = "up"
    /\ table' = [id \in Ids |-> IF table[id].status = "synced" THEN EmptyRow ELSE table[id]]
    /\ UNCHANGED <<phase, connected, cloudAvailable, add, flush, batch,
                   influx, serverUp, faults, outages, restarts>>

-----------------------------------------------------------------------------
(* The process.                                                            *)

(* lifespan(): the only call of influx_client.connect() there is.          *)
Boot ==
    /\ phase = "down"
    /\ phase' = "up"
    /\ connected' = serverUp
    /\ cloudAvailable' = TRUE
    /\ UNCHANGED <<add, flush, batch, table, influx, serverUp, faults, outages, restarts>>

(* Everything in memory is gone, the table and InfluxDB are not.           *)
ProcessGone ==
    /\ phase' = "down"
    /\ connected' = FALSE
    /\ cloudAvailable' = TRUE
    /\ add' = [r \in Readings |-> IF add[r] \in InFlight THEN "cancelled" ELSE add[r]]
    /\ flush' = [f \in Flushers |-> "idle"]
    /\ batch' = [f \in Flushers |-> {}]

Crash ==
    /\ phase # "down"
    /\ restarts < MaxRestarts
    /\ restarts' = restarts + 1
    /\ ProcessGone
    /\ UNCHANGED <<table, influx, serverUp, faults, outages>>

(* stop(): the loop is cancelled and awaited.  The HTTP server has already *)
(* let its requests finish.                                                *)
Stop ==
    /\ phase = "up"
    /\ \A f \in ApiFlushers : flush[f] = "idle"
    /\ restarts < MaxRestarts
    /\ restarts' = restarts + 1
    /\ phase' = "stopping"
    /\ flush' = [flush EXCEPT !["loop"] = "idle"]
    /\ batch' = [batch EXCEPT !["loop"] = {}]
    /\ UNCHANGED <<connected, cloudAvailable, add, table, influx, serverUp, faults, outages>>

(* orchestrator.stop() ends the drivers' tasks, influx_client.disconnect() *)
(* follows, and the process exits.                                         *)
Exit ==
    /\ phase = "stopped"
    /\ ProcessGone
    /\ UNCHANGED <<table, influx, serverUp, faults, outages, restarts>>

-----------------------------------------------------------------------------
AddStep(r) ==
    \/ BeginAdd(r)
    \/ DirectOk(r) \/ DirectFail(r)
    \/ StoreOk(r) \/ StoreFail(r)

Next ==
    \/ \E r \in Readings : AddStep(r) \/ CancelAdd(r)
    \/ \E f \in Flushers : FlushStep(f)
    \/ CleanupSynced
    \/ Boot \/ Crash \/ Stop \/ Exit
    \/ ServerDown \/ ServerBack

Spec == Init /\ [][Next]_vars

(* The event loop runs every ready task again and again, the flush loop    *)
(* never ends while the process is up, and the container is restarted      *)
(* whenever it goes down.  Nothing is assumed of InfluxDB, of the HTTP     *)
(* clients or of the devices.                                              *)
Fairness ==
    /\ WF_vars(Boot)
    /\ WF_vars(Exit)
    /\ WF_vars(FlushStep("loop"))
    /\ WF_vars(FlushStep("stop"))
    /\ \A r \in Readings : WF_vars(add[r] \in InFlight /\ AddStep(r))

LiveSpec == Spec /\ Fairness

-----------------------------------------------------------------------------
(* Properties.                                                             *)

(* A reading for which add() returned True is in InfluxDB or in a row that *)
(* flush() still has to send: no interleaving of flushes, no failure, crash *)
(* or restart loses it (buffer.py:22-24, "Persistent storage in SQLite").  *)
NoLoss ==
    \A r \in Readings : add[r] = "accepted" => r \in influx \cup Held

(* A row is marked synced, and so may be cleaned up, only when its reading *)
(* is in InfluxDB: the order write_batch(), then UPDATE, in flush().       *)
SyncedDelivered ==
    \A id \in Ids : table[id].status = "synced" => table[id].reading \in influx

(* The backlog of a sensor drains oldest first: when a batch is written,   *)
(* every older waiting reading of the same sensor is written with it or    *)
(* has been before, whatever the other flushes did since the SELECT        *)
(* (buffer.py:28, "FIFO ordering").                                        *)
FlushFIFO ==
    [][\A f \in Flushers :
          flush[f] = "fetched" /\ flush'[f] = "mark" =>
             \A r \in ReadingsIn(batch[f]), q \in Held :
                 SameSensor(q, r) /\ Older(q, r) => q \in influx']_vars

(* What the queue implements: readings are held until they are delivered.  *)
SF == INSTANCE StoreAndForward WITH
          accepted  <- {r \in Readings : add[r] = "accepted"},
          held      <- Held,
          delivered <- influx

(* Every step of the queue is a step of StoreAndForward or changes nothing *)
(* there.                                                                  *)
ImplementsStoreAndForward == SF!Spec

(* The gateway is connected to an InfluxDB that answers, from some time on. *)
StaysConnected == <>[](serverUp /\ connected)

(* Then every accepted reading reaches InfluxDB: the backlog drains however *)
(* many writes and commits failed before and whoever else flushes.         *)
EventuallyDelivered ==
    StaysConnected =>
        \A r \in Readings : add[r] = "accepted" ~> r \in influx

(* And the queue does not stay in buffer mode: flush() ends it.            *)
DirectModeResumes == StaysConnected => []<>cloudAvailable

(* "When connection is restored, the queue is flushed" (buffer.py:23): it  *)
(* is enough that InfluxDB answers from some time on.                      *)
FlushedOnceRestored ==
    <>[]serverUp =>
        \A r \in Readings : add[r] = "accepted" ~> r \in influx
=============================================================================

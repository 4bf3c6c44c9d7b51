# DaTaK gateway: a TLA+ development

TLA+ models of the backend of the DaTaK gateway (`src/backend/app`), TLC
configurations that check them on small instances, and TLAPS proofs that carry
the main results over to every value of the constants. Paths below are relative
to `src/backend/app`.

- [1. The system](#1-the-system)
- [2. Modules and how they correspond to the code](#2-modules-and-how-they-correspond-to-the-code)
- [3. Runs](#3-runs)
- [4. Fairness](#4-fairness)
- [5. Proofs](#5-proofs)
- [6. Where the code and its documents disagree](#6-where-the-code-and-its-documents-disagree)
- [7. Other observations](#7-other-observations)
- [8. What is not modelled](#8-what-is-not-modelled)
- [9. Plan](#9-plan)

## 1. The system

DaTaK polls sensors over Modbus, MQTT and CAN, applies a formula to each value,
and hands it to several consumers: browsers (WebSocket), InfluxDB (through a
store-and-forward queue), a northbound MQTT broker and a local rule engine that
may write to actuators. A FastAPI application holds all of it in **one asyncio
event loop**: there are no threads that touch its state, so two coroutines
interleave only at an `await`. SQLite holds the configuration and the queue.
docker-compose restarts the process whenever it goes down (`restart:
unless-stopped`).

### Components

| component | state | operations | hard because |
|---|---|---|---|
| Store & forward buffer, `services/buffer.py` | table `sensor_readings` (reading, time stamp, synced), `_cloud_available`, flush task | `add`, `flush` (loop, `POST /config/buffer/flush`, `stop`), `cleanup_synced`, `start`/`stop` | overlapping flushes, a crash between the write and the mark, answers that get lost |
| InfluxDB client, `db/influx.py` | `_connected`, client | `connect` (once), `write_sensor_data`, `write_batch`, queries | a write may be applied and reported as failed |
| Northbound service, `services/cloud_sync.py` | `_connected`, `_client`, `_reconnecting`, lock | `start`, `stop`, `send_reading`, `_reconnect_loop`; `PUT /config/system` | many publishes fail at once, restart during a reconnect |
| Driver orchestrator, `services/orchestrator.py` | `_drivers`, formulas, twins | `add_sensor`, `remove_sensor`, `restart_sensor`, `update_formula`, `write_sensor` | requests for one sensor overlap at every await |
| Sensor API, `api/routes/sensors.py` | rows of `sensors` | create, update, soft-delete, restart, write | driver and row are changed in two steps |
| Poll loop of a driver, `drivers/base.py` | `_running`, `_connected`, `_error_count`, `_task`, status | `start`, `stop`, `restart`, `_monitor_loop` | cancelled at any await, time-outs, reconnect |
| Modbus driver, `drivers/modbus.py` | shared client and lock per gateway, `_client` | `connect`, `read`, `read_registers`, `write`, `disconnect` | one bus, many sensors, half-open connections |
| MQTT and CAN drivers, `drivers/mqtt.py`, `drivers/canbus.py` | client or bus, `_connected`, message-loop task | `connect`, `disconnect`, message loop, monitoring loop, `write` | two loops for one session, either of which may end alone |
| MQTT command listener, `services/command_listener.py` | task, client in its `async with` | `start`, `stop`, listen loop, command | an outage, or a stop, in the middle of a command |
| WebSocket manager, `api/routes/websocket.py` | list of connections, subscriptions | connect, subscribe, leave, `send_sensor_update`, `broadcast` | the list changes under a loop that awaits |
| Automation engine, `services/automation.py` | dict of rules, last trigger of each, latest values | `_handle_update`, `_evaluate_rules`, create and delete a rule, statistics loop | cooldown tested before and set after an await; the dict changes under its iterator |
| Configuration versions, `api/routes/config.py` | tables `config_versions` and `sensors` | export, import, rollback | read-then-write of the version number and of each row |
| CSV reports, `services/csv_engine.py` | daily file, archive | append, rotate, compress, clean up | files that change under a reader |
| Formula engine, SDM inference, settings, sessions, authentication, metrics, report jobs, frontend, tooling | – | – | see section 8 |

`PROJECT.json` lists all 26 with their files and what became of each.

### Interactions

- A **poll loop** (one task per running driver) reads, then awaits
  `orchestrator._handle_value`, which awaits its callbacks in turn: the telemetry
  pipeline (`BufferQueue.add`, then `CloudSync.send_reading`), the automation
  engine, the browsers. So at most one reading of a sensor is under way, and
  readings of different sensors overlap.
- The **automation engine** and the **command listener** call
  `orchestrator.write_sensor`, which uses the driver of another sensor.
- **Requests** call the orchestrator, the buffer and the northbound service
  directly; nothing serializes requests.
- **Start-up** (`main.py:59-145`): database, InfluxDB (one attempt),
  orchestrator, buffer, reports, northbound service, pipeline, listener, rules,
  and last the drivers of the active sensors. **Shutdown** (`main.py:149-165`)
  goes the other way, so that the drivers still run while the buffer is stopped;
  the pipeline, stopped before, drops their values
  (`services/telemetry_pipeline.py:47`).

### What makes each part correct

- *Buffer*: an accepted reading is never lost; a row is marked synced only when
  its reading is in InfluxDB; a sensor's backlog drains oldest first; the
  backlog drains and direct mode comes back once InfluxDB stays up.
- *Northbound service*: one reconnect at a time; no session is left behind at
  the broker; `_connected` means there is a connection; service recovers.
- *Orchestrator*: a registered sensor is polled, by one loop; the driver follows
  the committed row; a deleted sensor is silent; every request ends.
- *Modbus gateway*: one transaction at a time; nobody is kept from the bus; a
  driver whose `stop()` has returned leaves nothing behind and is not written to;
  sensors recover by themselves and a dead gateway is not shown online.
- *WebSocket manager*: a closed connection leaves nothing behind; a broadcast
  that comes to its end has reached those it is for, but one at most for each
  that left.
- *Modbus registers*: every register is decoded from its own words, in as few
  transactions as the gaps allow.
- *Message drivers*: a stopped driver is silent; a running one goes on listening,
  and goes deaf for a known reason only. *Command listener*: it is there again
  after every outage.
- *Automation*: a rule writes a bounded number of times in one cooldown, does not
  write once deleted, and fires again and again while its condition holds.
- *Versions*: numbers have no gaps, are given twice only by overlapping imports,
  and never come to mean something else; an import is applied, but for the entries
  it reports as errors, unless somebody else changed the same sensor. *Reports*: no row of a day is lost (not modelled).

The hazards behind these properties, each with its line, are in `PROJECT.json`.

## 2. Modules and how they correspond to the code

The stretch of a coroutine from one await to the next is one action; what
another party does meanwhile (a row committed, a point written, a connection
opened) belongs to the step that resumes the coroutine. Statement order inside
a stretch cannot be observed and is not modelled. A task's place is a program
counter, its locals are variables only when they live across an await.

Several definitions come in pairs (`MarkSynced` next to `MarkEverything`,
`Stop` next to `StopKeepsPlace`): the second form is a variation of the first that a
plausible mistake would produce. No specification uses it; `PROJECT.json` names
the property that tells the two apart.

| module | models | role |
|---|---|---|
| `StoreAndForward` | what the buffer promises | abstract specification |
| `BufferQueue` | buffer, InfluxDB writes, start and stop | component; implements `StoreAndForward` |
| `CloudSync` | northbound service and `PUT /config/system` | component |
| `Orchestrator` | sensor requests, registry, `start`/`stop`/`restart`, loading at start-up | component |
| `ModbusBus` | poll loops, Modbus client and lock, `write_sensor` | component |
| `RegisterBlocks` | how a Modbus reading is cut into transactions and decoded | algorithm against a definition |
| `ModbusReadings` | the sensors of a gateway with their lists of registers | composes `ModbusBus` and `RegisterBlocks` |
| `WebSocketManager` | connections, subscriptions, sends | component |
| `Automation` | evaluation of rules, requests that create and delete them | component |
| `MessageDriver` | MQTT and CAN drivers under `start` and `stop` | component |
| `CommandListener` | the command listener and the drivers on its broker | component; extends `MessageDriver` |
| `ConfigVersions` | export, import, rollback beside the sensor API | component |
| `MC*` | small values of the constants | model checking |
| `*Proofs` | theorems and proofs | TLAPS |

### BufferQueue

`table` is `sensor_readings` by row number, `cloudAvailable` and `connected` are
`_cloud_available` and the client's `_connected`, `influx` is what InfluxDB
holds, `add[r]` the state of the call of `add()` with reading `r`, `flush[f]`
and `batch[f]` the place and the rows of each flusher: the loop, `stop()`, and
every HTTP request. `phase` is the process (down, up, stopping).

- A write is one request and one answer. `WriteFails` lets InfluxDB apply it,
  or not, and the client see a failure in both cases. The same holds for
  commits of SQLite only before the commit: a failed commit leaves no row.
- `BeginAdd` waits for `SensorsTurn`: a poll loop awaits `add()` before it reads
  again, and time stamps of one sensor do not decrease.
- `CancelAdd` is the cancellation of a poll loop inside `add()`.
- `Crash` may happen at any step; `Boot` follows, with an empty memory and the
  table as committed.
- `cleanup_synced()` has no caller in the repository; the constant
  `CleanupScheduled` adds one, for the case that the operator schedules it. Its
  retention argument is ignored by the code (`_older_than_hours`), so every
  synced row goes and SQLite hands the highest row numbers out again.

### CloudSync

`start()` and `stop()` each have one await, "opening" and "closing";
`StartOpens`, `Stop`, `OpenOk`, `OpenFail` are the stretches around them, for
boot, the reconnect loop and a request alike. `pc[l] = "sleep"` is a reconnect
loop after its lock and before `stop()`. A client object is new, open, lost or
closed at the broker; `held[t]` is the one a task is opening or closing. A
reading without a device is `SendDropped`. The payload is not modelled.

### Orchestrator

The dictionaries are keyed by sensor and every operation stays within its key,
so one sensor stands for all. `row` is the committed row, `registered`,
`formula`, `twin` the three dictionary entries, and `driver[d]` an object:
`running` is `_running`, `loop` the poll loop that `_task` names, `stray` a poll
loop that `_task` no longer names. `seen[t]` is the row as a handler read it,
`want[t]` what the request asks for, `held[t]` the driver a task awaits.
`Commit` merges as SQLAlchemy does: only columns that differ from what was read
are written (`Column`). A connect during start may take any time or be cut off
by a crash. A driver that nothing refers to is garbage and is used again;
`RoomForAnother` bounds the number of requests at work by the objects left.

### ModbusBus

The lock is `asyncio.Lock`, which is fair: `ahead[t]` is the set of tasks that
asked before `t`. `pc`: `lock`, `open` (in `connect()`), `read`, `busy` (in a
transaction), `sleep`, `off`, `stopping`. `shared` is the entry of `_SHARED_TCP_CLIENTS`,
`client[d]` what each driver got from it, `live[c]` is `client.connected`.

- `stop()` has an await in the middle. `Stop` clears `_running` and cancels the
  poll loop, which gives up the lock or its place in the queue; `Stopped` drops
  the client and reports OFFLINE (`base.py:182-188`). Anybody may run between
  the two: a write that waited for the lock of the cancelled poll loop gets it,
  finds `_client` still there and goes out.
- A time-out of `asyncio.wait_for` may hit a reading that waits for the lock; it
  then leaves the queue. With the gateway up it counts against `MaxFaults`.
- `Breaks`: a gateway that goes away may leave some connections looking open.
- pymodbus may reconnect a client by itself (`Reconnects`); nothing is assumed
  of when.
- A new client is the least unreferenced object; two drivers, the shared entry
  and one new client make four.
- `start()` and `stop()` of one driver do not overlap here; `Orchestrator` has
  that. The callbacks of a value are awaits that return, folded into the poll.

### WebSocketManager

`connections` is the list, `subscriptions[s]` the set of each sensor, `job[s]`
the coroutine in the poll loop of `s`. `send_sensor_update()` goes through a copy
of the subscribers and then broadcasts; `broadcast()` goes through the live list
by position (`pos`), so `Disconnect` moves it relative to the list (`Without`:
who stays moves to its rank among those who stay). `stop()` of the sensor may
cancel the job in any send (`Cancelled`): `CancelledError` is not caught, so nobody
else is sent to and the dead connections it noted stay where they are.
`attached` says whether the set the job looks at is still the dictionary entry:
`disconnect()` deletes an entry that becomes empty and a later subscription makes
another set. `owed` and `departures` are history variables for the properties.

### RegisterBlocks and ModbusReadings

Operators only; a word is the address it was read from and a value the sequence
of its words. `ByAddress` is the stable `sorted()`, given by the rank of each
register among those of its type. The loop over the sorted registers starts a
block where the gap to the register before is too large (`StartsBlock`), which
does not depend on the blocks so far; so `Grouped` names each block by its start
and `BlockFrom` goes on to before the next one. No recursion is needed, and none
would be open to proof. `RawBlock` is the answer of one transaction (whole bytes
for coils), `At` Python's list index with its negative range, `Results` what
`read_registers()` returns. The definition it is checked against does not sort:
`OwnWords` is a register's words by its address and count, and a block begins at
the registers that are `Near` no other.

`ModbusReadings` puts the two together: a sensor has a list of registers, its
readings take as many transactions in `ModbusBus` as `RegisterBlocks` makes
blocks (`BlocksAssumption`; one if there is no list), and every list is decoded.

### Automation

Between two writes an evaluation does not await, so `Update` runs to the first
rule that fires, and `WriteReturns`, `WriteRaises` go on to the next. `entries`
and `rules` are the dict as CPython keeps it, because the order and the
`RuntimeError` of an iterator depend on it: `pos`, `size` and `left` of an
evaluation are `di_pos`, `di_used` and `len` of the iterator, a deletion leaves
its entry behind and an insertion may close the gaps (`Compacted`: each entry
that is kept moves to its rank among them). A deletion
followed by a creation is not noticed by the iterator. Conditions are data:
`met` is the set of rules whose condition holds, and each value may change it.
Times are ages, so that no clock grows: `since[r]` is the age of
`last_triggered`, `spent` how long ago an evaluation took its `now`, which it
writes back after its write (l. 149) however old it is by then.

### MessageDriver and CommandListener

`pc[d]` is the monitoring loop, with `start()` before it and `stop()` after it;
`loop[d]` the task that takes messages; `session[d]` the session of the object in
`_client` or `_bus`. An MQTT driver awaits the session and the subscription, a
CAN driver connects without an await. `leaked[d]` counts sessions that no
variable names any more: a subscription that fails leaves its session open
(`mqtt.py:75`) and the next connect overwrites it. The callbacks of a message are
one await, "handling", that returns or raises.

`CommandListener` is the composition: one broker, whose outage (`Outage`) hits
the listener and every MQTT driver in one step, and a command that is handled
to the end of a driver's `write()`.

### ConfigVersions

An import awaits the row of each sensor it names (`Look`), then the highest
version number (`Number`), then the commit; the session does not flush before
(`autoflush=False`), so everything is written in `Commit`. `Written` is what
SQLAlchemy does: only columns whose value differs from the one read. A sensor
that was missing and has been created meanwhile makes the commit fail (`Clash`,
unique name). An entry that raises is noted in `errors` and the import goes on
to commit and to answer success: `LookRaises` puts it into `skipped`, and `Clash`
and `Written` leave it out. `conf` is the column `connection_params`, of which an
export without credentials leaves out the password; an entry that raises after
that column was set is a `Look`, since the column is written. An entry without
a name has no row and does nothing. A file names a sensor once. `known` is a history variable: the
versions there were when a number was read.

## 3. Runs

| run | instance | what it shows |
|---|---|---|
| `buffer_safety` | 3 readings of sensors a, b, a; the loop, one HTTP request and `stop()` flush; batches of 1; 3 rows; 1 fault, 1 outage, 1 restart | nothing accepted is lost, synced means delivered, FIFO among flushes, `StoreAndForward` is implemented |
| `buffer_live` | as above without the HTTP request, batches of 2, cleanup scheduled | backlog drains, direct mode comes back; nothing is lost when row numbers are used again |
| `buffer_boot` | 2 readings, no fault, 1 outage, 1 restart | *violated*: see 6 |
| `cloud` | 2 senders, 2 reconnect loops, 1 PUT, 3 clients, 2 faults, 1 outage | one reconnect at a time, no orphan, `_connected` is true, recovery |
| `orchestrator` | 2 requests, 3 drivers, commits may fail, any number of crashes | a registered sensor is polled; every request ends |
| `orchestrator_serial` | 1 request at a time, 2 drivers, 3 configurations (one cannot be constructed), 2 formulas, symmetry | driver and row agree; one poll loop; a deleted sensor is silent |
| `orchestrator_pollers` | 2 requests, 4 drivers, 2 configurations | *violated*: see 6 |
| `modbus` | 2 sensors (readings of 1 and of 2 blocks), 1 write, 4 clients, `RetryCount` 2, 1 fault, 1 outage, 3 starts | exclusive bus, a lock that is never lost, quiet after stop, no write once `stop()` has returned, everyone served, recovery, an outage shows; for all lists of up to 3 registers at 5 addresses, of 1 to 3 words and 2 types, registers are decoded in the fewest transactions |
| `websocket` | 3 browsers, 2 sensors, symmetry | closed is forgotten; a broadcast that comes to its end misses at most one client per departure |
| `automation` | 2 sensors, 2 rules, cooldown 2, waits up to 2 | a rule writes at most 5 times in a cooldown; a deleted rule is silent; a rule whose condition holds fires again and again |
| `mqtt` | 1 MQTT driver, 1 CAN driver, the listener, 2 leaks, any number of outages | stopped is silent; deaf only after a loss; drivers and listener come back |
| `config` | 2 sensors, 2 overlapping requests, a file of both and every export, 2 versions, symmetry | numbers without gaps, twins only of overlapping imports, numbers keep their meaning, imports are applied whatever entries they skip |

**Why these bounds are enough to be interesting.** Ordering in the buffer needs
two readings of one sensor and one of another between them; overtaking needs two
flushers, and `stop()` makes three. With batches of one a backlog always takes
several; with batches of two a batch can be cut short. One fault, one outage and
one restart combine freely, so a write can be lost, applied without an answer,
or interrupted by a crash while another flush holds the same rows. A second
failing publish needs a second sender; a second loop is what the flag has to
keep out; three MQTT clients are the old one, the one being opened and one more.
Two overlapping requests show each pair of handlers, three drivers the old one
and one for each. On the bus, one sensor that needs two transactions and one
that needs one, together with a write, make a queue of three; three starts allow
each sensor to run and one of them to come back after a stop. Three browsers are
the least for one to leave, one to be skipped and one to be served. Two sensors
let one evaluation wait in a write while the other passes it, two rules let one
be deleted and another created under an iterator, and a wait as long as the
cooldown is what sets `last_triggered` back. One MQTT and one CAN driver are the
two kinds; drivers meet only in an outage. Two imports are the least that read
the same number, and two versions the least that share it. Three registers make
a gap, a neighbour and an overlap in one list; with a gap of one word five addresses hold the gaps on both sides
of the limit. `MaxGap` is 16 in the code.

**Named bounds**: `MaxRows`, `MaxFaults`, `MaxOutages`, `MaxRestarts`
(BufferQueue), `MaxFaults`, `MaxOutages`, `MaxPuts` (CloudSync), `MaxFaults`,
`MaxOutages`, `MaxStarts` (ModbusBus), `MaxSpent` (Automation: how long an
evaluation waits for its writes), `MaxLeaks` (MessageDriver: subscriptions that
fail with the session up), `MaxVersions` (ConfigVersions: versions that are
committed). They guard what the environment does and never what the code does,
with two exceptions: `MaxRows` is the size of the table, and the runs have a row
for every reading; a request that `MaxVersions` keeps from its commit can still be
aborted. Two runs turn the deadlock check off: in `modbus`, with every driver stopped and its
starts used up, nothing is left to do; in `config`, with the versions used up and
every sensor deleted. Symmetry is used only in runs without temporal properties
other than action properties.

## 4. Fairness

Weak fairness is assumed of what the event loop and docker-compose schedule:

- a coroutine whose await is over is resumed, and each await of the code ends:
  sleeps end, InfluxDB, MQTT and Modbus calls have time-outs, the database
  answers or refuses, a cancelled task ends;
- the flush loop and the poll loops come round again;
- the container is restarted (`Boot`), and a shutdown that began ends (`Exit`);
- in `Automation`, every sensor goes on delivering values, writes end (each
  driver has a time-out) and time passes.

Two runs need more. A connect of `mqtt` may time out with the broker up, any number
of times; that it does not do so for ever is **strong fairness** of `Opens`,
`Subscribed`, `ListenerOpens` and `ListenerSubscribed`: an attempt that finds the
network up again and again succeeds some time. Without it `Hears` and
`CommandsResume` would ask the code for what no client of a network can promise.
`RuleFires` has as premises that the set of rules is at rest, that no target
formula fails and that no sensor is stopped during a write.

Nothing is assumed of InfluxDB, the broker, the Modbus gateway, the browsers and
the operators: properties that need one of them to behave say so as a premise
(`StaysConnected`, `StaysReachable`, `<>[](up /\ running[d])`). Weak fairness of
a step that can end well or badly is fairness of the disjunction, so the model
may choose the failure whenever the bound on faults lets it; `MessageDriver` has
no such bound and the strong fairness above instead.

The fairness of `asyncio.Lock` is not an assumption but part of the model
(`ahead`). `Recovers` of CloudSync has two more premises: that no request
restarts the service, because a PUT can leave it disconnected for good, and that
a first connection existed, because nothing else is ever retried (section 7).

## 5. Proofs

TLAPS checks every theorem for all values of the constants, under the named
assumptions of the modules (`ReadingsAssumption`, `TasksAssumption`, ...: the
sets of tasks are disjoint, `None` is no object, bounds are natural numbers).
TLC evaluates the same assumptions in each run.

| module | theorem | statement |
|---|---|---|
| `BufferQueueProofs` | `TypeCorrect`, `NothingLost`, `MarkedIsDelivered` | `[]TypeOK`, `[]NoLoss`, `[]SyncedDelivered` |
| | `BacklogInOrder` | `FlushFIFO` |
| | `Implementation` | `BufferQueue` implements `StoreAndForward` |
| `CloudSyncProofs` | `TypeCorrect`, `OneReconnect` | `[]TypeOK`, `[]SingleReconnect` |
| | `ConnectedIsOpen`, `NoOrphan` | `[]ConnectedHasClient`, `[]NoOrphanSession` |
| `OrchestratorProofs` | `TypeCorrect`, `RegisteredPolled` | `[]TypeOK`, `[]RegisteredIsPolled` |
| | `OnePoller`, `DeletedStopped` | with one request at a time: `[]SinglePoller`, `[]DeletedIsStopped` |
| | `RowIsApplied` | the same, and commits that succeed: `[]RowApplied` |
| `ModbusBusProofs` | `TypeCorrect`, `BusIsExclusive`, `LockNeverLost` | `[]TypeOK`, `[]OneTransaction`, `[]LockIsHeld` |
| | `StopLeavesNothing`, `StoppedIsNotWritten` | `[]StoppedIsQuiet`, `NoWriteForStopped` |
| | `ReadingsDecoded`, `ReadingsMinimal` | `[]RegistersDecoded`, `[]BlocksMinimal`: every list is decoded, in the fewest transactions |
| `WebSocketManagerProofs` | `TypeCorrect`, `Forgotten`, `MissedFew` | `[]TypeOK`, `[]ClosedIsForgotten`, `MissedOnePerDeparture` |
| `AutomationProofs` | `TypeCorrect`, `CooldownBounded`, `DeletedSilent` | `[]TypeOK`, `[]CooldownBound`, `DeletedNeverFires` |
| `ConfigVersionsProofs` | `TypeCorrect`, `Gapless`, `Twins` | `[]TypeOK`, `[]NumbersGapless`, `[]TwinsOverlapped` |
| | `Meaning`, `Applied` | `VersionsKeepMeaning`, `ImportApplied` |
| `CommandListenerProofs` | `TypeCorrect` | `[]TypeOK` |
| | `Silence`, `Deafness` | `[]StoppedIsSilent`, `[]DeafOnlyIfLost` |

The type invariants are proved; only the run of `Automation` repeats one, which says
where the iterators of the dict may point. `SyncedDelivered` is proved with cleanup
scheduled as well; `buffer_safety` checks it without.

**The buffer.** `NoLoss` is not inductive. A flush holds rows it read before
other flushes ran, and marks them by number after the write, so `FlowInv` says
what a batch is worth at each place: `BatchRows` (each pair of a batch names a row
that still holds that reading, synced or not), `OneFlusher` (the loop flushes while
the process is up and `stop()` while it stops; with cleanup scheduled, when row
numbers may be handed out again, the rows of a batch are still unsynced:
`CleanupAssumption` excludes the unsafe case, requests beside cleanup), and
`WrittenBeforeMark` (at "mark" the whole batch is in InfluxDB). For the order, `OrderInv` adds `OneAtATime` (a
sensor has one `add()` under way) and `BatchPrefix` (a waiting reading that is
older than one of a fetched batch, of the same sensor, is in that batch or in
InfluxDB already). It is kept by an insert because the new reading is the
youngest of its sensor, and by a mark because that only takes waiting rows
away. The refinement maps `accepted` to the readings whose `add()` returned, `held` to the unsynced
rows and `delivered` to `influx`; marking a batch is `Release`, the write is
`Deliver`, and a crash is a stutter.

**The northbound service.** `SingleReconnect` is inductive with the types, and
holds for any number of requests. Sessions need `ServiceInv`: until the first
PUT, only the boot task and the one reconnect loop past its lock touch the
client, so every open client is the service's or the one that task holds, and
`_connected` is set only with it. The theorems are stated for `puts = 0`
because they are false after that (section 7).

**The orchestrator.** `RegisteredIsPolled` needs to know where a driver can be
between a stop and a start. `RegistryInv` says that a driver being added is its
adder's own and runs (`AdderInv`), that one being removed has left the registry
(`RemoverInv`), that a driver with a loop runs (`LoopInv`), and that the
registered driver runs with a loop, or a restart holds it at the place from
which it goes on to start it or to give it a loop (`RegInv`).

**The orchestrator, one request at a time.** `SinglePoller`, `DeletedIsStopped`
and `RowApplied` are false when requests overlap (section 6 and
`orchestrator_pollers`), so their theorems have the hypothesis `Serial`, that
`Requests` has at most one member: the instance of `orchestrator_serial`.
Nothing else is bounded: any number of driver objects and configurations, crashes
at any step, loading at start-up before the request. `SerialInv` is the invariant:
either the loading at start-up or the request is at work (`OneAtWork`), so what it
read of the row is still the row (`Asked`); nothing polls but the registered
driver, and no poll loop has strayed from `_task` (`PollerInv`); where a task is tells
whether the registry is empty and which driver it holds (`Place`). A new driver is
then added to an empty registry, after the old one was stopped. `AppliedInv` follows
the configuration on its way: a task that awaits the connect of a new driver has
given it the configuration it is about to commit, and one that awaits the commit
has the registry as the row will want it. `RowIsApplied` excludes failing commits, because
the driver is changed before the commit (`routes/sensors.py:423`).

**The bus.** `LockInv` says that `ahead` orders the queue totally and that a task
in "open" or "busy" has nobody ahead, which gives exclusion; `OffInv` says that a
driver runs unless it is off or stopping, and what one that is off has let go of.
`StopLeavesNothing` claims the place in the queue from the moment the poll loop is
cancelled, client and status from the return of `stop()`, as does
`StoppedIsNotWritten`: between the two a write does go out (section 7). `LockNeverLost` is
the safety half of `Served`: of finitely many tasks in the queue the one with the
fewest ahead has nobody ahead, since whoever it waited for would have fewer, and by
the total order it is the only one.

**The registers.** The ranks of the registers of a type are 1 to their number, one
each (`Ranks`, `EveryRank`), so the sorted list has the same registers in ascending
order (`SortedIs`). A block runs from a start to before the next (`BlockIs`), and going
back from any register to the last start finds its block (`InABlock`). A register
of a block lies between its first and its last; the answer reaches to the end of
the last, which begins no earlier, and has two words if it begins at the same
address as a register of two (that is what `Shadowed` excludes): so the places the
register is decoded from exist and hold its own words (`PlacesAsked`, `OwnDecoded`).
For `BlocksMinimal`, registers that do not overlap end in the order in which they
begin, so the one just before is the nearest (`EndsInOrder`, `StartsApart`). Lists of any
length, any natural addresses, any `MaxGap`.

**The browsers.** A connection that is open is in the list, once, and one that is
new or closed is nowhere (`Listed`, `OnceEach`); a job keeps no connection that has not come
yet and takes for dead none that is open (`JobsSound`): `Forgotten` follows, since
only a connection that is there is ever added. For `MissedFew`, the clients that are owed
the message and lie before the position of the loop are no more than the
departures (`SkippedFew`): the loop moves past a client by serving it, and a removal of k
clients moves each client of the list by k places at most, so at most k of them get
behind the position (`Skips`). When the loop ends all that are owed lie behind it.
Nothing is claimed of a broadcast that is cancelled, and its job starts afresh
(`CancelledSteps`).

**The rules.** `Shape` says that the dict names each rule once and how far its
iterators are; `DeletedSilent` follows because an evaluation takes the rule it
fires from the dict itself. `CooldownBounded` needs to know how many writes are
still possible. Call an evaluation *old* if its `now` is from before the window began,
and let `Yet` be the old ones that may still write in the window, `Free` those that can no
longer set `last_triggered` back, `f` their number. Each old one may write once, and
once it has set `last_triggered` back to before the window, every evaluation may
that is not writing already (`Others`): `Owing` is whichever of the two sets applies. `Budget` says
`2 (writes + |Owing|) <= 2n + f(f + 1)`: a setting back adds one evaluation to
`Free`, and `f` more writes become possible, which is the difference of the right side. With `f <= n`
this is the bound. TLC checked `Shape` and `Budget` before they were proved.

**The versions.** `Gapless` needs more than the numbers in use: `Upto(k)` says
that these are 1 to k, that there are at least k versions, and that no request
has read a number beyond k + 1. Numbers are read from the table, so the next is
k + 1 (`NextIs`), and a commit adds a number that is in use or the next.
`AboveKnown` ties a number to the versions its reader knew, in a request and in a
version alike, which gives `Twins`. `Meaning` follows from the table only
growing: one more version of a number makes the rollback fail. `Applied` needs
`SeenStay` (rows are never removed, so what was found is there at the commit) and
`NumberedLast` (who has a number has been through every entry). All of it holds for
any sensors, files, entries that raise, requests that overlap and commits that fail.

**The message drivers.** `DeafOnlyIfLost` and `StoppedIsSilent` are inductive
together with the types, `ClosingIsSilent` (the other loop has ended before
`stop()` closes the session) and `LeakHasRoom` (an open session that a failed
subscription left behind is not counted yet, so the count stays in its type).
The listener's steps touch none of the drivers' variables.

**Only model-checked**: liveness (`EventuallyDelivered`, `DirectModeResumes`,
`RequestsEnd`, both `Recovers`, `Served`, `OutageShown`, `RuleFires`, `Hears`,
`CommandsResume`), because liveness under fairness is beyond the prover. Every
invariant and every action property of the passing runs is proved: for all
values of the constants, or for those the run is about where the property is
false for others (`Serial`, `~CommitMayFail`, and `puts = 0` in `CloudSync`).
Decoding is proved for lists of registers whose types the code knows and whose counts
the API accepts (1 to 4, `routes/sensors.py:29`).

## 6. Where the code and its documents disagree

1. **A gateway that boots without InfluxDB never uses it** (`buffer_boot`).
   `influx_client.connect()` is tried once, `main.py:64`. `buffer.py:22-24`
   promises a flush when the connection is restored.
2. **Two updates, or two restarts, of one sensor leave two poll loops**
   (`orchestrator_pollers`), and each reading is then stored and published
   twice. `orchestrator.py:140` overwrites a registration, `base.py:167` a task.

## 7. Other observations

Met while modelling. No run asserts them: no document promises the opposite, or
a single line of code shows them.

- `stop()` flushes one batch of at most 100 rows (`buffer.py:56`), where its
  docstring speaks of the remaining data (l. 48). What is left is kept.
- A flush that leaves rows behind sets `_cloud_available` (`buffer.py:176`), so
  direct writes overtake the backlog. `FlushFIFO` is about flushes only.
- With cleanup scheduled *and* an overlapping flush, a row number can be handed
  out again while a flush still holds it and would mark a reading never sent
  (`buffer.py:168,187`). `cleanup_synced()` has no caller today.
- A first connect to the broker that fails is never retried: `start()` schedules
  nothing (`cloud_sync.py:91`), and `send_reading()` returns before the publish
  that would (l. 121), where lines 115-116 say "the reconnect loop will restore
  service".
- A change of `twin_entity_id` alone does not reach the orchestrator:
  `routes/sensors.py:369` does not set `needs_restart`; the repository's
  `README.md:214` says the sensor publishes on its own device's topic.
- A PUT that overlaps a reconnect overwrites a client that was just opened: its
  session stays open at the broker (`config.py:92`, `cloud_sync.py:34-36`).
- A DELETE that falls into the half second of sleep of a restart leaves the
  driver polling, unregistered (`routes/sensors.py:448`, `base.py:193`).
- A write that waits for the lock of a gateway while its sensor is stopped goes out
  when the poll loop is cancelled and before `disconnect()` has dropped the
  client (`base.py:178-183`, `modbus.py:352`), although `write_sensor()` refuses a
  driver that does not run (`orchestrator.py:197`).
- `_error_count` is not reset by a reconnect (`base.py:336`): after the limit each
  failed reading reconnects again. `Recovers` shows that this does not last.
- A two-word register with a one-word register at the same address further down
  the list ends the answer one word early (`modbus.py:234`): every reading of the
  sensor fails with an `IndexError`. Registers of three or four words, which the
  API accepts (`routes/sensors.py:29`), are decoded as their first word
  (`modbus.py:255`). A long run of neighbours becomes one transaction, however
  many words that is; Modbus allows 125.
- MQTT and CAN drivers do not notice that their message loop ended
  (`mqtt.py:189-192`, `canbus.py:193-202`): the sensor stays online and silent
  (`Deaf`). An MQTT driver ends there when its session is lost; a CAN driver also when
  a callback raises (`canbus.py:152`).
- A subscription that fails leaves its session open (`mqtt.py:75`), and the next
  connect leaves nobody who could close it.
- A broadcast skips a client when another leaves: `websocket.py:70` iterates over
  the live list across the await of each send; l. 63 says "to all connected
  clients". `MissedOnePerDeparture` says how far this goes.
- A sensor that is stopped cuts its broadcast short: `CancelledError` passes
  `except Exception` (`websocket.py:74`), the browsers further down the list miss
  that message and the dead connections it met are not removed by it.
- A browser that subscribes to a sensor is sent each value twice
  (`websocket.py:95` and `125`).
- The cooldown of a rule is tested before and set after an await
  (`automation.py:106,149`), and set to a `now` from before the write: with n
  sensors a rule can write n + n(n+1)/2 times in one cooldown. A write that
  returns False uses the cooldown up, one that raises has none. A target formula
  that fails ends the evaluation of the rules after it (l. 145). Rules are kept in
  memory only.
- Two imports that overlap get the same version number (`config.py:238-243`; the
  column is not unique), and a rollback to it fails with `MultipleResultsFound`
  (l. 309) from then on.
- An import with errors answers `"success": True` and keeps the whole file as the
  new version, the entries it skipped included (`config.py:243-267`): rolling back to
  it tries them again.
- A rollback or an import changes rows: it neither brings a deleted sensor back,
  nor removes one that is not in the file, nor restarts a driver. A file
  exported without credentials (l. 175) erases the passwords when imported.
- The CSV engine does not catch up: a summary that failed or fell into a time
  the gateway was down is never written, and compressing a file starts its
  retention anew (`csv_engine.py`).
- A browser that does not read holds up every poll loop, which awaits its
  callbacks without a time-out (`orchestrator.py:274`).

## 8. What is not modelled

- *Data*: payloads, topics, formulas, conditions, wording of messages. A formula, a
  configuration and a device are model values; which conditions hold is chosen
  freely.
- *Read-only parts*: InfluxDB queries, metrics, status, the system driver.
- *No control to model*: formula engine (an interpreter of expressions), SDM
  inference (keywords), settings, authentication (stateless checks), database
  sessions (their commits appear where they matter).
- *Nothing happens*: report jobs are rows no code executes; virtual outputs are
  never registered with the orchestrator.
- *No partner to meet*: the CSV engine is one loop on files of its own.
- *Other programs*: the Vue frontend and the deployment scripts.
- *Yet to come*: section 9.

## 9. Plan

Done: all modules of section 2, and proofs of every invariant and action property
that a passing run checks. Left, in this order:

1. **Routes in `CloudSync`**: which device a reading goes to
   (`_resolve_route`, l. 146-200).
2. **The driver behind a configuration version**: an import beside the requests
   of `Orchestrator`, whose drivers it does not restart.
3. **`CsvReports`**: the daily file, its compression and removal
   (`csv_engine.py:63-319`) under a crash at any step.

---------------------------- MODULE Orchestrator ----------------------------
(***************************************************************************)
(* The life of one sensor's driver: DriverOrchestrator of                  *)
(* backend/app/services/orchestrator.py, start(), stop() and restart() of  *)
(* BaseDriver (backend/app/drivers/base.py), the handlers that create,     *)
(* update, delete and restart a sensor (backend/app/api/routes/sensors.py) *)
(* and the part of lifespan() that loads the sensors (backend/app/main.py).*)
(*                                                                         *)
(* The registry _drivers is keyed by sensor, and every operation touches   *)
(* the entry of its own sensor only, so one sensor stands for all of them. *)
(* What does interfere is requests for the same sensor: each handler gives *)
(* way at its database reads, at driver.start(), driver.stop() and the     *)
(* commit, and nothing serializes them.  A driver object whose poll loop   *)
(* has ended and that nothing refers to is garbage, and is used again.     *)
(***************************************************************************)
EXTENDS Naturals, FiniteSets

CONSTANTS
    Requests,       \* HTTP requests served at once
    Drivers,        \* driver objects
    NoDriver,
    NoRow,
    NoFormula,
    NoTwin,
    Confs,          \* connection parameters, intervals and registers
    BadConfs,       \* those a driver's constructor rejects
    Formulas,
    Twins,          \* values of twin_entity_id
    CommitMayFail   \* can a commit fail (database locked)?

ASSUME NamesAssumption ==
    /\ "boot" \notin Requests
    /\ NoDriver \notin Drivers
    /\ BadConfs \subseteq Confs
    /\ CommitMayFail \in BOOLEAN
    /\ NoRow \notin [deleted : BOOLEAN, active : BOOLEAN, conf : Confs,
                     formula : Formulas, twin : Twins]

Tasks == Requests \cup {"boot"}

VARIABLES
    row,         \* the sensor's committed row
    registered,  \* _drivers.get(sensor_id)
    formula,     \* _formulas.get(sensor_id)
    twin,        \* _twin_entities.get(sensor_id)
    driver,      \* the driver objects
    pc,          \* where each task is
    op,          \* what each task does
    seen,        \* the row it read
    want,        \* the row it is going to commit
    held         \* the driver it starts or stops

vars == <<row, registered, formula, twin, driver, pc, op, seen, want, held>>
dicts == <<registered, formula, twin>>
job == <<op, seen, want>>

Row == [deleted : BOOLEAN, active : BOOLEAN, conf : Confs,
        formula : Formulas, twin : Twins]

(* loop: the driver's _task is a poll loop that runs; stray: so does one   *)
(* that _task no longer names.                                             *)
Driver == [running : BOOLEAN, loop : BOOLEAN, stray : BOOLEAN, conf : Confs \cup {NoDriver}]

Unused == [running |-> FALSE, loop |-> FALSE, stray |-> FALSE, conf |-> NoDriver]

TypeOK ==
    /\ row \in Row \cup {NoRow}
    /\ registered \in Drivers \cup {NoDriver}
    /\ formula \in Formulas \cup {NoFormula}
    /\ twin \in Twins \cup {NoTwin}
    /\ driver \in [Drivers -> Driver]
    /\ pc \in [Tasks -> {"down", "idle", "read", "stopping", "sleep", "connecting", "commit"}]
    /\ op \in [Tasks -> {"none", "boot", "create", "update", "delete", "restart"}]
    /\ seen \in [Tasks -> Row \cup {NoRow}]
    /\ want \in [Tasks -> Row \cup {NoRow}]
    /\ held \in [Tasks -> Drivers \cup {NoDriver}]

Down == [t \in Tasks |-> IF t = "boot" THEN "down" ELSE "idle"]

Init ==
    /\ row = NoRow
    /\ registered = NoDriver /\ formula = NoFormula /\ twin = NoTwin
    /\ driver = [d \in Drivers |-> Unused]
    /\ pc = Down
    /\ op = [t \in Tasks |-> "none"]
    /\ seen = [t \in Tasks |-> NoRow]
    /\ want = [t \in Tasks |-> NoRow]
    /\ held = [t \in Tasks |-> NoDriver]

Live(r) == r # NoRow /\ ~r.deleted

Polling(d) == driver[d].loop \/ driver[d].stray

Garbage(d) ==
    /\ d # registered
    /\ \A t \in Tasks : held[t] # d
    /\ ~driver[d].running /\ ~Polling(d)

-----------------------------------------------------------------------------
(* Parts of the tasks' steps.                                              *)

Goto(t, label) == pc' = [pc EXCEPT ![t] = label]

Finish(t) ==
    /\ Goto(t, "idle")
    /\ op' = [op EXCEPT ![t] = "none"]
    /\ seen' = [seen EXCEPT ![t] = NoRow]
    /\ want' = [want EXCEPT ![t] = NoRow]

(* The end of add_sensor() and remove_sensor() in a handler, or at start-up. *)
Return(t) ==
    /\ held' = [held EXCEPT ![t] = NoDriver]
    /\ IF t = "boot" THEN Finish(t)
       ELSE Goto(t, "commit") /\ UNCHANGED job

(* add_sensor() from the constructor to the await in driver.start().       *)
StartDriver(t, popped) ==
    \/ /\ want[t].conf \notin BadConfs
       /\ \E d \in Drivers :
             /\ Garbage(d)
             /\ driver' = [driver EXCEPT ![d] =
                    [running |-> TRUE, loop |-> FALSE, stray |-> FALSE, conf |-> want[t].conf]]
             /\ held' = [held EXCEPT ![t] = d]
       /\ formula' = want[t].formula
       /\ twin' = want[t].twin
       /\ Goto(t, "connecting")
       /\ UNCHANGED job
    \/ /\ want[t].conf \in BadConfs
       /\ formula' = IF popped THEN NoFormula ELSE formula
       /\ UNCHANGED <<driver, twin>>
       /\ Return(t)

RegisteredRuns == registered # NoDriver /\ driver[registered].running

(* driver.stop() to its await: the poll loop that _task names is cancelled. *)
Stopped(d) == [driver EXCEPT ![d].running = FALSE, ![d].loop = FALSE]

(* Mutant: the driver leaves the registry and runs on.                     *)
RemoveRunning(t) ==
    /\ RegisteredRuns
    /\ held' = [held EXCEPT ![t] = registered]
    /\ registered' = NoDriver
    /\ formula' = NoFormula
    /\ Goto(t, "stopping")
    /\ UNCHANGED <<driver, twin, job>>

(* remove_sensor() to the await in stop().                                 *)
Remove(t) ==
    /\ RegisteredRuns
    /\ driver' = Stopped(registered)
    /\ held' = [held EXCEPT ![t] = registered]
    /\ registered' = NoDriver
    /\ formula' = NoFormula
    /\ Goto(t, "stopping")
    /\ UNCHANGED <<twin, job>>

AddSensor(t) ==
    \/ Remove(t)
    \/ /\ ~RegisteredRuns
       /\ registered' = NoDriver
       /\ StartDriver(t, registered # NoDriver)

RemoveSensor(t) ==
    \/ Remove(t)
    \/ /\ ~RegisteredRuns
       /\ registered' = NoDriver
       /\ formula' = NoFormula
       /\ UNCHANGED <<driver, twin>>
       /\ Return(t)

UpdateFormula(t) ==
    /\ formula' = IF registered # NoDriver THEN want[t].formula ELSE formula
    /\ UNCHANGED <<registered, twin, driver>>
    /\ Return(t)

(* restart_sensor(): a driver that does not run has nothing to stop.       *)
RestartDriver(t) ==
    \/ /\ registered = NoDriver
       /\ Finish(t)
       /\ UNCHANGED <<driver, held>>
    \/ /\ registered # NoDriver
       /\ held' = [held EXCEPT ![t] = registered]
       /\ driver' = IF RegisteredRuns THEN Stopped(registered) ELSE driver
       /\ Goto(t, IF RegisteredRuns THEN "stopping" ELSE "sleep")
       /\ UNCHANGED job

-----------------------------------------------------------------------------
(* The requests.                                                           *)

(* Bound: there is a driver object for every request under way.            *)
RoomForAnother ==
    Cardinality({d \in Drivers : Garbage(d)}) > Cardinality({r \in Requests : pc[r] # "idle"})

Begin(r, what, new) ==
    /\ pc["boot"] = "idle" /\ pc[r] = "idle"
    /\ RoomForAnother
    /\ Goto(r, "read")
    /\ op' = [op EXCEPT ![r] = what]
    /\ seen' = [seen EXCEPT ![r] = row]
    /\ want' = [want EXCEPT ![r] = new]
    /\ UNCHANGED <<row, dicts, driver, held>>

(* POST /sensors up to flush(), which takes SQLite's write lock: one new   *)
(* sensor at a time has this number.                                       *)
Create(r) ==
    /\ row = NoRow
    /\ \A q \in Requests : op[q] # "create"
    /\ \E new \in Row : ~new.deleted /\ new.active /\ Begin(r, "create", new)

(* PATCH, DELETE and POST restart up to the row they read.                 *)
Update(r) ==
    /\ Live(row)
    /\ \E new \in Row : ~new.deleted /\ Begin(r, "update", new)

Delete(r) ==
    /\ Live(row)
    /\ Begin(r, "delete", [row EXCEPT !.deleted = TRUE, !.active = FALSE])

Restart(r) ==
    /\ Live(row)
    /\ Begin(r, "restart", row)

(* Mutant: new connection parameters alone do not restart the driver.      *)
NeedsRestartActive(t) == want[t].active # seen[t].active

NeedsRestart(t) ==
    \/ want[t].conf # seen[t].conf
    \/ want[t].active # seen[t].active

ApplyUpdate(t) ==
    \/ NeedsRestart(t) /\ want[t].active /\ AddSensor(t)
    \/ NeedsRestart(t) /\ ~want[t].active /\ RemoveSensor(t)
    \/ ~NeedsRestart(t) /\ want[t].formula # seen[t].formula /\ UpdateFormula(t)
    \/ /\ ~NeedsRestart(t) /\ want[t].formula = seen[t].formula
       /\ UNCHANGED <<dicts, driver>>
       /\ Return(t)

(* The handler goes on with the row it has read.                           *)
Apply(r) ==
    /\ pc[r] = "read"
    /\ \/ op[r] = "create" /\ AddSensor(r)
       \/ op[r] = "update" /\ ApplyUpdate(r)
       \/ op[r] = "delete" /\ RemoveSensor(r)
       \/ op[r] = "restart" /\ RestartDriver(r) /\ UNCHANGED dicts
    /\ UNCHANGED row

(* stop() returns: add_sensor() goes on without looking at the registry    *)
(* again.                                                                  *)
StopReturns(t) ==
    /\ pc[t] = "stopping"
    /\ \/ /\ op[t] \in {"create", "update"} /\ want[t].active
          /\ StartDriver(t, FALSE)
          /\ UNCHANGED registered
       \/ /\ op[t] \in {"update", "delete"} /\ ~want[t].active
          /\ Return(t)
          /\ UNCHANGED <<dicts, driver>>
       \/ /\ op[t] = "restart"
          /\ Goto(t, "sleep")
          /\ UNCHANGED <<dicts, driver, held, job>>
    /\ UNCHANGED row

(* Mutant: start() waits for a driver that runs already.                   *)
StartAgainWaits(t) ==
    /\ pc[t] = "sleep"
    /\ ~driver[held[t]].running
    /\ driver' = [driver EXCEPT ![held[t]].running = TRUE]
    /\ Goto(t, "connecting")
    /\ UNCHANGED <<held, job>>
    /\ UNCHANGED <<row, dicts>>

(* restart() after its sleep: start() to its await.                        *)
StartAgain(t) ==
    /\ pc[t] = "sleep"
    /\ \/ /\ ~driver[held[t]].running
          /\ driver' = [driver EXCEPT ![held[t]].running = TRUE]
          /\ Goto(t, "connecting")
          /\ UNCHANGED <<held, job>>
       \/ /\ driver[held[t]].running
          /\ held' = [held EXCEPT ![t] = NoDriver]
          /\ Finish(t)
          /\ UNCHANGED driver
    /\ UNCHANGED <<row, dicts>>

(* Mutant: a driver whose first connect fails has no poll loop.            *)
WithLoopIfOnline(d) == [driver EXCEPT ![d].loop = FALSE]

(* start() creates the poll loop whether or not connect() succeeded.  A    *)
(* loop that finds _running reset ends at once; one that _task named until *)
(* now goes on unnamed.                                                    *)
WithLoop(d) ==
    IF driver[d].running
    THEN [driver EXCEPT ![d].loop = TRUE, ![d].stray = @ \/ driver[d].loop]
    ELSE driver

Connected(t) ==
    /\ pc[t] = "connecting"
    /\ driver' = WithLoop(held[t])
    /\ \/ /\ op[t] = "restart"
          /\ held' = [held EXCEPT ![t] = NoDriver]
          /\ Finish(t)
          /\ UNCHANGED registered
       \/ /\ op[t] # "restart"
          /\ registered' = held[t]
          /\ Return(t)
    /\ UNCHANGED <<row, formula, twin>>

(* UPDATE of the columns the handler changed, or INSERT.                   *)
Column(new, old, current) == IF new # old THEN new ELSE current

Merged(r) ==
    IF op[r] = "create" THEN want[r]
    ELSE [deleted |-> Column(want[r].deleted, seen[r].deleted, row.deleted),
          active  |-> Column(want[r].active, seen[r].active, row.active),
          conf    |-> Column(want[r].conf, seen[r].conf, row.conf),
          formula |-> Column(want[r].formula, seen[r].formula, row.formula),
          twin    |-> Column(want[r].twin, seen[r].twin, row.twin)]

Commit(r) ==
    /\ pc[r] = "commit"
    /\ row' = Merged(r)
    /\ Finish(r)
    /\ UNCHANGED <<dicts, driver, held>>

CommitFail(r) ==
    /\ pc[r] = "commit"
    /\ CommitMayFail
    /\ Finish(r)
    /\ UNCHANGED <<row, dicts, driver, held>>

(* A poll loop that is not cancelled ends when it finds _running reset.    *)
StrayEnds(d) ==
    /\ driver[d].stray /\ ~driver[d].running
    /\ driver' = [driver EXCEPT ![d].stray = FALSE]
    /\ UNCHANGED <<row, dicts, pc, job, held>>

-----------------------------------------------------------------------------
(* The process.                                                            *)

(* lifespan(): the driver of a sensor that is active and not deleted.      *)
Boot ==
    /\ pc["boot"] = "down"
    /\ \/ /\ Live(row) /\ row.active
          /\ op' = [op EXCEPT !["boot"] = "boot"]
          /\ want' = [want EXCEPT !["boot"] = row]
          /\ UNCHANGED <<seen, row, dicts, driver, held>>
          /\ Goto("boot", "read")
       \/ /\ ~(Live(row) /\ row.active)
          /\ Goto("boot", "idle")
          /\ UNCHANGED <<row, dicts, driver, job, held>>

BootAdds ==
    /\ pc["boot"] = "read"
    /\ AddSensor("boot")
    /\ UNCHANGED row

(* The process dies, or shuts down: orchestrator.stop() and the end of the *)
(* process leave nothing of it either.                                     *)
Crash ==
    /\ pc["boot"] # "down"
    /\ registered' = NoDriver /\ formula' = NoFormula /\ twin' = NoTwin
    /\ driver' = [d \in Drivers |-> Unused]
    /\ pc' = Down
    /\ op' = [t \in Tasks |-> "none"]
    /\ seen' = [t \in Tasks |-> NoRow]
    /\ want' = [t \in Tasks |-> NoRow]
    /\ held' = [t \in Tasks |-> NoDriver]
    /\ UNCHANGED row

TaskStep(t) == StopReturns(t) \/ StartAgain(t) \/ Connected(t)

RequestStep(r) == Apply(r) \/ Commit(r) \/ CommitFail(r)

Next ==
    \/ \E r \in Requests : Create(r) \/ Update(r) \/ Delete(r) \/ Restart(r)
    \/ \E r \in Requests : RequestStep(r)
    \/ \E t \in Tasks : TaskStep(t)
    \/ \E d \in Drivers : StrayEnds(d)
    \/ Boot \/ BootAdds \/ Crash

Spec == Init /\ [][Next]_vars

(* The event loop resumes every task whose await is over: connects time    *)
(* out, a cancelled poll loop ends, the database answers or refuses.       *)
Fairness ==
    /\ WF_vars(Boot) /\ WF_vars(BootAdds)
    /\ \A t \in Tasks : WF_vars(TaskStep(t))
    /\ \A r \in Requests : WF_vars(RequestStep(r))

LiveSpec == Spec /\ Fairness

-----------------------------------------------------------------------------
(* Properties.                                                             *)

(* A driver in the registry is polled, or a restart is at work on it:      *)
(* whatever requests overlap, no sensor is left registered and silent.     *)
RegisteredIsPolled ==
    registered # NoDriver =>
        \/ driver[registered].running /\ driver[registered].loop
        \/ \E t \in Tasks : held[t] = registered

(* A sensor is read by one poll loop at most ("The driver manages its own  *)
(* polling loop", drivers/base.py:49): with two, every reading is stored   *)
(* and published twice.                                                    *)
SinglePoller ==
    /\ \A d, e \in Drivers : Polling(d) /\ Polling(e) => d = e
    /\ \A d \in Drivers : ~(driver[d].loop /\ driver[d].stray)

AtRest == \A t \in Tasks : pc[t] = "idle"

(* "Soft-delete a sensor and stop its driver" (routes/sensors.py:437): a   *)
(* sensor that is deleted is not polled once its requests are over.        *)
DeletedIsStopped ==
    AtRest /\ row # NoRow /\ row.deleted => \A d \in Drivers : ~Polling(d)

(* Between requests the driver is the one the committed row asks for, with *)
(* its parameters and its formula, and there is none for a sensor that is  *)
(* inactive, deleted or cannot be constructed ("If connection params or    *)
(* is_active changes, driver will be restarted", routes/sensors.py:315).   *)
RowApplied ==
    AtRest =>
        /\ registered # NoDriver <=> Live(row) /\ row.active /\ row.conf \notin BadConfs
        /\ registered # NoDriver => driver[registered].conf = row.conf /\ formula = row.formula

(* Every request ends, whoever else works on the driver it waits for.      *)
RequestsEnd == \A r \in Requests : pc[r] # "idle" ~> pc[r] = "idle"
=============================================================================

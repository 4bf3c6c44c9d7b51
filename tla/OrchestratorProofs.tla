-------------------------- MODULE OrchestratorProofs --------------------------
(***************************************************************************)
(* What Orchestrator guarantees for any number of concurrent requests,     *)
(* drivers and configurations, and any number of crashes.                  *)
(***************************************************************************)
EXTENDS Orchestrator, TLAPS

Labels == {"down", "idle", "read", "stopping", "sleep", "connecting", "commit"}
Ops == {"none", "boot", "create", "update", "delete", "restart"}

-----------------------------------------------------------------------------
(* Type correctness.  A task that works knows the row it wants, and one    *)
(* that changes a row has read it: rows are never taken away.              *)
JobInv ==
    \A t \in Tasks :
        /\ pc[t] \in {"read", "stopping", "sleep", "connecting", "commit"} => op[t] # "none"
        /\ op[t] # "none" => want[t] \in Row
        /\ op[t] \in {"update", "delete", "restart"} => seen[t] \in Row /\ row \in Row
        /\ op[t] = "boot" => t = "boot"
        /\ t = "boot" => op[t] \in {"none", "boot"}

(* The tasks that wait for a driver know which.                            *)
HoldInv ==
    \A t \in Tasks :
        /\ pc[t] \in {"stopping", "sleep", "connecting"} => held[t] \in Drivers
        /\ pc[t] = "sleep" => op[t] = "restart"

TypeInv == TypeOK /\ JobInv /\ HoldInv

(* What a part of a step does to one task's bookkeeping.                   *)
TaskTypes ==
    /\ pc' \in [Tasks -> Labels]
    /\ op' \in [Tasks -> Ops]
    /\ seen' \in [Tasks -> Row \cup {NoRow}]
    /\ want' \in [Tasks -> Row \cup {NoRow}]

DriverTypes ==
    /\ registered' \in Drivers \cup {NoDriver}
    /\ formula' \in Formulas \cup {NoFormula}
    /\ twin' \in Twins \cup {NoTwin}
    /\ driver' \in [Drivers -> Driver]
    /\ held' \in [Tasks -> Drivers \cup {NoDriver}]

LEMMA FinishType ==
    ASSUME TypeInv, NEW t \in Tasks, Finish(t)
    PROVE  TaskTypes /\ (row' = row => JobInv')
<1>1. TaskTypes
      BY DEF Finish, Goto, TypeInv, TypeOK, TaskTypes, Labels, Ops
<1>2. /\ pc'[t] = "idle" /\ op'[t] = "none"
      /\ \A u \in Tasks \ {t} : /\ pc'[u] = pc[u] /\ op'[u] = op[u]
                                /\ seen'[u] = seen[u] /\ want'[u] = want[u]
      BY DEF Finish, Goto, TypeInv, TypeOK
<1>3. ASSUME row' = row PROVE JobInv'
      BY <1>2, <1>3 DEF TypeInv, JobInv, Row
<1>4. QED  BY <1>1, <1>3

LEMMA GotoType ==
    ASSUME TypeInv, NEW t \in Tasks, op[t] # "none", NEW label \in Labels, Goto(t, label), UNCHANGED job
    PROVE  TaskTypes /\ (row' = row => JobInv')
<1>1. TaskTypes
      BY DEF Goto, job, TypeInv, TypeOK, TaskTypes, Labels, Ops
<1>2. UNCHANGED <<op, seen, want>> /\ \A u \in Tasks \ {t} : pc'[u] = pc[u]
      BY DEF Goto, job, TypeInv, TypeOK
<1>3. ASSUME row' = row PROVE JobInv'
      BY <1>2, <1>3 DEF TypeInv, JobInv, Row
<1>4. QED  BY <1>1, <1>3

LEMMA ReturnType ==
    ASSUME TypeInv, NEW t \in Tasks, op[t] # "none", Return(t)
    PROVE  /\ TaskTypes /\ (row' = row => JobInv')
           /\ held' = [held EXCEPT ![t] = NoDriver]
           /\ pc'[t] \in {"idle", "commit"}
           /\ \A u \in Tasks \ {t} : pc'[u] = pc[u] /\ op'[u] = op[u]
<1>1. CASE Finish(t)
      BY <1>1, FinishType DEF Return, Finish, Goto, TypeInv, TypeOK
<1>2. CASE Goto(t, "commit") /\ UNCHANGED job
  <2>1. TaskTypes /\ (row' = row => JobInv')
        BY <1>2, GotoType DEF Labels
  <2>2. QED  BY <1>2, <2>1 DEF Return, Goto, job, TypeInv, TypeOK
<1>3. QED  BY <1>1, <1>2 DEF Return

(* The step of one task that leaves the row alone.                         *)
LEMMA TaskType ==
    ASSUME TypeInv, NEW t \in Tasks, TaskTypes, DriverTypes, row' = row, JobInv',
           \A u \in Tasks \ {t} : pc'[u] = pc[u] /\ op'[u] = op[u] /\ held'[u] = held[u],
           pc'[t] \in {"stopping", "sleep", "connecting"} => held'[t] \in Drivers,
           pc'[t] = "sleep" => op'[t] = "restart"
    PROVE  TypeInv'
<1>1. TypeOK'
      BY DEF TypeInv, TypeOK, TaskTypes, DriverTypes, Labels, Ops
<1>2. HoldInv'
      BY DEF TypeInv, HoldInv
<1>3. QED  BY <1>1, <1>2 DEF TypeInv

LEMMA ReturnTaskType ==
    ASSUME TypeInv, NEW t \in Tasks, op[t] # "none", Return(t), row' = row,
           registered' \in Drivers \cup {NoDriver}, formula' \in Formulas \cup {NoFormula},
           twin' \in Twins \cup {NoTwin}, driver' \in [Drivers -> Driver]
    PROVE  TypeInv'
<1>1. /\ TaskTypes /\ JobInv'
      /\ held' = [held EXCEPT ![t] = NoDriver] /\ pc'[t] \in {"idle", "commit"}
      /\ \A u \in Tasks \ {t} : pc'[u] = pc[u] /\ op'[u] = op[u]
      BY ReturnType
<1>2. DriverTypes
      BY <1>1 DEF DriverTypes, TypeInv, TypeOK
<1>3. \A u \in Tasks \ {t} : held'[u] = held[u]
      BY <1>1 DEF TypeInv, TypeOK
<1>4. QED  BY <1>1, <1>2, <1>3, TaskType

LEMMA StartDriverType ==
    ASSUME TypeInv, NEW t \in Tasks, op[t] # "none", NEW popped, StartDriver(t, popped), row' = row,
           registered' \in Drivers \cup {NoDriver}
    PROVE  TypeInv'
<1>0. want[t] \in Row
      BY DEF TypeInv, JobInv
<1>1. CASE want[t].conf \notin BadConfs
  <2>1. PICK d \in Drivers :
             /\ driver' = [driver EXCEPT ![d] =
                    [running |-> TRUE, loop |-> FALSE, stray |-> FALSE, conf |-> want[t].conf]]
             /\ held' = [held EXCEPT ![t] = d]
        BY <1>1 DEF StartDriver
  <2>2. /\ formula' = want[t].formula /\ twin' = want[t].twin
        /\ Goto(t, "connecting") /\ UNCHANGED job
        BY <1>1 DEF StartDriver
  <2>3. TaskTypes /\ JobInv'
        BY <2>2, GotoType DEF Labels
  <2>4. [running |-> TRUE, loop |-> FALSE, stray |-> FALSE, conf |-> want[t].conf] \in Driver
        BY <1>0 DEF Driver, Row
  <2>5. driver' \in [Drivers -> Driver]
        BY <2>1, <2>4 DEF TypeInv, TypeOK
  <2>6. DriverTypes
        BY <1>0, <2>1, <2>2, <2>5 DEF DriverTypes, TypeInv, TypeOK, Row
  <2>7. /\ pc'[t] = "connecting" /\ held'[t] = d
        /\ \A u \in Tasks \ {t} : pc'[u] = pc[u] /\ op'[u] = op[u] /\ held'[u] = held[u]
        BY <2>1, <2>2 DEF Goto, job, TypeInv, TypeOK
  <2>8. QED  BY <2>3, <2>6, <2>7, TaskType
<1>2. CASE want[t].conf \in BadConfs
  <2>1. Return(t) /\ UNCHANGED <<driver, twin>> /\ formula' \in {NoFormula, formula}
        BY <1>2 DEF StartDriver
  <2>2. QED  BY <2>1, ReturnTaskType DEF TypeInv, TypeOK
<1>3. QED  BY <1>1, <1>2

LEMMA StoppedType ==
    ASSUME TypeInv, NEW d \in Drivers
    PROVE  Stopped(d) \in [Drivers -> Driver]
<1>1. [driver[d] EXCEPT !.running = FALSE, !.loop = FALSE] \in Driver
      BY DEF TypeInv, TypeOK, Driver
<1>2. QED  BY <1>1 DEF Stopped, TypeInv, TypeOK, Driver

LEMMA RemoveType ==
    ASSUME TypeInv, NEW t \in Tasks, op[t] # "none", Remove(t), row' = row
    PROVE  TypeInv'
<1>1. registered \in Drivers
      BY DEF Remove, RegisteredRuns, TypeInv, TypeOK
<1>2. TaskTypes /\ JobInv'
      BY GotoType DEF Remove, Labels
<1>3. driver' \in [Drivers -> Driver]
      BY <1>1, StoppedType DEF Remove
<1>4. DriverTypes
      BY <1>1, <1>3 DEF Remove, DriverTypes, TypeInv, TypeOK
<1>5. /\ pc'[t] = "stopping" /\ held'[t] = registered
      /\ \A u \in Tasks \ {t} : pc'[u] = pc[u] /\ op'[u] = op[u] /\ held'[u] = held[u]
      BY DEF Remove, Goto, job, TypeInv, TypeOK
<1>6. QED  BY <1>1, <1>2, <1>4, <1>5, TaskType

LEMMA AddSensorType ==
    ASSUME TypeInv, NEW t \in Tasks, op[t] # "none", AddSensor(t), row' = row
    PROVE  TypeInv'
<1>1. CASE Remove(t)
      BY <1>1, RemoveType
<1>2. CASE registered' = NoDriver /\ StartDriver(t, registered # NoDriver)
      BY <1>2, StartDriverType
<1>3. QED  BY <1>1, <1>2 DEF AddSensor

LEMMA RemoveSensorType ==
    ASSUME TypeInv, NEW t \in Tasks, op[t] # "none", RemoveSensor(t), row' = row
    PROVE  TypeInv'
<1>1. CASE Remove(t)
      BY <1>1, RemoveType
<1>2. CASE /\ registered' = NoDriver /\ formula' = NoFormula
           /\ UNCHANGED <<driver, twin>> /\ Return(t)
      BY <1>2, ReturnTaskType DEF TypeInv, TypeOK
<1>3. QED  BY <1>1, <1>2 DEF RemoveSensor

LEMMA ApplyType ==
    ASSUME TypeInv, NEW r \in Requests, Apply(r)
    PROVE  TypeInv'
<1>0. r \in Tasks /\ op[r] # "none" /\ row' = row
      BY DEF Apply, Tasks
<1>1. CASE AddSensor(r)
      BY <1>0, <1>1, AddSensorType
<1>2. CASE RemoveSensor(r)
      BY <1>0, <1>2, RemoveSensorType
<1>3. CASE UpdateFormula(r)
  <2>1. want[r] \in Row
        BY <1>0 DEF TypeInv, JobInv
  <2>2. formula' \in Formulas \cup {NoFormula}
        BY <1>3, <2>1 DEF UpdateFormula, TypeInv, TypeOK, Row
  <2>3. QED  BY <1>0, <1>3, <2>2, ReturnTaskType DEF UpdateFormula, TypeInv, TypeOK
<1>4. CASE UNCHANGED <<dicts, driver>> /\ Return(r)
      BY <1>0, <1>4, ReturnTaskType DEF dicts, TypeInv, TypeOK
<1>5. CASE op[r] = "restart" /\ RestartDriver(r) /\ UNCHANGED dicts
  <2>1. CASE Finish(r) /\ UNCHANGED <<driver, held>>
    <3>1. TaskTypes /\ JobInv'
          BY <1>0, <2>1, FinishType
    <3>2. DriverTypes
          BY <1>5, <2>1 DEF dicts, DriverTypes, TypeInv, TypeOK
    <3>3. /\ pc'[r] = "idle"
          /\ \A u \in Tasks \ {r} : pc'[u] = pc[u] /\ op'[u] = op[u] /\ held'[u] = held[u]
          BY <1>0, <2>1 DEF Finish, Goto, TypeInv, TypeOK
    <3>4. QED  BY <1>0, <3>1, <3>2, <3>3, TaskType
  <2>2. CASE /\ registered # NoDriver
             /\ held' = [held EXCEPT ![r] = registered]
             /\ driver' = IF RegisteredRuns THEN Stopped(registered) ELSE driver
             /\ Goto(r, IF RegisteredRuns THEN "stopping" ELSE "sleep")
             /\ UNCHANGED job
    <3>1. registered \in Drivers
          BY <2>2 DEF TypeInv, TypeOK
    <3>2. TaskTypes /\ JobInv'
          BY <1>0, <2>2, GotoType DEF Labels
    <3>3. driver' \in [Drivers -> Driver]
          BY <2>2, <3>1, StoppedType DEF TypeInv, TypeOK
    <3>4. DriverTypes
          BY <1>5, <2>2, <3>1, <3>3 DEF dicts, DriverTypes, TypeInv, TypeOK
    <3>5. /\ pc'[r] \in {"stopping", "sleep"} /\ held'[r] = registered /\ op'[r] = "restart"
          /\ \A u \in Tasks \ {r} : pc'[u] = pc[u] /\ op'[u] = op[u] /\ held'[u] = held[u]
          BY <1>0, <1>5, <2>2 DEF Goto, job, TypeInv, TypeOK
    <3>6. QED  BY <1>0, <3>1, <3>2, <3>4, <3>5, TaskType
  <2>3. QED  BY <1>5, <2>1, <2>2 DEF RestartDriver
<1>6. QED  BY <1>1, <1>2, <1>3, <1>4, <1>5 DEF Apply, ApplyUpdate

LEMMA StopReturnsType ==
    ASSUME TypeInv, NEW t \in Tasks, StopReturns(t)
    PROVE  TypeInv'
<1>0. pc[t] = "stopping" /\ op[t] # "none" /\ row' = row
      BY DEF StopReturns, TypeInv, JobInv
<1>1. CASE StartDriver(t, FALSE) /\ UNCHANGED registered
      BY <1>0, <1>1, StartDriverType DEF TypeInv, TypeOK
<1>2. CASE Return(t) /\ UNCHANGED <<dicts, driver>>
      BY <1>0, <1>2, ReturnTaskType DEF dicts, TypeInv, TypeOK
<1>3. CASE op[t] = "restart" /\ Goto(t, "sleep") /\ UNCHANGED <<dicts, driver, held, job>>
  <2>1. TaskTypes /\ JobInv'
        BY <1>0, <1>3, GotoType DEF Labels
  <2>2. DriverTypes
        BY <1>3 DEF dicts, DriverTypes, TypeInv, TypeOK
  <2>3. held'[t] \in Drivers /\ op'[t] = "restart"
        BY <1>0, <1>3 DEF TypeInv, HoldInv, job
  <2>4. \A u \in Tasks \ {t} : pc'[u] = pc[u] /\ op'[u] = op[u] /\ held'[u] = held[u]
        BY <1>3 DEF Goto, job, TypeInv, TypeOK
  <2>5. QED  BY <1>0, <2>1, <2>2, <2>3, <2>4, TaskType
<1>4. QED  BY <1>1, <1>2, <1>3 DEF StopReturns

LEMMA StartAgainType ==
    ASSUME TypeInv, NEW t \in Tasks, StartAgain(t)
    PROVE  TypeInv'
<1>0. /\ pc[t] = "sleep" /\ op[t] # "none" /\ held[t] \in Drivers
      /\ row' = row /\ UNCHANGED dicts
      BY DEF StartAgain, TypeInv, JobInv, HoldInv
<1>1. CASE /\ driver' = [driver EXCEPT ![held[t]].running = TRUE]
           /\ Goto(t, "connecting") /\ UNCHANGED <<held, job>>
  <2>1. TaskTypes /\ JobInv'
        BY <1>0, <1>1, GotoType DEF Labels
  <2>2. driver' \in [Drivers -> Driver]
        BY <1>0, <1>1 DEF TypeInv, TypeOK, Driver
  <2>3. DriverTypes
        BY <1>0, <1>1, <2>2 DEF dicts, DriverTypes, TypeInv, TypeOK
  <2>4. /\ pc'[t] = "connecting" /\ held'[t] \in Drivers
        /\ \A u \in Tasks \ {t} : pc'[u] = pc[u] /\ op'[u] = op[u] /\ held'[u] = held[u]
        BY <1>0, <1>1 DEF Goto, job, TypeInv, TypeOK
  <2>5. QED  BY <1>0, <2>1, <2>3, <2>4, TaskType
<1>2. CASE held' = [held EXCEPT ![t] = NoDriver] /\ Finish(t) /\ UNCHANGED driver
  <2>1. TaskTypes /\ JobInv'
        BY <1>0, <1>2, FinishType
  <2>2. DriverTypes
        BY <1>0, <1>2 DEF dicts, DriverTypes, TypeInv, TypeOK
  <2>3. /\ pc'[t] = "idle"
        /\ \A u \in Tasks \ {t} : pc'[u] = pc[u] /\ op'[u] = op[u] /\ held'[u] = held[u]
        BY <1>2 DEF Finish, Goto, TypeInv, TypeOK
  <2>4. QED  BY <1>0, <2>1, <2>2, <2>3, TaskType
<1>3. QED  BY <1>1, <1>2 DEF StartAgain

LEMMA WithLoopType ==
    ASSUME TypeInv, NEW d \in Drivers
    PROVE  WithLoop(d) \in [Drivers -> Driver]
<1>1. CASE driver[d].running
  <2>1. [driver[d] EXCEPT !.loop = TRUE, !.stray = @ \/ driver[d].loop] \in Driver
        BY DEF TypeInv, TypeOK, Driver
  <2>2. QED  BY <1>1, <2>1 DEF WithLoop, TypeInv, TypeOK, Driver
<1>2. CASE ~driver[d].running
      BY <1>2 DEF WithLoop, TypeInv, TypeOK
<1>3. QED  BY <1>1, <1>2

LEMMA ConnectedType ==
    ASSUME TypeInv, NEW t \in Tasks, Connected(t)
    PROVE  TypeInv'
<1>0. /\ pc[t] = "connecting" /\ op[t] # "none" /\ held[t] \in Drivers
      /\ row' = row /\ UNCHANGED <<formula, twin>>
      BY DEF Connected, TypeInv, JobInv, HoldInv
<1>1. driver' \in [Drivers -> Driver]
      BY <1>0, WithLoopType DEF Connected
<1>2. CASE held' = [held EXCEPT ![t] = NoDriver] /\ Finish(t) /\ UNCHANGED registered
  <2>1. TaskTypes /\ JobInv'
        BY <1>0, <1>2, FinishType
  <2>2. DriverTypes
        BY <1>0, <1>1, <1>2 DEF DriverTypes, TypeInv, TypeOK
  <2>3. /\ pc'[t] = "idle"
        /\ \A u \in Tasks \ {t} : pc'[u] = pc[u] /\ op'[u] = op[u] /\ held'[u] = held[u]
        BY <1>2 DEF Finish, Goto, TypeInv, TypeOK
  <2>4. QED  BY <1>0, <2>1, <2>2, <2>3, TaskType
<1>3. CASE registered' = held[t] /\ Return(t)
      BY <1>0, <1>1, <1>3, ReturnTaskType DEF TypeInv, TypeOK
<1>4. QED  BY <1>2, <1>3 DEF Connected

LEMMA BeginType ==
    ASSUME TypeInv, NEW r \in Requests, NEW what \in {"create", "update", "delete", "restart"},
           NEW new \in Row, what # "create" => row \in Row, Begin(r, what, new)
    PROVE  TypeInv'
<1>0. r \in Tasks /\ r # "boot"
      BY NamesAssumption DEF Tasks
<1>1. TaskTypes
      BY <1>0 DEF Begin, Goto, TaskTypes, TypeInv, TypeOK, Labels, Ops
<1>2. DriverTypes /\ row' = row
      BY DEF Begin, dicts, DriverTypes, TypeInv, TypeOK
<1>3. /\ pc'[r] = "read" /\ op'[r] = what /\ seen'[r] = row /\ want'[r] = new
      /\ \A u \in Tasks \ {r} : /\ pc'[u] = pc[u] /\ op'[u] = op[u]
                                /\ seen'[u] = seen[u] /\ want'[u] = want[u]
                                /\ held'[u] = held[u]
      BY <1>0 DEF Begin, Goto, TypeInv, TypeOK
<1>4. JobInv'
      BY <1>0, <1>2, <1>3 DEF TypeInv, JobInv, Row
<1>5. QED  BY <1>0, <1>1, <1>2, <1>3, <1>4, TaskType

LEMMA MergedType ==
    ASSUME TypeInv, NEW r \in Requests, op[r] # "none"
    PROVE  Merged(r) \in Row
<1>1. r \in Tasks /\ r # "boot" /\ want[r] \in Row
      BY NamesAssumption DEF Tasks, TypeInv, JobInv
<1>2. CASE op[r] = "create"
      BY <1>1, <1>2 DEF Merged
<1>3. CASE op[r] # "create"
  <2>1. op[r] \in {"update", "delete", "restart"}
        BY <1>1, <1>3 DEF TypeInv, TypeOK, JobInv
  <2>2. seen[r] \in Row /\ row \in Row
        BY <1>1, <2>1 DEF TypeInv, JobInv
  <2>3. QED  BY <1>1, <1>3, <2>2 DEF Merged, Column, Row
<1>4. QED  BY <1>2, <1>3

LEMMA CommitType ==
    ASSUME TypeInv, NEW r \in Requests, Commit(r) \/ CommitFail(r)
    PROVE  TypeInv'
<1>0. r \in Tasks /\ pc[r] = "commit" /\ op[r] # "none"
      BY DEF Commit, CommitFail, Tasks, TypeInv, JobInv
<1>1. Finish(r) /\ UNCHANGED <<dicts, driver, held>>
      BY DEF Commit, CommitFail
<1>2. row' = row \/ row' \in Row
      BY <1>0, MergedType DEF Commit, CommitFail
<1>3. TaskTypes
      BY <1>0, <1>1, FinishType
<1>4. TypeOK'
      BY <1>1, <1>2, <1>3 DEF dicts, TaskTypes, TypeInv, TypeOK, Labels, Ops
<1>5. /\ pc'[r] = "idle" /\ op'[r] = "none"
      /\ \A u \in Tasks \ {r} : /\ pc'[u] = pc[u] /\ op'[u] = op[u]
                                /\ seen'[u] = seen[u] /\ want'[u] = want[u]
      BY <1>0, <1>1 DEF Finish, Goto, TypeInv, TypeOK
<1>6. Row' = Row
      BY DEF Row
<1>7. JobInv'
      BY <1>2, <1>5, <1>6 DEF TypeInv, JobInv
<1>8. HoldInv'
      BY <1>1, <1>5 DEF TypeInv, HoldInv
<1>9. QED  BY <1>4, <1>7, <1>8 DEF TypeInv

LEMMA CrashType ==
    ASSUME TypeInv, Crash
    PROVE  TypeInv'
<1>1. /\ registered' = NoDriver /\ formula' = NoFormula /\ twin' = NoTwin /\ row' = row
      /\ driver' = [d \in Drivers |-> Unused]
      /\ pc' = Down
      /\ op' = [t \in Tasks |-> "none"]
      /\ seen' = [t \in Tasks |-> NoRow]
      /\ want' = [t \in Tasks |-> NoRow]
      /\ held' = [t \in Tasks |-> NoDriver]
      BY DEF Crash
<1>2. driver' \in [Drivers -> Driver]
      BY <1>1 DEF Unused, Driver
<1>3. pc' \in [Tasks -> {"down", "idle"}]
      BY <1>1 DEF Down
<1>4. TypeOK'
      BY <1>1, <1>2, <1>3 DEF TypeInv, TypeOK
<1>5. JobInv' /\ HoldInv'
      BY <1>1, <1>3 DEF JobInv, HoldInv
<1>6. QED  BY <1>4, <1>5 DEF TypeInv

LEMMA TypeInit == Init => TypeInv
<1> SUFFICES ASSUME Init PROVE TypeInv
    OBVIOUS
<1>1. driver \in [Drivers -> Driver]
      BY DEF Init, Unused, Driver
<1>2. pc \in [Tasks -> {"down", "idle"}]
      BY DEF Init, Down
<1>3. TypeOK
      BY <1>1, <1>2 DEF Init, TypeOK
<1>4. JobInv /\ HoldInv
      BY <1>2 DEF Init, JobInv, HoldInv
<1>5. QED  BY <1>3, <1>4 DEF TypeInv

LEMMA BootType ==
    ASSUME TypeInv, Boot
    PROVE  TypeInv'
<1>0. "boot" \in Tasks
      BY DEF Tasks
<1>1. DriverTypes /\ row' = row /\ UNCHANGED held
      BY DEF Boot, dicts, DriverTypes, TypeInv, TypeOK
<1>2. CASE /\ Live(row)
           /\ op' = [op EXCEPT !["boot"] = "boot"]
           /\ want' = [want EXCEPT !["boot"] = row]
           /\ UNCHANGED seen /\ Goto("boot", "read")
  <2>1. row \in Row
        BY <1>2 DEF Live, TypeInv, TypeOK
  <2>2. TaskTypes
        BY <1>0, <1>2, <2>1 DEF Goto, TaskTypes, TypeInv, TypeOK, Labels, Ops
  <2>3. /\ pc'["boot"] = "read" /\ op'["boot"] = "boot" /\ want'["boot"] = row
        /\ \A u \in Tasks \ {"boot"} : /\ pc'[u] = pc[u] /\ op'[u] = op[u]
                                       /\ seen'[u] = seen[u] /\ want'[u] = want[u]
        BY <1>0, <1>2 DEF Goto, TypeInv, TypeOK
  <2>4. JobInv'
        BY <1>1, <2>1, <2>3 DEF TypeInv, JobInv, Row
  <2>5. QED  BY <1>0, <1>1, <2>2, <2>3, <2>4, TaskType
<1>3. CASE Goto("boot", "idle") /\ UNCHANGED job
  <2>1. TaskTypes
        BY <1>3 DEF Goto, job, TaskTypes, TypeInv, TypeOK, Labels, Ops
  <2>2. /\ pc'["boot"] = "idle" /\ UNCHANGED <<op, seen, want>>
        /\ \A u \in Tasks \ {"boot"} : pc'[u] = pc[u]
        BY <1>0, <1>3 DEF Goto, job, TypeInv, TypeOK
  <2>3. JobInv'
        BY <1>1, <2>2 DEF TypeInv, JobInv, Row
  <2>4. QED  BY <1>0, <1>1, <2>1, <2>2, <2>3, TaskType
<1>4. QED  BY <1>2, <1>3 DEF Boot

LEMMA TypeNext == TypeInv /\ [Next]_vars => TypeInv'
<1> SUFFICES ASSUME TypeInv, [Next]_vars PROVE TypeInv'
    OBVIOUS
<1>1. ASSUME NEW r \in Requests, Create(r) \/ Update(r) \/ Delete(r) \/ Restart(r)
      PROVE  TypeInv'
  <2>1. CASE Create(r)
        BY <2>1, BeginType DEF Create
  <2>2. CASE Update(r)
        BY <2>2, BeginType DEF Update, Live, TypeInv, TypeOK
  <2>3. CASE Delete(r) \/ Restart(r)
    <3>1. row \in Row
          BY <2>3 DEF Delete, Restart, Live, TypeInv, TypeOK
    <3>2. [row EXCEPT !.deleted = TRUE, !.active = FALSE] \in Row
          BY <3>1 DEF Row
    <3>3. QED  BY <2>3, <3>1, <3>2, BeginType DEF Delete, Restart
  <2>4. QED  BY <1>1, <2>1, <2>2, <2>3
<1>2. ASSUME NEW r \in Requests, RequestStep(r) PROVE TypeInv'
      BY <1>2, ApplyType, CommitType DEF RequestStep
<1>3. ASSUME NEW t \in Tasks, TaskStep(t) PROVE TypeInv'
      BY <1>3, StopReturnsType, StartAgainType, ConnectedType DEF TaskStep
<1>4. ASSUME NEW d \in Drivers, StrayEnds(d) PROVE TypeInv'
  <2>1. /\ driver' = [driver EXCEPT ![d].stray = FALSE]
        /\ UNCHANGED <<row, dicts, pc, job, held>>
        BY <1>4 DEF StrayEnds
  <2>2. [driver[d] EXCEPT !.stray = FALSE] \in Driver
        BY DEF TypeInv, TypeOK, Driver
  <2>3. driver' \in [Drivers -> Driver]
        BY <2>1, <2>2 DEF TypeInv, TypeOK, Driver
  <2>4. TypeOK'
        BY <2>1, <2>3 DEF dicts, job, TypeInv, TypeOK
  <2>5. Row' = Row
        BY DEF Row
  <2>6. JobInv' /\ HoldInv'
        BY <2>1, <2>5 DEF job, TypeInv, JobInv, HoldInv
  <2>7. QED  BY <2>4, <2>6 DEF TypeInv
<1>5. ASSUME Boot PROVE TypeInv'
      BY <1>5, BootType
<1>6. ASSUME BootAdds PROVE TypeInv'
  <2>1. "boot" \in Tasks /\ op["boot"] # "none"
        BY <1>6 DEF BootAdds, Tasks, TypeInv, JobInv
  <2>2. QED  BY <1>6, <2>1, AddSensorType DEF BootAdds
<1>7. ASSUME Crash PROVE TypeInv'
      BY <1>7, CrashType
<1>8. ASSUME UNCHANGED vars PROVE TypeInv'
  <2>1. TypeOK'
        BY <1>8 DEF vars, TypeInv, TypeOK
  <2>2. Row' = Row
        BY DEF Row
  <2>3. JobInv' /\ HoldInv'
        BY <1>8, <2>2 DEF vars, TypeInv, JobInv, HoldInv
  <2>4. QED  BY <2>1, <2>3 DEF TypeInv
<1>9. QED  BY <1>1, <1>2, <1>3, <1>4, <1>5, <1>6, <1>7, <1>8 DEF Next

(* Every variable keeps its type, for all constants; with it, a task that  *)
(* stops or starts a driver knows which, and what row it works for.        *)
THEOREM TypeCorrect == Spec => []TypeOK
<1>1. TypeInv => TypeOK
      BY DEF TypeInv
<1>2. QED  BY <1>1, TypeInit, TypeNext, PTL DEF Spec

LEMMA Typed == Spec => []TypeInv
BY TypeInit, TypeNext, PTL DEF Spec

-----------------------------------------------------------------------------
(* The registry.                                                           *)

Waiting == {"stopping", "sleep", "connecting"}

LoopInv == \A d \in Drivers : driver[d].loop => driver[d].running

(* The driver that add_sensor() is starting is its own until it registers  *)
(* it: nobody can stop it meanwhile.                                       *)
AdderInv ==
    \A t \in Tasks : pc[t] = "connecting" /\ op[t] # "restart" =>
        /\ held[t] # registered
        /\ driver[held[t]].running
        /\ \A u \in Tasks \ {t} : held[u] # held[t]

(* The driver that remove_sensor() is stopping has left the registry.      *)
RemoverInv ==
    \A t \in Tasks : pc[t] = "stopping" /\ op[t] # "restart" => held[t] # registered

(* A registered driver that was stopped is about to be started by the      *)
(* restart that stopped it or by a later one, and one that was started is  *)
(* about to get its poll loop.                                             *)
RegInv ==
    registered # NoDriver =>
        /\ \/ driver[registered].running
           \/ \E t \in Tasks : held[t] = registered /\ pc[t] \in {"stopping", "sleep"}
        /\ \/ ~driver[registered].running
           \/ driver[registered].loop
           \/ \E t \in Tasks : held[t] = registered /\ pc[t] = "connecting"

RegistryInv == LoopInv /\ AdderInv /\ RemoverInv /\ RegInv

(* Only task t has moved.                                                  *)
OnlyMoves(t) ==
    \A u \in Tasks \ {t} : pc'[u] = pc[u] /\ op'[u] = op[u] /\ held'[u] = held[u]

LEMMA ReturnMoves ==
    ASSUME TypeInv, NEW t \in Tasks, op[t] # "none", Return(t)
    PROVE  OnlyMoves(t) /\ pc'[t] \in {"idle", "commit"} /\ held'[t] = NoDriver
<1>1. /\ held' = [held EXCEPT ![t] = NoDriver]
      /\ pc'[t] \in {"idle", "commit"}
      /\ \A u \in Tasks \ {t} : pc'[u] = pc[u] /\ op'[u] = op[u]
      BY ReturnType
<1>2. QED  BY <1>1 DEF OnlyMoves, TypeInv, TypeOK

(* A task comes or goes without being at work on a registered driver.      *)
LEMMA QuietRegistry ==
    ASSUME TypeInv, RegistryInv, NEW t \in Tasks, OnlyMoves(t),
           driver' = driver, registered' \in {registered, NoDriver},
           pc'[t] \notin Waiting, held'[t] \in {held[t], NoDriver},
           held[t] = registered => /\ pc[t] # "connecting"
                                   /\ pc[t] \in Waiting => driver[registered].running
    PROVE  RegistryInv'
<1>0. \A u \in Tasks : pc[u] \in Waiting => held[u] \in Drivers /\ held[u] # NoDriver
      BY NamesAssumption DEF Waiting, TypeInv, HoldInv
<1>1. LoopInv'
      BY DEF RegistryInv, LoopInv
<1>2. AdderInv'
      BY <1>0 DEF RegistryInv, AdderInv, OnlyMoves, Waiting
<1>3. RemoverInv'
      BY <1>0 DEF RegistryInv, RemoverInv, OnlyMoves, Waiting
<1>4. RegInv'
  <2> SUFFICES ASSUME registered' # NoDriver PROVE RegInv'
      BY DEF RegInv
  <2>1. registered' = registered
        OBVIOUS
  <2>2. CASE driver[registered].running /\ driver[registered].loop
        BY <2>1, <2>2 DEF RegInv
  <2>3. CASE ~driver[registered].running
    <3>1. PICK u \in Tasks : held[u] = registered /\ pc[u] \in {"stopping", "sleep"}
          BY <2>1, <2>3 DEF RegistryInv, RegInv
    <3>2. u # t
          BY <2>3, <3>1 DEF Waiting
    <3>3. held'[u] = registered' /\ pc'[u] \in {"stopping", "sleep"}
          BY <2>1, <3>1, <3>2 DEF OnlyMoves
    <3>4. ~driver'[registered'].running
          BY <2>1, <2>3
    <3>5. QED  BY <3>3, <3>4 DEF RegInv
  <2>4. CASE driver[registered].running /\ ~driver[registered].loop
    <3>1. PICK u \in Tasks : held[u] = registered /\ pc[u] = "connecting"
          BY <2>1, <2>4 DEF RegistryInv, RegInv
    <3>2. u # t
          BY <3>1
    <3>3. held'[u] = registered' /\ pc'[u] = "connecting"
          BY <2>1, <3>1, <3>2 DEF OnlyMoves
    <3>4. driver'[registered'].running
          BY <2>1, <2>4
    <3>5. QED  BY <3>3, <3>4 DEF RegInv
  <2>5. QED  BY <2>2, <2>3, <2>4
<1>5. QED  BY <1>1, <1>2, <1>3, <1>4 DEF RegistryInv

(* A task starts a driver nobody knows.                                    *)
LEMMA StartRegistry ==
    ASSUME TypeInv, RegistryInv, NEW t \in Tasks, op[t] \notin {"none", "restart"},
           pc[t] \in {"read", "stopping"}, NEW popped, StartDriver(t, popped),
           registered' \in {registered, NoDriver}
    PROVE  RegistryInv'
<1>0. pc[t] \in Waiting => held[t] # registered
      BY DEF Waiting, RegistryInv, RemoverInv
<1>1. CASE want[t].conf \in BadConfs
  <2>1. Return(t) /\ driver' = driver
        BY <1>1 DEF StartDriver
  <2>2. QED  BY <1>0, <2>1, ReturnMoves, QuietRegistry DEF Waiting
<1>2. CASE want[t].conf \notin BadConfs
  <2>1. PICK d \in Drivers :
             /\ Garbage(d)
             /\ driver' = [driver EXCEPT ![d] =
                    [running |-> TRUE, loop |-> FALSE, stray |-> FALSE, conf |-> want[t].conf]]
             /\ held' = [held EXCEPT ![t] = d]
        BY <1>2 DEF StartDriver
  <2>2. Goto(t, "connecting") /\ UNCHANGED job
        BY <1>2 DEF StartDriver
  <2>3. pc'[t] = "connecting" /\ op' = op /\ held'[t] = d /\ OnlyMoves(t)
        BY <2>1, <2>2 DEF Goto, job, OnlyMoves, TypeInv, TypeOK
  <2>4. /\ driver'[d].running /\ ~driver'[d].loop
        /\ \A e \in Drivers \ {d} : driver'[e] = driver[e]
        BY <2>1 DEF TypeInv, TypeOK
  <2>5. d # registered /\ d # registered' /\ \A u \in Tasks : held[u] # d
        BY <2>1, NamesAssumption DEF Garbage
  <2>6. \A u \in Tasks : pc[u] \in Waiting => held[u] \in Drivers /\ held[u] # NoDriver
        BY NamesAssumption DEF Waiting, TypeInv, HoldInv
  <2>7. LoopInv'
        BY <2>4 DEF RegistryInv, LoopInv
  <2>8. AdderInv'
    <3> SUFFICES ASSUME NEW u \in Tasks, pc'[u] = "connecting", op'[u] # "restart"
                 PROVE  /\ held'[u] # registered' /\ driver'[held'[u]].running
                        /\ \A v \in Tasks \ {u} : held'[v] # held'[u]
        BY DEF AdderInv
    <3>1. CASE u = t
          BY <2>3, <2>4, <2>5, <3>1 DEF OnlyMoves
    <3>2. CASE u # t
      <4>1. pc[u] = "connecting" /\ op[u] # "restart" /\ held'[u] = held[u]
            BY <2>3, <3>2 DEF OnlyMoves
      <4>2. held[u] \in Drivers /\ held[u] # NoDriver /\ held[u] # d
            BY <2>5, <2>6, <4>1 DEF Waiting
      <4>3. /\ held[u] # registered /\ driver[held[u]].running
            /\ \A v \in Tasks \ {u} : held[v] # held[u]
            BY <4>1 DEF RegistryInv, AdderInv
      <4>4. QED  BY <2>3, <2>4, <4>1, <4>2, <4>3 DEF OnlyMoves
    <3>3. QED  BY <3>1, <3>2
  <2>9. RemoverInv'
        BY <2>3, <2>6 DEF RegistryInv, RemoverInv, OnlyMoves, Waiting
  <2>10. RegInv'
    <3> SUFFICES ASSUME registered' # NoDriver PROVE RegInv'
        BY DEF RegInv
    <3>1. registered' = registered /\ registered \in Drivers
          BY DEF TypeInv, TypeOK
    <3>2. driver'[registered'] = driver[registered]
          BY <2>4, <2>5, <3>1
    <3>3. \A u \in Tasks : held[u] = registered /\ pc[u] \in Waiting =>
              held'[u] = registered' /\ pc'[u] = pc[u]
          BY <1>0, <2>3, <3>1 DEF OnlyMoves
    <3>4. QED  BY <3>1, <3>2, <3>3 DEF RegistryInv, RegInv, Waiting
  <2>11. QED  BY <2>7, <2>8, <2>9, <2>10 DEF RegistryInv
<1>3. QED  BY <1>1, <1>2

(* A task takes the driver out of the registry and stops it.               *)
LEMMA RemoveRegistry ==
    ASSUME TypeInv, RegistryInv, NEW t \in Tasks, Remove(t)
    PROVE  RegistryInv'
<1>1. registered \in Drivers /\ registered' = NoDriver
      BY DEF Remove, RegisteredRuns, TypeInv, TypeOK
<1>2. pc'[t] = "stopping" /\ held'[t] = registered /\ OnlyMoves(t)
      BY DEF Remove, Goto, job, OnlyMoves, TypeInv, TypeOK
<1>3. /\ ~driver'[registered].loop
      /\ \A e \in Drivers \ {registered} : driver'[e] = driver[e]
      BY <1>1 DEF Remove, Stopped, TypeInv, TypeOK, Driver
<1>4. \A u \in Tasks : pc[u] \in Waiting => held[u] \in Drivers /\ held[u] # NoDriver
      BY NamesAssumption DEF Waiting, TypeInv, HoldInv
<1>5. LoopInv'
      BY <1>3 DEF RegistryInv, LoopInv
<1>6. AdderInv'
  <2> SUFFICES ASSUME NEW u \in Tasks, pc'[u] = "connecting", op'[u] # "restart"
               PROVE  /\ held'[u] # registered' /\ driver'[held'[u]].running
                      /\ \A v \in Tasks \ {u} : held'[v] # held'[u]
      BY DEF AdderInv
  <2>1. u # t /\ pc[u] = "connecting" /\ op[u] # "restart" /\ held'[u] = held[u]
        BY <1>2 DEF OnlyMoves
  <2>2. /\ held[u] # registered /\ driver[held[u]].running
        /\ \A v \in Tasks \ {u} : held[v] # held[u]
        BY <2>1 DEF RegistryInv, AdderInv
  <2>3. held[u] \in Drivers /\ held[u] # NoDriver
        BY <1>4, <2>1 DEF Waiting
  <2>4. QED  BY <1>1, <1>2, <1>3, <2>1, <2>2, <2>3 DEF OnlyMoves
<1>7. RemoverInv'
      BY <1>1, <1>2, <1>4, NamesAssumption DEF RemoverInv, OnlyMoves, Waiting
<1>8. QED  BY <1>1, <1>5, <1>6, <1>7 DEF RegistryInv, RegInv

LEMMA AddSensorRegistry ==
    ASSUME TypeInv, RegistryInv, NEW t \in Tasks, op[t] \notin {"none", "restart"},
           pc[t] = "read", AddSensor(t)
    PROVE  RegistryInv'
<1>1. CASE Remove(t)
      BY <1>1, RemoveRegistry
<1>2. CASE registered' = NoDriver /\ StartDriver(t, registered # NoDriver)
      BY <1>2, StartRegistry
<1>3. QED  BY <1>1, <1>2 DEF AddSensor

LEMMA RemoveSensorRegistry ==
    ASSUME TypeInv, RegistryInv, NEW t \in Tasks, op[t] # "none",
           pc[t] = "read", RemoveSensor(t)
    PROVE  RegistryInv'
<1>1. CASE Remove(t)
      BY <1>1, RemoveRegistry
<1>2. CASE registered' = NoDriver /\ driver' = driver /\ Return(t)
      BY <1>2, ReturnMoves, QuietRegistry DEF Waiting
<1>3. QED  BY <1>1, <1>2 DEF RemoveSensor

LEMMA FinishMoves ==
    ASSUME TypeInv, NEW t \in Tasks, Finish(t), held' \in {held, [held EXCEPT ![t] = NoDriver]}
    PROVE  OnlyMoves(t) /\ pc'[t] = "idle" /\ held'[t] \in {held[t], NoDriver}
BY DEF Finish, Goto, OnlyMoves, TypeInv, TypeOK

(* A restart stops the registered driver, or finds it stopped: it is the   *)
(* restart that will start it again.                                       *)
LEMMA RestartRegistry ==
    ASSUME TypeInv, RegistryInv, NEW t \in Tasks, op[t] = "restart", pc[t] = "read",
           RestartDriver(t), UNCHANGED dicts
    PROVE  RegistryInv'
<1>0. registered' = registered
      BY DEF dicts
<1>1. CASE Finish(t) /\ UNCHANGED <<driver, held>>
      BY <1>0, <1>1, FinishMoves, QuietRegistry DEF Waiting
<1>2. CASE /\ registered # NoDriver
           /\ held' = [held EXCEPT ![t] = registered]
           /\ driver' = IF RegisteredRuns THEN Stopped(registered) ELSE driver
           /\ Goto(t, IF RegisteredRuns THEN "stopping" ELSE "sleep")
           /\ UNCHANGED job
  <2>1. registered \in Drivers
        BY <1>2 DEF TypeInv, TypeOK
  <2>2. /\ pc'[t] \in {"stopping", "sleep"} /\ op'[t] = "restart"
        /\ held'[t] = registered /\ OnlyMoves(t)
        BY <1>2 DEF Goto, job, OnlyMoves, TypeInv, TypeOK
  <2>3. /\ ~driver'[registered].running
        /\ driver'[registered].loop => driver[registered].loop /\ ~driver[registered].running
        /\ \A e \in Drivers \ {registered} : driver'[e] = driver[e]
    <3>1. CASE RegisteredRuns
          BY <1>2, <2>1, <3>1 DEF Stopped, TypeInv, TypeOK, Driver
    <3>2. CASE ~RegisteredRuns
          BY <1>2, <3>2 DEF RegisteredRuns
    <3>3. QED  BY <3>1, <3>2
  <2>4. \A u \in Tasks : pc[u] \in Waiting => held[u] \in Drivers
        BY DEF Waiting, TypeInv, HoldInv
  <2>5. LoopInv'
        BY <2>1, <2>3 DEF RegistryInv, LoopInv
  <2>6. AdderInv'
    <3> SUFFICES ASSUME NEW u \in Tasks, pc'[u] = "connecting", op'[u] # "restart"
                 PROVE  /\ held'[u] # registered' /\ driver'[held'[u]].running
                        /\ \A v \in Tasks \ {u} : held'[v] # held'[u]
        BY DEF AdderInv
    <3>1. u # t /\ pc[u] = "connecting" /\ op[u] # "restart" /\ held'[u] = held[u]
          BY <2>2 DEF OnlyMoves
    <3>2. /\ held[u] # registered /\ driver[held[u]].running
          /\ \A v \in Tasks \ {u} : held[v] # held[u]
          BY <3>1 DEF RegistryInv, AdderInv
    <3>3. held[u] \in Drivers
          BY <2>4, <3>1 DEF Waiting
    <3>4. QED  BY <1>0, <2>2, <2>3, <3>1, <3>2, <3>3 DEF OnlyMoves
  <2>7. RemoverInv'
        BY <1>0, <2>2 DEF RegistryInv, RemoverInv, OnlyMoves
  <2>8. RegInv'
        BY <1>0, <2>2, <2>3 DEF RegInv
  <2>9. QED  BY <2>5, <2>6, <2>7, <2>8 DEF RegistryInv
<1>3. QED  BY <1>1, <1>2 DEF RestartDriver

LEMMA ApplyRegistry ==
    ASSUME TypeInv, RegistryInv, NEW r \in Requests, Apply(r)
    PROVE  RegistryInv'
<1>0. r \in Tasks /\ pc[r] = "read"
      BY DEF Apply, Tasks
<1>1. CASE op[r] \in {"create", "update"} /\ AddSensor(r)
      BY <1>0, <1>1, AddSensorRegistry
<1>2. CASE op[r] \in {"update", "delete"} /\ RemoveSensor(r)
      BY <1>0, <1>2, RemoveSensorRegistry
<1>3. CASE /\ op[r] = "update" /\ Return(r)
           /\ registered' = registered /\ driver' = driver
      BY <1>0, <1>3, ReturnMoves, QuietRegistry DEF Waiting
<1>4. CASE op[r] = "restart" /\ RestartDriver(r) /\ UNCHANGED dicts
      BY <1>0, <1>4, RestartRegistry
<1>5. QED  BY <1>1, <1>2, <1>3, <1>4 DEF Apply, ApplyUpdate, UpdateFormula, dicts

LEMMA StopReturnsRegistry ==
    ASSUME TypeInv, RegistryInv, NEW t \in Tasks, StopReturns(t)
    PROVE  RegistryInv'
<1>1. CASE /\ op[t] \in {"create", "update"} /\ StartDriver(t, FALSE)
           /\ registered' = registered
      BY <1>1, StartRegistry DEF StopReturns
<1>2. CASE /\ op[t] \in {"update", "delete"} /\ Return(t)
           /\ UNCHANGED <<dicts, driver>>
  <2>1. held[t] # registered
        BY <1>2 DEF StopReturns, RegistryInv, RemoverInv
  <2>2. QED  BY <1>2, <2>1, ReturnMoves, QuietRegistry DEF Waiting, dicts
<1>3. CASE op[t] = "restart" /\ Goto(t, "sleep") /\ UNCHANGED <<dicts, driver, held, job>>
  <2>1. /\ registered' = registered /\ driver' = driver /\ held' = held /\ op' = op
        /\ pc[t] = "stopping" /\ pc'[t] = "sleep" /\ \A u \in Tasks \ {t} : pc'[u] = pc[u]
        BY <1>3 DEF StopReturns, Goto, dicts, job, TypeInv, TypeOK
  <2>2. AdderInv' /\ RemoverInv' /\ LoopInv'
        BY <2>1 DEF RegistryInv, AdderInv, RemoverInv, LoopInv
  <2>3. \A u \in Tasks : /\ pc[u] \in {"stopping", "sleep"} => pc'[u] \in {"stopping", "sleep"}
                         /\ pc[u] = "connecting" => pc'[u] = "connecting"
        BY <2>1
  <2>4. RegInv'
        BY <2>1, <2>3 DEF RegistryInv, RegInv
  <2>5. QED  BY <2>2, <2>4 DEF RegistryInv
<1>4. QED  BY <1>1, <1>2, <1>3 DEF StopReturns

LEMMA StartAgainRegistry ==
    ASSUME TypeInv, RegistryInv, NEW t \in Tasks, StartAgain(t)
    PROVE  RegistryInv'
<1>0. pc[t] = "sleep" /\ op[t] = "restart" /\ held[t] \in Drivers /\ registered' = registered
      BY DEF StartAgain, dicts, TypeInv, HoldInv
<1>1. CASE /\ ~driver[held[t]].running
           /\ driver' = [driver EXCEPT ![held[t]].running = TRUE]
           /\ Goto(t, "connecting") /\ UNCHANGED <<held, job>>
  <2>1. /\ held' = held /\ op' = op /\ pc'[t] = "connecting"
        /\ \A u \in Tasks \ {t} : pc'[u] = pc[u]
        BY <1>1 DEF Goto, job, TypeInv, TypeOK
  <2>2. /\ driver'[held[t]].running
        /\ \A e \in Drivers \ {held[t]} : driver'[e] = driver[e]
        /\ \A e \in Drivers : driver'[e].loop = driver[e].loop
        BY <1>0, <1>1 DEF TypeInv, TypeOK, Driver
  <2>3. LoopInv'
        BY <2>2 DEF RegistryInv, LoopInv
  <2>4. AdderInv'
    <3> SUFFICES ASSUME NEW u \in Tasks, pc'[u] = "connecting", op'[u] # "restart"
                 PROVE  /\ held'[u] # registered' /\ driver'[held'[u]].running
                        /\ \A v \in Tasks \ {u} : held'[v] # held'[u]
        BY DEF AdderInv
    <3>1. u # t /\ pc[u] = "connecting" /\ op[u] # "restart"
          BY <1>0, <2>1
    <3>2. /\ held[u] # registered /\ driver[held[u]].running
          /\ \A v \in Tasks \ {u} : held[v] # held[u]
          BY <3>1 DEF RegistryInv, AdderInv
    <3>3. held[u] \in Drivers
          BY <3>1 DEF TypeInv, HoldInv
    <3>4. QED  BY <1>0, <2>1, <2>2, <3>2, <3>3
  <2>5. RemoverInv'
        BY <1>0, <2>1 DEF RegistryInv, RemoverInv
  <2>6. RegInv'
    <3> SUFFICES ASSUME registered' # NoDriver PROVE RegInv'
        BY DEF RegInv
    <3>1. registered \in Drivers
          BY <1>0 DEF TypeInv, TypeOK
    <3>2. CASE registered = held[t]
          BY <1>0, <2>1, <2>2, <3>2 DEF RegInv
    <3>3. CASE registered # held[t]
      <4>1. driver'[registered'] = driver[registered]
            BY <1>0, <2>2, <3>1, <3>3
      <4>2. \A u \in Tasks : held[u] = registered => held'[u] = registered' /\ pc'[u] = pc[u]
            BY <1>0, <2>1, <3>3
      <4>3. QED  BY <1>0, <4>1, <4>2 DEF RegistryInv, RegInv
    <3>4. QED  BY <3>2, <3>3
  <2>7. QED  BY <2>3, <2>4, <2>5, <2>6 DEF RegistryInv
<1>2. CASE /\ driver[held[t]].running /\ driver' = driver /\ Finish(t)
           /\ held' = [held EXCEPT ![t] = NoDriver]
      BY <1>0, <1>2, FinishMoves, QuietRegistry DEF Waiting
<1>3. QED  BY <1>1, <1>2 DEF StartAgain

(* start() returns: the driver has its poll loop, unless it was stopped    *)
(* meanwhile - then the restart that stopped it still has it in hand.      *)
LEMMA ConnectedRegistry ==
    ASSUME TypeInv, RegistryInv, NEW t \in Tasks, Connected(t)
    PROVE  RegistryInv'
<1>0. pc[t] = "connecting" /\ held[t] \in Drivers /\ op[t] # "none"
      BY DEF Connected, TypeInv, JobInv, HoldInv
<1>1. /\ \A e \in Drivers : driver'[e].running = driver[e].running
      /\ \A e \in Drivers \ {held[t]} : driver'[e] = driver[e]
      /\ driver[held[t]].running => driver'[held[t]].loop
      /\ ~driver[held[t]].running => driver' = driver
  <2>1. CASE driver[held[t]].running
    <3>1. driver' = [driver EXCEPT ![held[t]].loop = TRUE,
                                   ![held[t]].stray = @ \/ driver[held[t]].loop]
          BY <2>1 DEF Connected, WithLoop
    <3>2. QED  BY <1>0, <2>1, <3>1 DEF TypeInv, TypeOK, Driver
  <2>2. CASE ~driver[held[t]].running
        BY <2>2 DEF Connected, WithLoop
  <2>3. QED  BY <2>1, <2>2
<1>2. \A u \in Tasks : pc[u] \in Waiting => held[u] \in Drivers /\ held[u] # NoDriver
      BY NamesAssumption DEF Waiting, TypeInv, HoldInv
<1>3. LoopInv'
      BY <1>0, <1>1 DEF RegistryInv, LoopInv
<1>4. OnlyMoves(t) /\ pc'[t] \notin Waiting /\ held'[t] = NoDriver
  <2>1. CASE held' = [held EXCEPT ![t] = NoDriver] /\ Finish(t)
        BY <2>1, FinishMoves DEF Waiting, TypeInv, TypeOK
  <2>2. CASE Return(t)
        BY <1>0, <2>2, ReturnMoves DEF Waiting
  <2>3. QED  BY <2>1, <2>2 DEF Connected
<1>5. CASE op[t] = "restart" /\ registered' = registered
  <2>1. AdderInv' /\ RemoverInv'
    <3>1. AdderInv'
          BY <1>1, <1>2, <1>4, <1>5 DEF RegistryInv, AdderInv, OnlyMoves, Waiting
    <3>2. RemoverInv'
          BY <1>4, <1>5 DEF RegistryInv, RemoverInv, OnlyMoves, Waiting
    <3>3. QED  BY <3>1, <3>2
  <2>2. RegInv'
    <3> SUFFICES ASSUME registered' # NoDriver PROVE RegInv'
        BY DEF RegInv
    <3>1. registered \in Drivers /\ registered # NoDriver
          BY <1>5 DEF TypeInv, TypeOK
    <3>2. CASE ~driver[registered].running
      <4>1. PICK u \in Tasks : held[u] = registered /\ pc[u] \in {"stopping", "sleep"}
            BY <3>1, <3>2 DEF RegistryInv, RegInv
      <4>2. held'[u] = registered' /\ pc'[u] \in {"stopping", "sleep"}
            BY <1>0, <1>4, <1>5, <4>1 DEF OnlyMoves
      <4>3. ~driver'[registered'].running
            BY <1>1, <1>5, <3>1, <3>2
      <4>4. QED  BY <4>2, <4>3 DEF RegInv
    <3>3. CASE driver[registered].running /\ registered = held[t]
          BY <1>1, <1>5, <3>1, <3>3 DEF RegInv
    <3>4. CASE driver[registered].running /\ registered # held[t]
      <4>1. driver'[registered'] = driver[registered]
            BY <1>1, <1>5, <3>1, <3>4
      <4>2. \A u \in Tasks : held[u] = registered => held'[u] = registered' /\ pc'[u] = pc[u]
            BY <1>4, <1>5, <3>4 DEF OnlyMoves
      <4>3. QED  BY <3>1, <4>1, <4>2 DEF RegistryInv, RegInv
    <3>5. QED  BY <3>2, <3>3, <3>4
  <2>3. QED  BY <1>3, <2>1, <2>2 DEF RegistryInv
<1>6. CASE op[t] # "restart" /\ registered' = held[t]
  <2>1. driver[held[t]].running /\ \A u \in Tasks \ {t} : held[u] # held[t]
        BY <1>0, <1>6 DEF RegistryInv, AdderInv
  <2>2. AdderInv'
        BY <1>1, <1>2, <1>4, <1>6, <2>1 DEF RegistryInv, AdderInv, OnlyMoves, Waiting
  <2>3. RemoverInv'
        BY <1>4, <1>6, <2>1 DEF RemoverInv, OnlyMoves, Waiting
  <2>4. RegInv'
        BY <1>0, <1>1, <1>6, <2>1 DEF RegInv
  <2>5. QED  BY <1>3, <2>2, <2>3, <2>4 DEF RegistryInv
<1>7. QED  BY <1>5, <1>6 DEF Connected

LEMMA BeginRegistry ==
    ASSUME TypeInv, RegistryInv, NEW r \in Requests, NEW what, NEW new, Begin(r, what, new)
    PROVE  RegistryInv'
<1>1. r \in Tasks /\ pc[r] = "idle" /\ driver' = driver /\ registered' = registered /\ held' = held
      BY DEF Begin, Tasks, dicts
<1>2. pc'[r] = "read" /\ OnlyMoves(r)
      BY <1>1 DEF Begin, Goto, OnlyMoves, TypeInv, TypeOK
<1>3. QED  BY <1>1, <1>2, QuietRegistry DEF Waiting

LEMMA RegistryInit == Init => RegistryInv
<1> SUFFICES ASSUME Init PROVE RegistryInv
    OBVIOUS
<1>1. registered = NoDriver /\ \A d \in Drivers : ~driver[d].loop
      BY DEF Init, Unused
<1>2. \A t \in Tasks : pc[t] \in {"down", "idle"}
      BY DEF Init, Down
<1>3. QED  BY <1>1, <1>2 DEF RegistryInv, LoopInv, AdderInv, RemoverInv, RegInv

LEMMA RegistryNext == TypeInv /\ RegistryInv /\ [Next]_vars => RegistryInv'
<1> SUFFICES ASSUME TypeInv, RegistryInv, [Next]_vars PROVE RegistryInv'
    OBVIOUS
<1>1. ASSUME NEW r \in Requests, Create(r) \/ Update(r) \/ Delete(r) \/ Restart(r)
      PROVE  RegistryInv'
      BY <1>1, BeginRegistry DEF Create, Update, Delete, Restart
<1>2. ASSUME NEW r \in Requests, Commit(r) \/ CommitFail(r) PROVE RegistryInv'
  <2>1. /\ r \in Tasks /\ pc[r] = "commit" /\ Finish(r)
        /\ driver' = driver /\ registered' = registered /\ held' = held
        BY <1>2 DEF Commit, CommitFail, dicts, Tasks
  <2>2. QED  BY <2>1, FinishMoves, QuietRegistry DEF Waiting
<1>3. ASSUME NEW t \in Tasks, TaskStep(t) PROVE RegistryInv'
      BY <1>3, StopReturnsRegistry, StartAgainRegistry, ConnectedRegistry DEF TaskStep
<1>4. ASSUME NEW d \in Drivers, StrayEnds(d) PROVE RegistryInv'
  <2>1. /\ driver' = [driver EXCEPT ![d].stray = FALSE]
        /\ UNCHANGED <<registered, pc, op, held>>
        BY <1>4 DEF StrayEnds, dicts, job
  <2>2. \A e \in Drivers : /\ driver'[e].running = driver[e].running
                           /\ driver'[e].loop = driver[e].loop
        BY <2>1 DEF TypeInv, TypeOK, Driver
  <2>3. LoopInv'
        BY <2>2 DEF RegistryInv, LoopInv
  <2>4. AdderInv' /\ RemoverInv'
    <3>1. \A t \in Tasks : pc[t] = "connecting" => held[t] \in Drivers
          BY DEF TypeInv, HoldInv
    <3>2. AdderInv'
          BY <2>1, <2>2, <3>1 DEF RegistryInv, AdderInv
    <3>3. RemoverInv'
          BY <2>1 DEF RegistryInv, RemoverInv
    <3>4. QED  BY <3>2, <3>3
  <2>5. registered # NoDriver => registered \in Drivers
        BY DEF TypeInv, TypeOK
  <2>6. RegInv'
        BY <2>1, <2>2, <2>5 DEF RegistryInv, RegInv
  <2>7. QED  BY <2>3, <2>4, <2>6 DEF RegistryInv
<1>5. ASSUME Boot PROVE RegistryInv'
  <2>1. /\ "boot" \in Tasks /\ pc["boot"] = "down" /\ pc'["boot"] \in {"read", "idle"}
        /\ driver' = driver /\ registered' = registered /\ held' = held
        BY <1>5 DEF Boot, Goto, dicts, Tasks, TypeInv, TypeOK
  <2>2. OnlyMoves("boot")
        BY <1>5, <2>1 DEF Boot, Goto, job, OnlyMoves, TypeInv, TypeOK
  <2>3. QED  BY <2>1, <2>2, QuietRegistry DEF Waiting
<1>6. ASSUME BootAdds PROVE RegistryInv'
  <2>1. "boot" \in Tasks /\ pc["boot"] = "read" /\ op["boot"] # "none" /\ AddSensor("boot")
        BY <1>6 DEF BootAdds, Tasks, TypeInv, JobInv
  <2>2. op["boot"] = "boot"
        BY <2>1 DEF TypeInv, JobInv
  <2>3. QED  BY <2>1, <2>2, AddSensorRegistry
<1>7. ASSUME Crash PROVE RegistryInv'
  <2>1. registered' = NoDriver /\ driver' = [d \in Drivers |-> Unused] /\ pc' = Down
        BY <1>7 DEF Crash
  <2>2. \A t \in Tasks : pc'[t] \in {"down", "idle"}
        BY <2>1 DEF Down
  <2>3. \A d \in Drivers : ~driver'[d].loop
        BY <2>1 DEF Unused
  <2>4. QED  BY <2>1, <2>2, <2>3 DEF RegistryInv, LoopInv, AdderInv, RemoverInv, RegInv
<1>8. ASSUME UNCHANGED vars PROVE RegistryInv'
      BY <1>8 DEF vars, RegistryInv, LoopInv, AdderInv, RemoverInv, RegInv
<1>9. QED
      BY <1>1, <1>2, <1>3, <1>4, <1>5, <1>6, <1>7, <1>8, ApplyRegistry DEF Next, RequestStep

(* No interleaving of creations, updates, deletions, restarts and crashes  *)
(* leaves a sensor registered whose driver is neither polling nor about to *)
(* be started by a restart under way.                                      *)
THEOREM RegisteredPolled == Spec => []RegisteredIsPolled
<1>1. ASSUME TypeInv, RegistryInv PROVE RegisteredIsPolled
      BY <1>1 DEF RegistryInv, RegInv, RegisteredIsPolled
<1>2. QED  BY <1>1, Typed, RegistryInit, RegistryNext, PTL DEF Spec

-----------------------------------------------------------------------------
(* One request at a time.                                                  *)

(* No two requests are served at once.                                     *)
Serial == \A r, q \in Requests : r = q

OneAtWork == \A r \in Requests : pc[r] # "idle" => pc["boot"] = "idle"

(* Nothing polls but the registered driver.                                *)
PollerInv == \A d \in Drivers : ~driver[d].stray /\ (driver[d].loop => d = registered)

(* What a task works for: the row it has read is still the row.            *)
Asked(t) ==
    /\ pc[t] \in {"idle", "down"} <=> op[t] = "none"
    /\ pc[t] = "down" => t = "boot"
    /\ op[t] \in {"boot", "restart"} => want[t] = row
    /\ op[t] = "boot" => row.active
    /\ op[t] = "create" => row = NoRow /\ want[t].active
    /\ op[t] \in {"update", "delete", "restart"} => seen[t] = row
    /\ op[t] = "delete" => want[t].deleted /\ ~want[t].active
    /\ op[t] \in {"create", "update"} => ~want[t].deleted

(* Where the registry and the driver in hand are when it is there.         *)
Place(t) ==
    /\ pc[t] \notin Waiting => held[t] = NoDriver
    /\ pc[t] \in Waiting /\ op[t] # "restart" => registered = NoDriver
    /\ pc[t] \in Waiting /\ op[t] = "restart" => held[t] = registered
    /\ pc[t] = "connecting" => ~driver[held[t]].loop /\ op[t] # "delete"
    /\ pc[t] \in {"stopping", "sleep"} => ~driver[held[t]].running
    /\ pc[t] = "commit" /\ op[t] = "delete" => registered = NoDriver
    /\ op[t] = "boot" \/ pc[t] = "down" => registered = NoDriver

(* A deleted sensor has no driver, and nobody asks for one.                *)
DeletedInv ==
    row # NoRow /\ row.deleted => registered = NoDriver /\ \A t \in Tasks : op[t] = "none"

SerialInv ==
    /\ OneAtWork /\ PollerInv /\ DeletedInv
    /\ \A t \in Tasks : Asked(t) /\ Place(t)

(* Only task t has moved or changed what it works for.                     *)
OnlyActs(t) ==
    \A u \in Tasks \ {t} : /\ pc'[u] = pc[u] /\ op'[u] = op[u] /\ held'[u] = held[u]
                           /\ seen'[u] = seen[u] /\ want'[u] = want[u]

LEMMA FinishActs ==
    ASSUME TypeInv, NEW t \in Tasks, Finish(t), held' \in {held, [held EXCEPT ![t] = NoDriver]}
    PROVE  /\ OnlyActs(t) /\ pc'[t] = "idle" /\ op'[t] = "none"
           /\ held'[t] \in {held[t], NoDriver}
BY DEF Finish, Goto, OnlyActs, TypeInv, TypeOK

LEMMA ReturnActs ==
    ASSUME TypeInv, NEW t \in Tasks, Return(t)
    PROVE  /\ OnlyActs(t) /\ held'[t] = NoDriver
           /\ t = "boot" => pc'[t] = "idle" /\ op'[t] = "none"
           /\ t # "boot" => pc'[t] = "commit" /\ op'[t] = op[t] /\ UNCHANGED <<seen, want>>
<1>1. held' = [held EXCEPT ![t] = NoDriver]
      BY DEF Return
<1>2. CASE t = "boot"
      BY <1>1, <1>2, FinishActs DEF Return, TypeInv, TypeOK
<1>3. CASE t # "boot"
      BY <1>1, <1>3 DEF Return, Goto, job, OnlyActs, TypeInv, TypeOK
<1>4. QED  BY <1>2, <1>3

(* While one task is at work all others are idle.                          *)
LEMMA OthersIdle ==
    ASSUME Serial, SerialInv, NEW t \in Tasks, op[t] # "none"
    PROVE  \A u \in Tasks \ {t} : pc[u] = "idle" /\ op[u] = "none" /\ held[u] = NoDriver
<1>1. pc[t] \notin {"idle", "down"}
      BY DEF SerialInv, Asked
<1>2. \A u \in Tasks \ {t} : pc[u] = "idle"
      BY <1>1 DEF Serial, SerialInv, OneAtWork, Tasks
<1>3. QED  BY <1>2 DEF SerialInv, Asked, Place, Waiting

(* A step of the one task at work.                                         *)
LEMMA SerialStep ==
    ASSUME Serial, SerialInv, NEW t \in Tasks, op[t] # "none", OnlyActs(t),
           PollerInv', Asked(t)', Place(t)', row' = row \/ DeletedInv'
    PROVE  SerialInv'
<1>1. \A u \in Tasks \ {t} : pc'[u] = "idle" /\ op'[u] = "none" /\ held'[u] = NoDriver
      BY OthersIdle DEF OnlyActs
<1>2. \A u \in Tasks \ {t} : Asked(u)' /\ Place(u)'
      BY <1>1 DEF Asked, Place, Waiting
<1>3. OneAtWork'
      BY <1>1, NamesAssumption DEF Serial, OneAtWork, Tasks
<1>4. DeletedInv'
      BY DEF SerialInv, DeletedInv
<1>5. QED  BY <1>2, <1>3, <1>4 DEF SerialInv

(* A driver that does not run has no poll loop, so nothing polls.          *)
LEMMA NothingPolls ==
    ASSUME TypeInv, RegistryInv, SerialInv, ~RegisteredRuns
    PROVE  \A d \in Drivers : ~driver[d].loop /\ ~driver[d].stray
<1>1. \A d \in Drivers : driver[d].loop => d = registered /\ driver[d].running
      BY DEF RegistryInv, LoopInv, SerialInv, PollerInv
<1>2. QED  BY <1>1, NamesAssumption DEF RegisteredRuns, SerialInv, PollerInv

LEMMA ReturnSerial ==
    ASSUME Serial, TypeInv, SerialInv, NEW t \in Tasks, op[t] # "none", Return(t),
           row' = row, driver' = driver,
           registered' = NoDriver \/ (registered' = registered /\ op[t] # "delete"),
           registered' # registered => ~RegisteredRuns, RegistryInv
    PROVE  SerialInv'
<1>1. OnlyActs(t) /\ held'[t] = NoDriver
      BY ReturnActs
<1>2. PollerInv'
  <2>1. CASE registered' = registered
        BY <2>1 DEF SerialInv, PollerInv
  <2>2. CASE registered' # registered
        BY <2>2, NothingPolls DEF PollerInv
  <2>3. QED  BY <2>1, <2>2
<1>3. CASE t = "boot"
  <2>1. pc'[t] = "idle" /\ op'[t] = "none"
        BY <1>3, ReturnActs
  <2>2. Asked(t)' /\ Place(t)'
        BY <1>1, <2>1 DEF Asked, Place, Waiting
  <2>3. QED  BY <1>1, <1>2, <2>2, SerialStep
<1>4. CASE t # "boot"
  <2>1. pc'[t] = "commit" /\ op'[t] = op[t] /\ UNCHANGED <<seen, want>>
        BY <1>4, ReturnActs
  <2>2. op[t] # "boot"
        BY <1>4 DEF TypeInv, JobInv
  <2>3. Asked(t)'
        BY <2>1, <2>2 DEF SerialInv, Asked
  <2>4. Place(t)'
        BY <1>1, <2>1, <2>2 DEF Place, Waiting
  <2>5. QED  BY <1>1, <1>2, <2>3, <2>4, SerialStep
<1>5. QED  BY <1>3, <1>4

LEMMA StartSerial ==
    ASSUME Serial, TypeInv, RegistryInv, SerialInv, NEW t \in Tasks,
           op[t] \notin {"none", "restart", "delete"}, NEW popped, StartDriver(t, popped),
           row' = row, ~RegisteredRuns, registered' = NoDriver
    PROVE  SerialInv'
<1>1. CASE want[t].conf \in BadConfs
      BY <1>1, ReturnSerial DEF StartDriver
<1>2. CASE want[t].conf \notin BadConfs
  <2>1. PICK d \in Drivers :
             /\ driver' = [driver EXCEPT ![d] =
                    [running |-> TRUE, loop |-> FALSE, stray |-> FALSE, conf |-> want[t].conf]]
             /\ held' = [held EXCEPT ![t] = d]
        BY <1>2 DEF StartDriver
  <2>2. Goto(t, "connecting") /\ UNCHANGED job
        BY <1>2 DEF StartDriver
  <2>3. pc'[t] = "connecting" /\ UNCHANGED <<op, seen, want>> /\ held'[t] = d /\ OnlyActs(t)
        BY <2>1, <2>2 DEF Goto, job, OnlyActs, TypeInv, TypeOK
  <2>4. /\ ~driver'[d].loop /\ ~driver'[d].stray
        /\ \A e \in Drivers \ {d} : driver'[e] = driver[e]
        BY <2>1 DEF TypeInv, TypeOK
  <2>5. PollerInv'
        BY <2>4, NothingPolls DEF PollerInv
  <2>6. Asked(t)'
        BY <2>3 DEF SerialInv, Asked
  <2>7. Place(t)'
        BY <2>3, <2>4 DEF Place, Waiting
  <2>8. QED  BY <2>3, <2>5, <2>6, <2>7, SerialStep
<1>3. QED  BY <1>1, <1>2

LEMMA RemoveSerial ==
    ASSUME Serial, TypeInv, SerialInv, NEW t \in Tasks, op[t] \notin {"none", "restart"},
           Remove(t), row' = row
    PROVE  SerialInv'
<1>1. registered \in Drivers /\ registered' = NoDriver
      BY DEF Remove, RegisteredRuns, TypeInv, TypeOK
<1>2. /\ pc'[t] = "stopping" /\ held'[t] = registered /\ UNCHANGED <<op, seen, want>>
      /\ OnlyActs(t)
      BY DEF Remove, Goto, job, OnlyActs, TypeInv, TypeOK
<1>3. /\ ~driver'[registered].running /\ ~driver'[registered].loop
      /\ driver'[registered].stray = driver[registered].stray
      /\ \A e \in Drivers \ {registered} : driver'[e] = driver[e]
      BY <1>1 DEF Remove, Stopped, TypeInv, TypeOK, Driver
<1>4. PollerInv'
      BY <1>1, <1>3 DEF SerialInv, PollerInv
<1>5. Asked(t)' /\ Place(t)'
  <2>1. Asked(t)'
        BY <1>2 DEF SerialInv, Asked
  <2>2. Place(t)'
        BY <1>1, <1>2, <1>3 DEF Place, Waiting
  <2>3. QED  BY <2>1, <2>2
<1>6. QED  BY <1>2, <1>4, <1>5, SerialStep

LEMMA AddSensorSerial ==
    ASSUME Serial, TypeInv, RegistryInv, SerialInv, NEW t \in Tasks,
           op[t] \notin {"none", "restart", "delete"}, AddSensor(t), row' = row
    PROVE  SerialInv'
BY RemoveSerial, StartSerial DEF AddSensor

LEMMA RemoveSensorSerial ==
    ASSUME Serial, TypeInv, RegistryInv, SerialInv, NEW t \in Tasks,
           op[t] \notin {"none", "restart"}, RemoveSensor(t), row' = row
    PROVE  SerialInv'
BY RemoveSerial, ReturnSerial DEF RemoveSensor

LEMMA RestartSerial ==
    ASSUME Serial, TypeInv, SerialInv, NEW t \in Tasks, pc[t] = "read",
           op[t] = "restart", RestartDriver(t), UNCHANGED dicts, row' = row
    PROVE  SerialInv'
<1>0. registered' = registered
      BY DEF dicts
<1>1. CASE Finish(t) /\ UNCHANGED <<driver, held>>
  <2>1. /\ OnlyActs(t) /\ pc'[t] = "idle" /\ op'[t] = "none" /\ held' = held
        /\ driver' = driver
        BY <1>1, FinishActs
  <2>2. held[t] = NoDriver
        BY DEF SerialInv, Place, Waiting
  <2>3. Asked(t)' /\ Place(t)'
        BY <2>1, <2>2 DEF Asked, Place, Waiting
  <2>4. PollerInv'
        BY <1>0, <2>1 DEF SerialInv, PollerInv
  <2>5. QED  BY <2>1, <2>3, <2>4, SerialStep
<1>2. CASE /\ registered # NoDriver
           /\ held' = [held EXCEPT ![t] = registered]
           /\ driver' = IF RegisteredRuns THEN Stopped(registered) ELSE driver
           /\ Goto(t, IF RegisteredRuns THEN "stopping" ELSE "sleep")
           /\ UNCHANGED job
  <2>1. registered \in Drivers
        BY <1>2 DEF TypeInv, TypeOK
  <2>2. /\ pc'[t] \in {"stopping", "sleep"} /\ UNCHANGED <<op, seen, want>>
        /\ held'[t] = registered /\ OnlyActs(t)
        BY <1>2 DEF Goto, job, OnlyActs, TypeInv, TypeOK
  <2>3. /\ ~driver'[registered].running
        /\ \A e \in Drivers : /\ driver'[e].stray = driver[e].stray
                              /\ driver'[e].loop => driver[e].loop
    <3>1. CASE RegisteredRuns
          BY <1>2, <2>1, <3>1 DEF Stopped, TypeInv, TypeOK, Driver
    <3>2. CASE ~RegisteredRuns
          BY <1>2, <3>2 DEF RegisteredRuns
    <3>3. QED  BY <3>1, <3>2
  <2>4. PollerInv'
        BY <1>0, <2>3 DEF SerialInv, PollerInv
  <2>5. Asked(t)'
        BY <2>2 DEF SerialInv, Asked
  <2>6. Place(t)'
        BY <1>0, <2>2, <2>3 DEF Place, Waiting
  <2>7. QED  BY <2>2, <2>4, <2>5, <2>6, SerialStep
<1>3. QED  BY <1>1, <1>2 DEF RestartDriver

LEMMA ApplySerial ==
    ASSUME Serial, TypeInv, RegistryInv, SerialInv, NEW r \in Requests, Apply(r)
    PROVE  SerialInv'
<1>0. r \in Tasks /\ pc[r] = "read" /\ row' = row
      BY DEF Apply, Tasks
<1>1. CASE op[r] \in {"create", "update"} /\ AddSensor(r)
      BY <1>0, <1>1, AddSensorSerial
<1>2. CASE op[r] \in {"update", "delete"} /\ RemoveSensor(r)
      BY <1>0, <1>2, RemoveSensorSerial
<1>3. CASE /\ op[r] = "update" /\ Return(r)
           /\ registered' = registered /\ driver' = driver
      BY <1>0, <1>3, ReturnSerial
<1>4. CASE op[r] = "restart" /\ RestartDriver(r) /\ UNCHANGED dicts
      BY <1>0, <1>4, RestartSerial
<1>5. QED  BY <1>1, <1>2, <1>3, <1>4 DEF Apply, ApplyUpdate, UpdateFormula, dicts

LEMMA StopReturnsSerial ==
    ASSUME Serial, TypeInv, RegistryInv, SerialInv, NEW t \in Tasks, StopReturns(t)
    PROVE  SerialInv'
<1>0. pc[t] = "stopping" /\ op[t] # "none" /\ row' = row
      BY DEF StopReturns, TypeInv, JobInv
<1>1. op[t] # "restart" => registered = NoDriver
      BY <1>0 DEF SerialInv, Place, Waiting
<1>2. CASE /\ op[t] \in {"create", "update"} /\ StartDriver(t, FALSE)
           /\ registered' = registered
      BY <1>0, <1>1, <1>2, StartSerial DEF RegisteredRuns
<1>3. CASE op[t] \in {"update", "delete"} /\ Return(t) /\ UNCHANGED <<dicts, driver>>
      BY <1>0, <1>1, <1>3, ReturnSerial DEF dicts
<1>4. CASE op[t] = "restart" /\ Goto(t, "sleep") /\ UNCHANGED <<dicts, driver, held, job>>
  <2>1. /\ pc'[t] = "sleep" /\ OnlyActs(t)
        /\ UNCHANGED <<op, seen, want, held, registered, driver>>
        BY <1>4 DEF Goto, job, dicts, OnlyActs, TypeInv, TypeOK
  <2>2. PollerInv'
        BY <2>1 DEF SerialInv, PollerInv
  <2>3. Asked(t)'
        BY <1>0, <2>1 DEF SerialInv, Asked
  <2>4. Place(t)'
        BY <1>0, <1>4, <2>1 DEF SerialInv, Place, Waiting
  <2>5. QED  BY <1>0, <2>1, <2>2, <2>3, <2>4, SerialStep
<1>5. QED  BY <1>2, <1>3, <1>4 DEF StopReturns

(* The driver that restart() has stopped is still stopped after the sleep. *)
LEMMA StartAgainSerial ==
    ASSUME Serial, TypeInv, RegistryInv, SerialInv, NEW t \in Tasks, StartAgain(t)
    PROVE  SerialInv'
<1>0. /\ pc[t] = "sleep" /\ op[t] = "restart" /\ held[t] \in Drivers
      /\ row' = row /\ registered' = registered /\ held[t] = registered
      /\ ~driver[held[t]].running
      BY DEF StartAgain, dicts, TypeInv, HoldInv, SerialInv, Place, Waiting
<1>1. ~driver[held[t]].loop
      BY <1>0 DEF RegistryInv, LoopInv
<1>2. /\ driver' = [driver EXCEPT ![held[t]].running = TRUE]
      /\ Goto(t, "connecting") /\ UNCHANGED <<held, job>>
      BY <1>0 DEF StartAgain
<1>3. /\ pc'[t] = "connecting" /\ OnlyActs(t) /\ UNCHANGED <<op, seen, want, held>>
      BY <1>2 DEF Goto, job, OnlyActs, TypeInv, TypeOK
<1>4. \A e \in Drivers : driver'[e].loop = driver[e].loop /\ driver'[e].stray = driver[e].stray
      BY <1>0, <1>2 DEF TypeInv, TypeOK, Driver
<1>5. PollerInv'
      BY <1>0, <1>4 DEF SerialInv, PollerInv
<1>6. Asked(t)'
      BY <1>0, <1>3 DEF SerialInv, Asked
<1>7. Place(t)'
      BY <1>0, <1>1, <1>3, <1>4 DEF Place, Waiting
<1>8. QED  BY <1>0, <1>3, <1>5, <1>6, <1>7, SerialStep

LEMMA ConnectedSerial ==
    ASSUME Serial, TypeInv, SerialInv, NEW t \in Tasks, Connected(t)
    PROVE  SerialInv'
<1>0. /\ pc[t] = "connecting" /\ held[t] \in Drivers /\ op[t] # "none"
      /\ row' = row /\ driver' = WithLoop(held[t])
      BY DEF Connected, TypeInv, JobInv, HoldInv
<1>1. /\ \A e \in Drivers : ~driver'[e].stray
      /\ \A e \in Drivers \ {held[t]} : driver'[e].loop = driver[e].loop
  <2>1. ~driver[held[t]].loop /\ \A e \in Drivers : ~driver[e].stray
        BY <1>0 DEF SerialInv, Place, PollerInv
  <2>2. CASE driver[held[t]].running
    <3>1. driver' = [driver EXCEPT ![held[t]].loop = TRUE,
                                   ![held[t]].stray = @ \/ driver[held[t]].loop]
          BY <1>0, <2>2 DEF WithLoop
    <3>2. QED  BY <1>0, <2>1, <3>1 DEF TypeInv, TypeOK, Driver
  <2>3. CASE ~driver[held[t]].running
        BY <1>0, <2>1, <2>3 DEF WithLoop
  <2>4. QED  BY <2>2, <2>3
<1>2. CASE op[t] = "restart" /\ registered' = registered
  <2>1. held' = [held EXCEPT ![t] = NoDriver] /\ Finish(t)
        BY <1>2 DEF Connected
  <2>2. /\ OnlyActs(t) /\ pc'[t] = "idle" /\ op'[t] = "none" /\ held'[t] = NoDriver
        BY <2>1, FinishActs DEF TypeInv, TypeOK
  <2>3. held[t] = registered
        BY <1>0, <1>2 DEF SerialInv, Place, Waiting
  <2>4. PollerInv'
        BY <1>1, <1>2, <2>3 DEF SerialInv, PollerInv
  <2>5. Asked(t)' /\ Place(t)'
        BY <2>2 DEF Asked, Place, Waiting
  <2>6. QED  BY <1>0, <2>2, <2>4, <2>5, SerialStep
<1>3. CASE op[t] # "restart" /\ registered' = held[t] /\ Return(t)
  <2>1. registered = NoDriver /\ op[t] # "delete"
        BY <1>0, <1>3 DEF SerialInv, Place, Waiting
  <2>2. PollerInv'
        BY <1>1, <1>3, <2>1, NamesAssumption DEF SerialInv, PollerInv
  <2>3. OnlyActs(t) /\ held'[t] = NoDriver
        BY <1>3, ReturnActs
  <2>4. CASE t = "boot"
    <3>1. pc'[t] = "idle" /\ op'[t] = "none"
          BY <1>3, <2>4, ReturnActs
    <3>2. Asked(t)' /\ Place(t)'
          BY <2>3, <3>1 DEF Asked, Place, Waiting
    <3>3. QED  BY <1>0, <2>2, <2>3, <3>2, SerialStep
  <2>5. CASE t # "boot"
    <3>1. pc'[t] = "commit" /\ op'[t] = op[t] /\ UNCHANGED <<seen, want>>
          BY <1>3, <2>5, ReturnActs
    <3>2. op[t] # "boot"
          BY <2>5 DEF TypeInv, JobInv
    <3>3. Asked(t)'
          BY <1>0, <3>1, <3>2 DEF SerialInv, Asked
    <3>4. Place(t)'
          BY <2>1, <2>3, <3>1, <3>2 DEF Place, Waiting
    <3>5. QED  BY <1>0, <2>2, <2>3, <3>3, <3>4, SerialStep
  <2>6. QED  BY <2>4, <2>5
<1>4. QED  BY <1>2, <1>3 DEF Connected

LEMMA BeginSerial ==
    ASSUME Serial, TypeInv, SerialInv, NEW r \in Requests,
           NEW what \in {"create", "update", "delete", "restart"}, NEW new,
           Begin(r, what, new),
           what = "create" => row = NoRow /\ new.active,
           what \in {"update", "delete", "restart"} => Live(row),
           what = "restart" => new = row,
           what = "delete" => new.deleted /\ ~new.active,
           what \in {"create", "update"} => ~new.deleted
    PROVE  SerialInv'
<1>1. /\ r \in Tasks /\ r # "boot" /\ "boot" \in Tasks
      /\ pc["boot"] = "idle" /\ pc[r] = "idle"
      /\ row' = row /\ driver' = driver /\ registered' = registered /\ held' = held
      BY NamesAssumption DEF Begin, Tasks, dicts
<1>2. /\ pc'[r] = "read" /\ op'[r] = what /\ seen'[r] = row /\ want'[r] = new
      /\ OnlyActs(r)
      BY <1>1 DEF Begin, Goto, OnlyActs, TypeInv, TypeOK
<1>3. \A u \in Tasks : pc[u] = "idle" /\ held[u] = NoDriver
      BY <1>1 DEF Serial, Tasks, SerialInv, Place, Waiting
<1>4. \A u \in Tasks \ {r} : Asked(u)' /\ Place(u)'
  <2>1. \A u \in Tasks \ {r} : pc'[u] = "idle" /\ op'[u] = "none" /\ held'[u] = NoDriver
        BY <1>2, <1>3 DEF OnlyActs, SerialInv, Asked
  <2>2. QED  BY <2>1 DEF Asked, Place, Waiting
<1>5. Asked(r)'
      BY <1>1, <1>2 DEF Asked
<1>6. Place(r)'
      BY <1>1, <1>2, <1>3 DEF Place, Waiting
<1>7. OneAtWork' /\ PollerInv'
      BY <1>1, <1>2 DEF OnlyActs, OneAtWork, SerialInv, PollerInv
<1>8. DeletedInv'
      BY <1>1, <1>2 DEF Live, DeletedInv
<1>9. QED  BY <1>4, <1>5, <1>6, <1>7, <1>8 DEF SerialInv

(* With the row as it was read, what is committed is what was asked for.   *)
LEMMA MergedIsWanted ==
    ASSUME TypeInv, SerialInv, NEW r \in Requests, op[r] # "none"
    PROVE  Merged(r) = want[r]
<1>1. r \in Tasks /\ r # "boot" /\ want[r] \in Row
      BY NamesAssumption DEF Tasks, TypeInv, JobInv
<1>2. CASE op[r] = "create"
      BY <1>2 DEF Merged
<1>3. CASE op[r] # "create"
  <2>1. op[r] \in {"update", "delete", "restart"}
        BY <1>1, <1>3 DEF TypeInv, TypeOK, JobInv
  <2>2. seen[r] = row /\ row \in Row
        BY <1>1, <2>1 DEF TypeInv, JobInv, SerialInv, Asked
  <2>3. \A new, old : Column(new, old, old) = new
        BY DEF Column
  <2>4. Merged(r) = [deleted |-> want[r].deleted, active |-> want[r].active,
                     conf |-> want[r].conf, formula |-> want[r].formula,
                     twin |-> want[r].twin]
        BY <1>3, <2>2, <2>3 DEF Merged
  <2>5. QED  BY <1>1, <2>4 DEF Row
<1>4. QED  BY <1>2, <1>3

LEMMA CommitSerial ==
    ASSUME Serial, TypeInv, SerialInv, NEW r \in Requests, Commit(r) \/ CommitFail(r)
    PROVE  SerialInv'
<1>0. /\ r \in Tasks /\ pc[r] = "commit" /\ op[r] # "none" /\ Finish(r)
      /\ driver' = driver /\ registered' = registered /\ held' = held
      BY DEF Commit, CommitFail, dicts, Tasks, TypeInv, JobInv
<1>1. /\ OnlyActs(r) /\ pc'[r] = "idle" /\ op'[r] = "none" /\ held'[r] = NoDriver
      BY <1>0, FinishActs DEF SerialInv, Place, Waiting
<1>2. Asked(r)' /\ Place(r)'
      BY <1>1 DEF Asked, Place, Waiting
<1>3. PollerInv'
      BY <1>0 DEF SerialInv, PollerInv
<1>4. row' = row \/ DeletedInv'
  <2> SUFFICES ASSUME Commit(r) PROVE row' = row \/ DeletedInv'
      BY DEF CommitFail
  <2>1. row' = want[r]
        BY <1>0, MergedIsWanted DEF Commit
  <2>2. \A u \in Tasks : op'[u] = "none"
        BY <1>0, <1>1, OthersIdle DEF OnlyActs
  <2>3. CASE op[r] \in {"create", "update"}
        BY <1>0, <2>1, <2>3 DEF SerialInv, Asked, DeletedInv
  <2>4. CASE op[r] = "delete"
        BY <1>0, <2>2, <2>4 DEF SerialInv, Place, DeletedInv
  <2>5. CASE op[r] \in {"restart", "boot"}
        BY <1>0, <2>1, <2>5 DEF SerialInv, Asked
  <2>6. QED  BY <1>0, <2>3, <2>4, <2>5 DEF TypeInv, TypeOK
<1>5. QED  BY <1>0, <1>1, <1>2, <1>3, <1>4, SerialStep

LEMMA BootSerial ==
    ASSUME Serial, TypeInv, SerialInv, Boot
    PROVE  SerialInv'
<1>1. /\ "boot" \in Tasks /\ pc["boot"] = "down" /\ registered = NoDriver
      /\ row' = row /\ driver' = driver /\ registered' = registered /\ held' = held
      BY DEF Boot, dicts, Tasks, SerialInv, Place
<1>2. \A r \in Requests : pc[r] = "idle"
      BY <1>1 DEF SerialInv, OneAtWork
<1>3. \A u \in Tasks : op[u] = "none" /\ held[u] = NoDriver
      BY <1>1, <1>2 DEF Tasks, SerialInv, Asked, Place, Waiting
<1>4. OnlyActs("boot")
      BY <1>1 DEF Boot, Goto, job, OnlyActs, TypeInv, TypeOK
<1>5. \A u \in Tasks \ {"boot"} : Asked(u)' /\ Place(u)'
  <2>1. \A u \in Tasks \ {"boot"} : pc'[u] = "idle" /\ op'[u] = "none" /\ held'[u] = NoDriver
        BY <1>2, <1>3, <1>4 DEF OnlyActs, Tasks
  <2>2. QED  BY <2>1 DEF Asked, Place, Waiting
<1>6. OneAtWork'
      BY <1>2, <1>4, NamesAssumption DEF OneAtWork, OnlyActs, Tasks
<1>7. PollerInv'
      BY <1>1 DEF SerialInv, PollerInv
<1>8. Asked("boot")' /\ Place("boot")' /\ DeletedInv'
  <2>1. CASE /\ Live(row) /\ row.active
             /\ pc'["boot"] = "read" /\ op'["boot"] = "boot" /\ want'["boot"] = row
    <3>1. DeletedInv'
          BY <1>1, <2>1 DEF Live, DeletedInv
    <3>2. Asked("boot")'
          BY <1>1, <2>1 DEF Live, Asked
    <3>3. Place("boot")'
          BY <1>1, <1>3, <2>1 DEF Place, Waiting
    <3>4. QED  BY <3>1, <3>2, <3>3
  <2>2. CASE pc'["boot"] = "idle" /\ op' = op
    <3>1. DeletedInv'
          BY <1>1, <1>3, <2>2 DEF DeletedInv
    <3>2. Asked("boot")'
          BY <1>1, <1>3, <2>2 DEF Asked
    <3>3. Place("boot")'
          BY <1>1, <1>3, <2>2 DEF Place, Waiting
    <3>4. QED  BY <3>1, <3>2, <3>3
  <2>3. QED  BY <1>1, <2>1, <2>2 DEF Boot, Goto, job, TypeInv, TypeOK
<1>9. QED  BY <1>5, <1>6, <1>7, <1>8 DEF SerialInv

(* Nothing is there yet, or any more.                                      *)
LEMMA DownSerial ==
    ASSUME registered = NoDriver, pc = Down, op = [t \in Tasks |-> "none"],
           held = [t \in Tasks |-> NoDriver], driver = [d \in Drivers |-> Unused]
    PROVE  SerialInv
<1>1. \A t \in Tasks : /\ pc[t] = IF t = "boot" THEN "down" ELSE "idle"
                       /\ op[t] = "none" /\ held[t] = NoDriver
      BY DEF Down
<1>2. \A d \in Drivers : ~driver[d].loop /\ ~driver[d].stray
      BY DEF Unused
<1>3. OneAtWork
      BY <1>1, NamesAssumption DEF OneAtWork, Tasks
<1>4. PollerInv /\ DeletedInv
      BY <1>1, <1>2 DEF PollerInv, DeletedInv
<1>5. \A t \in Tasks : Asked(t) /\ Place(t)
      BY <1>1 DEF Asked, Place, Waiting
<1>6. QED  BY <1>3, <1>4, <1>5 DEF SerialInv

LEMMA CrashSerial ==
    ASSUME Crash
    PROVE  SerialInv'
<1>1. \A t \in Tasks : /\ pc'[t] = IF t = "boot" THEN "down" ELSE "idle"
                       /\ op'[t] = "none" /\ held'[t] = NoDriver
      BY DEF Crash, Down
<1>2. registered' = NoDriver /\ \A d \in Drivers : ~driver'[d].loop /\ ~driver'[d].stray
      BY DEF Crash, Unused
<1>3. OneAtWork'
      BY <1>1, NamesAssumption DEF OneAtWork, Tasks
<1>4. PollerInv' /\ DeletedInv'
      BY <1>1, <1>2 DEF PollerInv, DeletedInv
<1>5. \A t \in Tasks : Asked(t)' /\ Place(t)'
      BY <1>1, <1>2 DEF Asked, Place, Waiting
<1>6. QED  BY <1>3, <1>4, <1>5 DEF SerialInv

LEMMA SerialInit == Init => SerialInv
BY DownSerial DEF Init

LEMMA SerialNext ==
    ASSUME Serial, TypeInv, RegistryInv, SerialInv, [Next]_vars
    PROVE  SerialInv'
<1>1. ASSUME NEW r \in Requests, Create(r) \/ Update(r) \/ Delete(r) \/ Restart(r)
      PROVE  SerialInv'
  <2>1. CASE Create(r)
        BY <2>1, BeginSerial DEF Create
  <2>2. CASE Update(r)
        BY <2>2, BeginSerial DEF Update
  <2>3. CASE Delete(r)
    <3>1. row \in Row
          BY <2>3 DEF Delete, Live, TypeInv, TypeOK
    <3>2. LET new == [row EXCEPT !.deleted = TRUE, !.active = FALSE]
          IN  new.deleted /\ ~new.active
          BY <3>1 DEF Row
    <3>3. QED  BY <2>3, <3>2, BeginSerial DEF Delete
  <2>4. CASE Restart(r)
        BY <2>4, BeginSerial DEF Restart
  <2>5. QED  BY <1>1, <2>1, <2>2, <2>3, <2>4
<1>2. ASSUME NEW t \in Tasks, TaskStep(t) PROVE SerialInv'
      BY <1>2, StopReturnsSerial, StartAgainSerial, ConnectedSerial DEF TaskStep
<1>3. ASSUME NEW d \in Drivers, StrayEnds(d) PROVE SerialInv'
      BY <1>3 DEF StrayEnds, SerialInv, PollerInv
<1>4. ASSUME BootAdds PROVE SerialInv'
  <2>1. "boot" \in Tasks /\ op["boot"] = "boot" /\ AddSensor("boot") /\ row' = row
        BY <1>4 DEF BootAdds, Tasks, TypeInv, JobInv
  <2>2. QED  BY <2>1, AddSensorSerial
<1>5. ASSUME UNCHANGED vars PROVE SerialInv'
      BY <1>5 DEF vars, SerialInv, OneAtWork, PollerInv, DeletedInv, Asked, Place
<1>6. QED
      BY <1>1, <1>2, <1>3, <1>4, <1>5, ApplySerial, CommitSerial, BootSerial, CrashSerial
      DEF Next, RequestStep

LEMMA SerialAlways == Serial /\ Spec => [](TypeInv /\ RegistryInv /\ SerialInv)
<1> SUFFICES ASSUME Serial PROVE Spec => [](TypeInv /\ RegistryInv /\ SerialInv)
    OBVIOUS
<1>1. TypeInv /\ RegistryInv /\ SerialInv /\ [Next]_vars => SerialInv'
      BY SerialNext
<1>2. QED  BY <1>1, SerialInit, TypeInit, TypeNext, RegistryInit, RegistryNext, PTL DEF Spec

(* As long as no two requests overlap, no crash and no failing commit      *)
(* brings about a second poll loop.                                        *)
THEOREM OnePoller == ASSUME Serial PROVE Spec => []SinglePoller
<1>1. ASSUME SerialInv PROVE SinglePoller
      BY <1>1 DEF SerialInv, PollerInv, SinglePoller, Polling
<1>2. QED  BY <1>1, SerialAlways, PTL

(* As long as no two requests overlap, a sensor whose deletion has been    *)
(* committed is not polled, whatever commits failed before.                *)
THEOREM DeletedStopped == ASSUME Serial PROVE Spec => []DeletedIsStopped
<1>1. ASSUME SerialInv PROVE DeletedIsStopped
      BY <1>1, NamesAssumption
      DEF SerialInv, DeletedInv, PollerInv, DeletedIsStopped, Polling
<1>2. QED  BY <1>1, SerialAlways, PTL

-----------------------------------------------------------------------------
(* The driver follows the row, when no commit fails either.                *)

(* The driver is the one that row w asks for.                              *)
Applied(w) ==
    /\ registered # NoDriver <=> Live(w) /\ w.active /\ w.conf \notin BadConfs
    /\ registered # NoDriver => driver[registered].conf = w.conf /\ formula = w.formula

(* How far task t is in applying the row it wants.                         *)
Applying(t) ==
    /\ op[t] # "boot" /\ pc[t] = "read" => Applied(row)
    /\ op[t] = "restart" => Applied(row)
    /\ pc[t] = "commit" => Applied(want[t])
    /\ pc[t] = "connecting" /\ op[t] # "restart" =>
          /\ want[t].active /\ want[t].conf \notin BadConfs /\ ~want[t].deleted
          /\ driver[held[t]].conf = want[t].conf /\ formula = want[t].formula

AppliedInv == (AtRest => Applied(row)) /\ \A t \in Tasks : Applying(t)

(* A step of the one task at work.                                         *)
LEMMA AppliedStep ==
    ASSUME Serial, SerialInv, NEW t \in Tasks, op[t] # "none", OnlyActs(t), Applying(t)',
           pc'[t] = "idle" => Applied(row)'
    PROVE  AppliedInv'
<1>1. \A u \in Tasks \ {t} : pc'[u] = "idle" /\ op'[u] = "none"
      BY OthersIdle DEF OnlyActs
<1>2. \A u \in Tasks \ {t} : Applying(u)'
      BY <1>1 DEF Applying
<1>3. QED  BY <1>2 DEF AppliedInv, AtRest

(* What the row asks for is unchanged, and so is the driver.               *)
LEMMA StillApplied ==
    ASSUME TypeInv, NEW w, Applied(w), registered' = registered, formula' = formula,
           \A d \in Drivers : driver'[d].conf = driver[d].conf
    PROVE  /\ registered' # NoDriver <=> Live(w) /\ w.active /\ w.conf \notin BadConfs
           /\ registered' # NoDriver => /\ driver'[registered'].conf = w.conf
                                        /\ formula' = w.formula
BY DEF Applied, TypeInv, TypeOK

(* add_sensor() or remove_sensor() returns, and the row it was called for  *)
(* is applied: it is committed next, or at start-up it is committed.       *)
LEMMA ReturnApplied ==
    ASSUME Serial, TypeInv, SerialInv, NEW t \in Tasks, op[t] \notin {"none", "restart"}, Return(t),
           row' = row,
           registered' # NoDriver <=>
               Live(want[t]) /\ want[t].active /\ want[t].conf \notin BadConfs,
           registered' # NoDriver => /\ driver'[registered'].conf = want[t].conf
                                     /\ formula' = want[t].formula
    PROVE  AppliedInv'
<1>1. OnlyActs(t)
      BY ReturnActs
<1>2. CASE t = "boot"
  <2>1. pc'[t] = "idle" /\ op'[t] = "none" /\ want[t] = row
        BY <1>2, ReturnActs DEF TypeInv, JobInv, SerialInv, Asked
  <2>2. Applying(t)' /\ Applied(row)'
        BY <2>1 DEF Applying, Applied, Live
  <2>3. QED  BY <1>1, <2>2, AppliedStep
<1>3. CASE t # "boot"
  <2>1. pc'[t] = "commit" /\ op'[t] = op[t] /\ want' = want
        BY <1>3, ReturnActs
  <2>2. Applying(t)'
        BY <2>1 DEF Applying, Applied, Live
  <2>3. QED  BY <1>1, <2>1, <2>2, AppliedStep
<1>4. QED  BY <1>2, <1>3

LEMMA StartApplied ==
    ASSUME Serial, TypeInv, SerialInv, NEW t \in Tasks, op[t] \notin {"none", "restart"},
           want[t].active, ~want[t].deleted, NEW popped, StartDriver(t, popped),
           row' = row, registered' = NoDriver
    PROVE  AppliedInv'
<1>0. want[t] \in Row /\ Live(want[t])
      BY NamesAssumption DEF TypeInv, JobInv, Live, Row
<1>1. CASE want[t].conf \in BadConfs
      BY <1>1, ReturnApplied DEF StartDriver
<1>2. CASE want[t].conf \notin BadConfs
  <2>1. PICK d \in Drivers :
             /\ driver' = [driver EXCEPT ![d] =
                    [running |-> TRUE, loop |-> FALSE, stray |-> FALSE, conf |-> want[t].conf]]
             /\ held' = [held EXCEPT ![t] = d]
        BY <1>2 DEF StartDriver
  <2>2. formula' = want[t].formula /\ Goto(t, "connecting") /\ UNCHANGED job
        BY <1>2 DEF StartDriver
  <2>3. pc'[t] = "connecting" /\ UNCHANGED <<op, seen, want>> /\ held'[t] = d /\ OnlyActs(t)
        BY <2>1, <2>2 DEF Goto, job, OnlyActs, TypeInv, TypeOK
  <2>4. driver'[d].conf = want[t].conf
        BY <2>1 DEF TypeInv, TypeOK
  <2>5. Applying(t)'
        BY <1>2, <2>2, <2>3, <2>4 DEF Applying
  <2>6. QED  BY <2>3, <2>5, AppliedStep
<1>3. QED  BY <1>1, <1>2

LEMMA RemoveApplied ==
    ASSUME Serial, TypeInv, SerialInv, NEW t \in Tasks, op[t] \notin {"none", "restart"}, Remove(t)
    PROVE  AppliedInv'
<1>1. pc'[t] = "stopping" /\ op'[t] = op[t] /\ OnlyActs(t)
      BY DEF Remove, Goto, job, OnlyActs, TypeInv, TypeOK
<1>2. Applying(t)'
      BY <1>1 DEF Applying
<1>3. QED  BY <1>1, <1>2, AppliedStep

LEMMA AddSensorApplied ==
    ASSUME Serial, TypeInv, SerialInv, NEW t \in Tasks, op[t] \notin {"none", "restart"},
           want[t].active, ~want[t].deleted, AddSensor(t), row' = row
    PROVE  AppliedInv'
BY RemoveApplied, StartApplied DEF AddSensor

LEMMA RemoveSensorApplied ==
    ASSUME Serial, TypeInv, SerialInv, NEW t \in Tasks, op[t] \notin {"none", "restart"},
           ~want[t].active, RemoveSensor(t), row' = row
    PROVE  AppliedInv'
BY RemoveApplied, ReturnApplied DEF RemoveSensor

LEMMA RestartApplied ==
    ASSUME Serial, TypeInv, SerialInv, NEW t \in Tasks, op[t] = "restart", RestartDriver(t),
           UNCHANGED dicts, row' = row, Applied(row)
    PROVE  AppliedInv'
<1>1. \A d \in Drivers : driver'[d].conf = driver[d].conf
  <2>1. CASE driver' = driver
        BY <2>1
  <2>2. CASE driver' = Stopped(registered) /\ registered \in Drivers
        BY <2>2 DEF Stopped, TypeInv, TypeOK, Driver
  <2>3. QED  BY <2>1, <2>2 DEF RestartDriver, TypeInv, TypeOK
<1>2. Applied(row)'
      BY <1>1, StillApplied DEF Applied, Live, dicts
<1>3. OnlyActs(t) /\ pc'[t] \in {"idle", "stopping", "sleep"}
  <2>1. CASE Finish(t) /\ UNCHANGED held
        BY <2>1, FinishActs
  <2>2. CASE /\ held' = [held EXCEPT ![t] = registered]
             /\ Goto(t, IF RegisteredRuns THEN "stopping" ELSE "sleep")
             /\ UNCHANGED job
        BY <2>2 DEF Goto, job, OnlyActs, TypeInv, TypeOK
  <2>3. QED  BY <2>1, <2>2 DEF RestartDriver
<1>4. Applying(t)'
      BY <1>2, <1>3 DEF Applying
<1>5. QED  BY <1>2, <1>3, <1>4, AppliedStep

LEMMA ApplyApplied ==
    ASSUME Serial, TypeInv, SerialInv, AppliedInv, NEW r \in Requests, Apply(r)
    PROVE  AppliedInv'
<1>0. /\ r \in Tasks /\ r # "boot" /\ pc[r] = "read" /\ row' = row
      /\ op[r] # "boot" /\ op[r] # "none" /\ want[r] \in Row /\ Applied(row)
      BY NamesAssumption DEF Apply, Tasks, TypeInv, JobInv, AppliedInv, Applying
<1>1. CASE op[r] = "create" /\ AddSensor(r)
      BY <1>0, <1>1, AddSensorApplied DEF SerialInv, Asked
<1>2. CASE op[r] = "update" /\ want[r].active /\ AddSensor(r)
      BY <1>0, <1>2, AddSensorApplied DEF SerialInv, Asked
<1>3. CASE op[r] \in {"update", "delete"} /\ ~want[r].active /\ RemoveSensor(r)
      BY <1>0, <1>3, RemoveSensorApplied
<1>4. CASE op[r] = "update" /\ ~NeedsRestart(r) /\ UpdateFormula(r)
  <2>1. /\ Live(row) /\ Live(want[r])
        /\ want[r].conf = row.conf /\ want[r].active = row.active
    <3>1. seen[r] = row /\ row \in Row /\ ~want[r].deleted
          BY <1>0, <1>4 DEF SerialInv, Asked, TypeInv, JobInv
    <3>2. ~row.deleted
          BY <1>0, <3>1, NamesAssumption DEF SerialInv, DeletedInv, Row
    <3>3. QED  BY <1>0, <1>4, <3>1, <3>2, NamesAssumption DEF NeedsRestart, Live, Row
  <2>2. /\ registered' = registered /\ driver' = driver
        /\ registered # NoDriver => formula' = want[r].formula
        BY <1>4 DEF UpdateFormula
  <2>3. Return(r)
        BY <1>4 DEF UpdateFormula
  <2>4. QED  BY <1>0, <1>4, <2>1, <2>2, <2>3, ReturnApplied DEF Applied
<1>5. CASE /\ op[r] = "update" /\ ~NeedsRestart(r) /\ want[r].formula = seen[r].formula
           /\ UNCHANGED <<dicts, driver>> /\ Return(r)
  <2>1. /\ Live(row) /\ Live(want[r]) /\ want[r].formula = row.formula
        /\ want[r].conf = row.conf /\ want[r].active = row.active
    <3>1. seen[r] = row /\ row \in Row /\ ~want[r].deleted
          BY <1>0, <1>5 DEF SerialInv, Asked, TypeInv, JobInv
    <3>2. ~row.deleted
          BY <1>0, <3>1, NamesAssumption DEF SerialInv, DeletedInv, Row
    <3>3. QED  BY <1>0, <1>5, <3>1, <3>2, NamesAssumption DEF NeedsRestart, Live, Row
  <2>2. registered' = registered /\ driver' = driver /\ formula' = formula
        BY <1>5 DEF dicts
  <2>3. QED  BY <1>0, <1>5, <2>1, <2>2, ReturnApplied DEF Applied
<1>6. CASE op[r] = "restart" /\ RestartDriver(r) /\ UNCHANGED dicts
      BY <1>0, <1>6, RestartApplied
<1>7. op[r] = "delete" => ~want[r].active
      BY <1>0 DEF SerialInv, Asked
<1>8. QED  BY <1>1, <1>2, <1>3, <1>4, <1>5, <1>6, <1>7 DEF Apply, ApplyUpdate

LEMMA StopReturnsApplied ==
    ASSUME Serial, TypeInv, SerialInv, AppliedInv, NEW t \in Tasks, StopReturns(t)
    PROVE  AppliedInv'
<1>0. pc[t] = "stopping" /\ op[t] # "none" /\ row' = row
      BY DEF StopReturns, TypeInv, JobInv
<1>1. op[t] # "restart" => registered = NoDriver
      BY <1>0 DEF SerialInv, Place, Waiting
<1>2. CASE /\ op[t] \in {"create", "update"} /\ want[t].active /\ StartDriver(t, FALSE)
           /\ registered' = registered
      BY <1>0, <1>1, <1>2, StartApplied DEF SerialInv, Asked
<1>3. CASE /\ op[t] \in {"update", "delete"} /\ ~want[t].active /\ Return(t)
           /\ UNCHANGED <<dicts, driver>>
      BY <1>0, <1>1, <1>3, ReturnApplied DEF dicts
<1>4. CASE op[t] = "restart" /\ Goto(t, "sleep") /\ UNCHANGED <<dicts, driver, held, job>>
  <2>1. /\ pc'[t] = "sleep" /\ OnlyActs(t)
        /\ UNCHANGED <<op, registered, formula, driver>>
        BY <1>4 DEF Goto, job, dicts, OnlyActs, TypeInv, TypeOK
  <2>2. Applied(row)
        BY <1>4 DEF AppliedInv, Applying
  <2>3. Applying(t)'
        BY <1>0, <2>1, <2>2 DEF Applying, Applied, Live
  <2>4. QED  BY <1>0, <2>1, <2>3, AppliedStep
<1>5. QED  BY <1>2, <1>3, <1>4 DEF StopReturns

LEMMA StartAgainApplied ==
    ASSUME Serial, TypeInv, SerialInv, AppliedInv, NEW t \in Tasks, StartAgain(t)
    PROVE  AppliedInv'
<1>0. /\ pc[t] = "sleep" /\ op[t] = "restart" /\ held[t] \in Drivers /\ Applied(row)
      /\ row' = row /\ registered' = registered /\ formula' = formula
      BY DEF StartAgain, dicts, TypeInv, HoldInv, AppliedInv, Applying
<1>1. ~driver[held[t]].running
      BY <1>0 DEF SerialInv, Place
<1>2. /\ driver' = [driver EXCEPT ![held[t]].running = TRUE]
      /\ Goto(t, "connecting") /\ UNCHANGED job
      BY <1>1 DEF StartAgain
<1>3. pc'[t] = "connecting" /\ op'[t] = "restart" /\ OnlyActs(t)
      BY <1>0, <1>1 DEF StartAgain, Goto, job, OnlyActs, TypeInv, TypeOK
<1>4. \A e \in Drivers : driver'[e].conf = driver[e].conf
      BY <1>0, <1>2 DEF TypeInv, TypeOK, Driver
<1>5. Applied(row)'
      BY <1>0, <1>4, StillApplied DEF Applied, Live
<1>6. Applying(t)'
      BY <1>3, <1>5 DEF Applying
<1>7. QED  BY <1>0, <1>3, <1>6, AppliedStep

LEMMA ConnectedApplied ==
    ASSUME Serial, TypeInv, SerialInv, AppliedInv, NEW t \in Tasks, Connected(t)
    PROVE  AppliedInv'
<1>0. /\ pc[t] = "connecting" /\ held[t] \in Drivers /\ op[t] # "none" /\ want[t] \in Row
      /\ row' = row /\ formula' = formula /\ driver' = WithLoop(held[t])
      BY DEF Connected, TypeInv, JobInv, HoldInv
<1>1. \A e \in Drivers : driver'[e].conf = driver[e].conf
  <2>1. CASE driver[held[t]].running
    <3>1. driver' = [driver EXCEPT ![held[t]].loop = TRUE,
                                   ![held[t]].stray = @ \/ driver[held[t]].loop]
          BY <1>0, <2>1 DEF WithLoop
    <3>2. QED  BY <1>0, <3>1 DEF TypeInv, TypeOK, Driver
  <2>2. CASE ~driver[held[t]].running
        BY <1>0, <2>2 DEF WithLoop
  <2>3. QED  BY <2>1, <2>2
<1>2. CASE op[t] = "restart" /\ Finish(t) /\ registered' = registered
  <2>1. OnlyActs(t) /\ pc'[t] = "idle" /\ op'[t] = "none"
        BY <1>2, FinishActs DEF Connected
  <2>2. Applied(row)
        BY <1>2 DEF AppliedInv, Applying
  <2>3. Applied(row)'
        BY <1>0, <1>1, <1>2, <2>2, StillApplied DEF Applied, Live
  <2>4. Applying(t)'
        BY <2>1 DEF Applying
  <2>5. QED  BY <1>0, <2>1, <2>3, <2>4, AppliedStep
<1>3. CASE op[t] # "restart" /\ registered' = held[t] /\ Return(t)
  <2>1. /\ want[t].active /\ want[t].conf \notin BadConfs /\ ~want[t].deleted
        /\ driver[held[t]].conf = want[t].conf /\ formula = want[t].formula
        BY <1>0, <1>3 DEF AppliedInv, Applying
  <2>2. held[t] # NoDriver /\ Live(want[t])
        BY <1>0, <2>1, NamesAssumption DEF Live, Row
  <2>3. QED  BY <1>0, <1>1, <1>3, <2>1, <2>2, ReturnApplied
<1>4. QED  BY <1>2, <1>3 DEF Connected

LEMMA BeginApplied ==
    ASSUME Serial, TypeInv, SerialInv, AppliedInv, NEW r \in Requests,
           NEW what \in {"create", "update", "delete", "restart"}, NEW new, Begin(r, what, new)
    PROVE  AppliedInv'
<1>1. /\ r \in Tasks /\ pc["boot"] = "idle" /\ pc[r] = "idle" /\ row' = row
      /\ driver' = driver /\ registered' = registered /\ formula' = formula
      BY DEF Begin, Tasks, dicts
<1>2. pc'[r] = "read" /\ op'[r] = what /\ OnlyActs(r)
      BY <1>1 DEF Begin, Goto, OnlyActs, TypeInv, TypeOK
<1>3. AtRest
      BY <1>1 DEF Serial, AtRest, Tasks
<1>4. Applied(row)'
      BY <1>1, <1>3 DEF AppliedInv, Applied, Live
<1>5. \A u \in Tasks \ {r} : pc'[u] = "idle" /\ op'[u] = "none"
      BY <1>2, <1>3 DEF AtRest, OnlyActs, SerialInv, Asked
<1>6. \A u \in Tasks : Applying(u)'
      BY <1>2, <1>4, <1>5 DEF Applying
<1>7. QED  BY <1>1, <1>2, <1>6 DEF AppliedInv, AtRest

LEMMA CommitApplied ==
    ASSUME Serial, TypeInv, SerialInv, AppliedInv, NEW r \in Requests, Commit(r)
    PROVE  AppliedInv'
<1>0. /\ r \in Tasks /\ pc[r] = "commit" /\ op[r] # "none" /\ Finish(r)
      /\ driver' = driver /\ registered' = registered /\ formula' = formula /\ held' = held
      BY DEF Commit, dicts, Tasks, TypeInv, JobInv
<1>1. OnlyActs(r) /\ pc'[r] = "idle" /\ op'[r] = "none"
      BY <1>0, FinishActs
<1>2. row' = want[r] /\ Applied(want[r])
      BY <1>0, MergedIsWanted DEF Commit, AppliedInv, Applying
<1>3. Applied(row)'
      BY <1>0, <1>2 DEF Applied, Live
<1>4. Applying(r)'
      BY <1>1 DEF Applying
<1>5. QED  BY <1>0, <1>1, <1>3, <1>4, AppliedStep

LEMMA BootApplied ==
    ASSUME Serial, TypeInv, SerialInv, Boot
    PROVE  AppliedInv'
<1>1. /\ "boot" \in Tasks /\ pc["boot"] = "down" /\ registered = NoDriver
      /\ row' = row /\ driver' = driver /\ registered' = registered /\ formula' = formula
      BY DEF Boot, dicts, Tasks, SerialInv, Place
<1>2. OnlyActs("boot")
      BY <1>1 DEF Boot, Goto, job, OnlyActs, TypeInv, TypeOK
<1>3. \A u \in Tasks \ {"boot"} : pc'[u] = "idle" /\ op'[u] = "none"
      BY <1>1, <1>2 DEF Tasks, OnlyActs, SerialInv, OneAtWork, Asked
<1>4. \A u \in Tasks \ {"boot"} : Applying(u)'
      BY <1>3 DEF Applying
<1>5. CASE pc'["boot"] = "read" /\ op'["boot"] = "boot"
      BY <1>1, <1>4, <1>5 DEF AppliedInv, AtRest, Applying
<1>6. CASE pc'["boot"] = "idle" /\ op' = op /\ ~(Live(row) /\ row.active)
  <2>1. op["boot"] = "none"
        BY <1>1 DEF SerialInv, Asked
  <2>2. Applied(row)'
        BY <1>1, <1>6 DEF Applied, Live
  <2>3. Applying("boot")'
        BY <1>6, <2>1 DEF Applying
  <2>4. QED  BY <1>4, <2>2, <2>3 DEF AppliedInv
<1>7. QED  BY <1>1, <1>5, <1>6 DEF Boot, Goto, job, TypeInv, TypeOK

LEMMA AppliedInit == Init => AppliedInv
<1> SUFFICES ASSUME Init PROVE AppliedInv
    OBVIOUS
<1>1. "boot" \in Tasks /\ pc["boot"] = "down"
      BY DEF Init, Down, Tasks
<1>2. \A t \in Tasks : pc[t] \in {"idle", "down"} /\ op[t] = "none"
      BY DEF Init, Down
<1>3. QED  BY <1>1, <1>2 DEF AppliedInv, AtRest, Applying

LEMMA CrashApplied ==
    ASSUME Crash
    PROVE  AppliedInv'
<1>1. "boot" \in Tasks /\ pc'["boot"] = "down"
      BY DEF Crash, Down, Tasks
<1>2. \A t \in Tasks : pc'[t] \in {"idle", "down"} /\ op'[t] = "none"
      BY DEF Crash, Down
<1>3. QED  BY <1>1, <1>2 DEF AppliedInv, AtRest, Applying

LEMMA AppliedNext ==
    ASSUME Serial, ~CommitMayFail, TypeInv, SerialInv, AppliedInv, [Next]_vars
    PROVE  AppliedInv'
<1>1. ASSUME NEW r \in Requests, Create(r) \/ Update(r) \/ Delete(r) \/ Restart(r)
      PROVE  AppliedInv'
      BY <1>1, BeginApplied DEF Create, Update, Delete, Restart
<1>2. ASSUME NEW t \in Tasks, TaskStep(t) PROVE AppliedInv'
      BY <1>2, StopReturnsApplied, StartAgainApplied, ConnectedApplied DEF TaskStep
<1>3. ASSUME NEW d \in Drivers, StrayEnds(d) PROVE AppliedInv'
      BY <1>3 DEF StrayEnds, SerialInv, PollerInv
<1>4. ASSUME BootAdds PROVE AppliedInv'
  <2>1. "boot" \in Tasks /\ op["boot"] = "boot" /\ AddSensor("boot") /\ row' = row
        BY <1>4 DEF BootAdds, Tasks, TypeInv, JobInv
  <2>2. want["boot"] = row /\ row.active /\ row \in Row
        BY <2>1 DEF SerialInv, Asked, TypeInv, JobInv
  <2>3. ~row.deleted
        BY <2>1, <2>2, NamesAssumption DEF SerialInv, DeletedInv, Row
  <2>4. QED  BY <2>1, <2>2, <2>3, AddSensorApplied
<1>5. ASSUME UNCHANGED vars PROVE AppliedInv'
      BY <1>5 DEF vars, AppliedInv, AtRest, Applied, Applying, Live
<1>6. QED
      BY <1>1, <1>2, <1>3, <1>4, <1>5, ApplyApplied, CommitApplied, BootApplied, CrashApplied
      DEF Next, RequestStep, CommitFail

(* As long as no two requests overlap and no commit fails, the driver is   *)
(* after every request, and after every start, the one the row asks for.   *)
THEOREM RowIsApplied == ASSUME Serial, ~CommitMayFail PROVE Spec => []RowApplied
<1>1. TypeInv /\ RegistryInv /\ SerialInv /\ AppliedInv /\ [Next]_vars => AppliedInv'
      BY AppliedNext
<1>2. AppliedInv => RowApplied
      BY DEF AppliedInv, Applied, RowApplied
<1>3. QED  BY <1>1, <1>2, SerialAlways, AppliedInit, PTL DEF Spec
=============================================================================

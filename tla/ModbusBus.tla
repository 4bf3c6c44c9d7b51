------------------------------ MODULE ModbusBus ------------------------------
(***************************************************************************)
(* The sensors of one Modbus gateway: the poll loop of BaseDriver          *)
(* (backend/app/drivers/base.py), connect(), read(), read_registers() and  *)
(* write() of ModbusDriver (backend/app/drivers/modbus.py), and            *)
(* write_sensor() of backend/app/services/orchestrator.py.                 *)
(*                                                                         *)
(* The drivers of a gateway share one client object and one asyncio.Lock   *)
(* (modbus.py:15-19).  The lock is fair: whoever asks for it waits for     *)
(* those who asked before, which ahead[t] names.  A task is at one of:     *)
(*   off    a driver that is stopped, a request that is over               *)
(*   stopping  in stop(), awaiting the end of the cancelled poll loop      *)
(*   lock   in connect(), asking for the lock;  open  awaiting the client  *)
(*   read   asking for the lock, for a transaction;  busy  awaiting it     *)
(*   sleep  a poll loop between two polls                                  *)
(* The callbacks of a value and of a status are not modelled here, nor are *)
(* overlapping start() and stop() of one driver (see Orchestrator).        *)
(***************************************************************************)
EXTENDS Naturals, FiniteSets

CONSTANTS
    Drivers,       \* the sensors of the gateway
    Writers,       \* concurrent calls of write_sensor()
    Clients,       \* AsyncModbusTcpClient objects
    NoClient,      \* Python's None
    NoDriver,      \* no target
    Blocks,        \* transactions that one reading of a driver takes
    RetryCount,    \* retry_count
    MaxFaults,     \* bound: connects, reads and writes that fail with the gateway up
    MaxOutages,    \* bound: times the gateway goes away
    MaxStarts      \* bound: calls of start()

Tasks == Drivers \cup Writers

ASSUME TasksAssumption ==
    /\ Drivers \cap Writers = {} /\ IsFiniteSet(Tasks)
    /\ NoDriver \notin Drivers
    /\ NoClient \notin Clients

ASSUME NumbersAssumption ==
    /\ Blocks \in [Drivers -> Nat \ {0}]
    /\ RetryCount \in Nat \ {0}
    /\ {MaxFaults, MaxOutages, MaxStarts} \subseteq Nat

VARIABLES
    pc,            \* where each task is
    ahead,         \* the tasks that asked for the lock before it and still have or want it
    running,       \* BaseDriver._running
    starting,      \* is the driver inside start(), not yet in its poll loop?
    connected,     \* BaseDriver._connected
    errors,        \* BaseDriver._error_count, up to RetryCount
    status,        \* the last status it reported
    left,          \* blocks of the current reading that are still to be read
    client,        \* ModbusDriver._client
    target,        \* the driver each request writes to
    wire,          \* the client of the transaction or connect each task awaits
    shared,        \* the client in _SHARED_TCP_CLIENTS
    live,          \* client.connected
    up,            \* does the gateway answer?
    faults, outages, starts

driverState == <<running, starting, connected, errors, status, left>>
external == <<live, up, outages>>
vars == <<pc, ahead, driverState, client, target, wire, shared, external, faults, starts>>

TypeOK ==
    /\ pc \in [Tasks -> {"off", "lock", "open", "read", "busy", "sleep",
                     "stopping"}]
    /\ ahead \in [Tasks -> SUBSET Tasks]
    /\ running \in [Drivers -> BOOLEAN]
    /\ starting \in [Drivers -> BOOLEAN]
    /\ connected \in [Drivers -> BOOLEAN]
    /\ errors \in [Drivers -> 0..RetryCount]
    /\ status \in [Drivers -> {"UNKNOWN", "ONLINE", "OFFLINE", "ERROR"}]
    /\ left \in [Drivers -> Nat]
    /\ client \in [Drivers -> Clients \cup {NoClient}]
    /\ target \in [Writers -> Drivers \cup {NoDriver}]
    /\ wire \in [Tasks -> Clients \cup {NoClient}]
    /\ shared \in Clients \cup {NoClient}
    /\ live \in [Clients -> BOOLEAN]
    /\ up \in BOOLEAN
    /\ faults \in Nat /\ outages \in Nat /\ starts \in Nat

Init ==
    /\ pc = [t \in Tasks |-> "off"]
    /\ ahead = [t \in Tasks |-> {}]
    /\ running = [d \in Drivers |-> FALSE]
    /\ starting = [d \in Drivers |-> FALSE]
    /\ connected = [d \in Drivers |-> FALSE]
    /\ errors = [d \in Drivers |-> 0]
    /\ status = [d \in Drivers |-> "UNKNOWN"]
    /\ left = [d \in Drivers |-> 0]
    /\ client = [d \in Drivers |-> NoClient]
    /\ target = [w \in Writers |-> NoDriver]
    /\ wire = [t \in Tasks |-> NoClient]
    /\ shared = NoClient
    /\ live = [c \in Clients |-> FALSE]
    /\ up \in BOOLEAN
    /\ faults = 0 /\ outages = 0 /\ starts = 0

-----------------------------------------------------------------------------
(* The lock.                                                               *)

(* The tasks that hold it or wait for it.                                  *)
Queue == {t \in Tasks : pc[t] \in {"lock", "open", "read", "busy"}}

HasLock(t) == t \in Queue /\ ahead[t] = {}

(* A task asks for the lock.                                               *)
Enter(t, label) ==
    /\ pc' = [pc EXCEPT ![t] = label]
    /\ ahead' = [ahead EXCEPT ![t] = Queue]

(* It gives the lock back, or its wait is cancelled.                       *)
Leave(t, label) ==
    /\ pc' = [pc EXCEPT ![t] = label]
    /\ ahead' = [u \in Tasks |-> IF u = t THEN {} ELSE ahead[u] \ {t}]

(* It gives the lock back and asks for it again.                           *)
Requeue(t, label) ==
    /\ pc' = [pc EXCEPT ![t] = label]
    /\ ahead' = [u \in Tasks |-> IF u = t THEN Queue \ {t} ELSE ahead[u] \ {t}]

Fault ==
    /\ faults < MaxFaults
    /\ faults' = faults + 1

-----------------------------------------------------------------------------
(* start() and stop().                                                     *)

Start(d) ==
    /\ pc[d] = "off"
    /\ starts < MaxStarts
    /\ starts' = starts + 1
    /\ running' = [running EXCEPT ![d] = TRUE]
    /\ starting' = [starting EXCEPT ![d] = TRUE]
    /\ errors' = [errors EXCEPT ![d] = 0]
    /\ Enter(d, "lock")
    /\ UNCHANGED <<connected, status, left, client, target, wire, shared, external, faults>>

(* Mutant: a cancelled task keeps its place in the queue of the lock.      *)
StopKeepsPlace(d) ==
    /\ running[d] /\ ~starting[d]
    /\ running' = [running EXCEPT ![d] = FALSE]
    /\ wire' = [wire EXCEPT ![d] = NoClient]
    /\ left' = [left EXCEPT ![d] = 0]
    /\ pc' = [pc EXCEPT ![d] = "stopping"]
    /\ UNCHANGED <<ahead, starting, connected, errors, status, client, target, shared,
                   external, faults, starts>>

(* stop() cancels the poll loop wherever it waits, which gives up the lock *)
(* or the wait for it, and awaits its end.                                 *)
Stop(d) ==
    /\ running[d] /\ ~starting[d]
    /\ running' = [running EXCEPT ![d] = FALSE]
    /\ wire' = [wire EXCEPT ![d] = NoClient]
    /\ left' = [left EXCEPT ![d] = 0]
    /\ Leave(d, "stopping")
    /\ UNCHANGED <<starting, connected, errors, status, client, target, shared,
                   external, faults, starts>>

(* Mutant: the client is not dropped.                                      *)
StoppedKeepsClient(d) ==
    /\ pc[d] = "stopping"
    /\ connected' = [connected EXCEPT ![d] = FALSE]
    /\ status' = [status EXCEPT ![d] = "OFFLINE"]
    /\ pc' = [pc EXCEPT ![d] = "off"]
    /\ UNCHANGED <<ahead, running, starting, errors, left, client, target, wire, shared,
                   external, faults, starts>>

(* The poll loop is over, or has not ended in 5 s: disconnect() drops the  *)
(* client, OFFLINE is reported, and stop() returns.                        *)
Stopped(d) ==
    /\ pc[d] = "stopping"
    /\ client' = [client EXCEPT ![d] = NoClient]
    /\ connected' = [connected EXCEPT ![d] = FALSE]
    /\ status' = [status EXCEPT ![d] = "OFFLINE"]
    /\ pc' = [pc EXCEPT ![d] = "off"]
    /\ UNCHANGED <<ahead, running, starting, errors, left, target, wire, shared, external,
                   faults, starts>>

-----------------------------------------------------------------------------
(* connect(), from start() or from the poll loop.                          *)

(* A new object: one that nobody refers to.                                *)
Unreferenced(c) ==
    /\ c # shared
    /\ \A d \in Drivers : client[d] # c
    /\ \A t \in Tasks : wire[t] # c

NewClient == CHOOSE c \in Clients : Unreferenced(c)

(* connect() has returned TRUE.  The poll loop goes on to read.            *)
Succeeds(d) ==
    /\ connected' = [connected EXCEPT ![d] = TRUE]
    /\ \/ /\ starting[d]
          /\ starting' = [starting EXCEPT ![d] = FALSE]
          /\ status' = [status EXCEPT ![d] = "ONLINE"]
          /\ Leave(d, "sleep")
          /\ UNCHANGED left
       \/ /\ ~starting[d]
          /\ left' = [left EXCEPT ![d] = Blocks[d]]
          /\ Requeue(d, "read")
          /\ UNCHANGED <<starting, status>>

(* Mutant: a connect that fails keeps the lock.                            *)
FailsHolding(d) ==
    /\ starting' = [starting EXCEPT ![d] = FALSE]
    /\ status' = [status EXCEPT ![d] = IF starting[d] THEN "ERROR" ELSE @]
    /\ pc' = [pc EXCEPT ![d] = "sleep"]
    /\ UNCHANGED <<ahead, connected, left>>

(* It has returned FALSE or raised.                                        *)
Fails(d) ==
    /\ starting' = [starting EXCEPT ![d] = FALSE]
    /\ status' = [status EXCEPT ![d] = IF starting[d] THEN "ERROR" ELSE @]
    /\ Leave(d, "sleep")
    /\ UNCHANGED <<connected, left>>

(* Under the lock: the shared client serves if it is still connected.      *)
SharedLive == shared \in {c \in Clients : live[c]}

Reuse(d) ==
    /\ pc[d] = "lock" /\ HasLock(d)
    /\ SharedLive
    /\ client' = [client EXCEPT ![d] = shared]
    /\ Succeeds(d)
    /\ UNCHANGED <<running, errors, target, wire, shared, external, faults, starts>>

Open(d) ==
    /\ pc[d] = "lock" /\ HasLock(d)
    /\ ~SharedLive
    /\ \E c \in Clients : Unreferenced(c)
    /\ wire' = [wire EXCEPT ![d] = NewClient]
    /\ live' = [live EXCEPT ![NewClient] = FALSE]
    /\ pc' = [pc EXCEPT ![d] = "open"]
    /\ UNCHANGED <<ahead, driverState, client, target, shared, up, outages, faults, starts>>

OpenOk(d) ==
    /\ pc[d] = "open"
    /\ up
    /\ live' = [live EXCEPT ![wire[d]] = TRUE]
    /\ shared' = wire[d]
    /\ client' = [client EXCEPT ![d] = wire[d]]
    /\ wire' = [wire EXCEPT ![d] = NoClient]
    /\ Succeeds(d)
    /\ UNCHANGED <<running, errors, target, up, outages, faults, starts>>

OpenFail(d) ==
    /\ pc[d] = "open"
    /\ IF up THEN Fault ELSE UNCHANGED faults
    /\ wire' = [wire EXCEPT ![d] = NoClient]
    /\ Fails(d)
    /\ UNCHANGED <<running, errors, client, target, shared, external, starts>>

-----------------------------------------------------------------------------
(* The poll loop.                                                          *)

(* A poll begins: it reconnects if it must, else it reads.                 *)
Poll(d) ==
    /\ pc[d] = "sleep"
    /\ \/ /\ connected[d]
          /\ left' = [left EXCEPT ![d] = Blocks[d]]
          /\ Enter(d, "read")
       \/ /\ ~connected[d]
          /\ Enter(d, "lock")
          /\ UNCHANGED left
    /\ UNCHANGED <<running, starting, connected, errors, status, client, target, wire,
                   shared, external, faults, starts>>

(* Mutant: without the lock.                                               *)
ReadBlockUnlocked(d) ==
    /\ pc[d] = "read"
    /\ wire' = [wire EXCEPT ![d] = client[d]]
    /\ pc' = [pc EXCEPT ![d] = "busy"]
    /\ UNCHANGED <<ahead, driverState, client, target, shared, external, faults, starts>>

(* Under the lock: the transaction goes out on the driver's own client.    *)
ReadBlock(d) ==
    /\ pc[d] = "read" /\ HasLock(d)
    /\ wire' = [wire EXCEPT ![d] = client[d]]
    /\ pc' = [pc EXCEPT ![d] = "busy"]
    /\ UNCHANGED <<ahead, driverState, client, target, shared, external, faults, starts>>

(* A block is there: the next one takes the lock again; after the last the *)
(* reading is complete.                                                    *)
BlockRead(d) ==
    /\ pc[d] = "busy"
    /\ up /\ live[wire[d]]
    /\ wire' = [wire EXCEPT ![d] = NoClient]
    /\ left' = [left EXCEPT ![d] = @ - 1]
    /\ \/ /\ left[d] > 1
          /\ Requeue(d, "read")
          /\ UNCHANGED <<errors, status>>
       \/ /\ left[d] = 1
          /\ errors' = [errors EXCEPT ![d] = 0]
          /\ status' = [status EXCEPT ![d] = "ONLINE"]
          /\ Leave(d, "sleep")
    /\ UNCHANGED <<running, starting, connected, client, target, shared, external, faults, starts>>

(* Mutant: the driver goes on with the client it has.                      *)
HandleErrorStays(d) ==
    /\ errors' = [errors EXCEPT ![d] = IF @ < RetryCount THEN @ + 1 ELSE @]
    /\ status' = [status EXCEPT ![d] = IF errors'[d] = RetryCount THEN "OFFLINE" ELSE @]
    /\ UNCHANGED connected

(* Mutant: the status is not reported.                                     *)
HandleErrorSilent(d) ==
    /\ errors' = [errors EXCEPT ![d] = IF @ < RetryCount THEN @ + 1 ELSE @]
    /\ connected' = [connected EXCEPT ![d] = @ /\ errors'[d] < RetryCount]
    /\ UNCHANGED status

(* _handle_error()                                                         *)
HandleError(d) ==
    /\ errors' = [errors EXCEPT ![d] = IF @ < RetryCount THEN @ + 1 ELSE @]
    /\ IF errors'[d] = RetryCount
       THEN /\ connected' = [connected EXCEPT ![d] = FALSE]
            /\ status' = [status EXCEPT ![d] = "OFFLINE"]
       ELSE UNCHANGED <<connected, status>>

(* The reading is given up: the gateway answers with an error or not at    *)
(* all, or timeout_ms is over, which may be while it waits for the lock.   *)
ReadFail(d) ==
    /\ pc[d] \in {"read", "busy"}
    /\ IF up /\ live[client[d]] THEN Fault ELSE UNCHANGED faults
    /\ wire' = [wire EXCEPT ![d] = NoClient]
    /\ left' = [left EXCEPT ![d] = 0]
    /\ HandleError(d)
    /\ Leave(d, "sleep")
    /\ UNCHANGED <<running, starting, client, target, shared, external, starts>>

-----------------------------------------------------------------------------
(* write_sensor()                                                          *)

(* The driver is there, runs and has a client: the write asks for the lock. *)
Write(w, d) ==
    /\ pc[w] = "off"
    /\ running[d] /\ client[d] # NoClient
    /\ target' = [target EXCEPT ![w] = d]
    /\ Enter(w, "read")
    /\ UNCHANGED <<driverState, client, wire, shared, external, faults, starts>>

WriteEnds(w) ==
    /\ target' = [target EXCEPT ![w] = NoDriver]
    /\ wire' = [wire EXCEPT ![w] = NoClient]
    /\ Leave(w, "off")

(* Under the lock: the client is looked up again.  A driver whose stop()   *)
(* has dropped it meanwhile has none; while stop() awaits the poll loop it *)
(* is still there, and the write goes out.                                 *)
WriteBegin(w) ==
    /\ pc[w] = "read" /\ HasLock(w)
    /\ \/ /\ client[target[w]] # NoClient
          /\ wire' = [wire EXCEPT ![w] = client[target[w]]]
          /\ pc' = [pc EXCEPT ![w] = "busy"]
          /\ UNCHANGED <<ahead, target>>
       \/ /\ client[target[w]] = NoClient
          /\ WriteEnds(w)
    /\ UNCHANGED <<driverState, client, shared, external, faults, starts>>

(* The write has been acknowledged, or has failed; the caller is told.     *)
WriteReturns(w) ==
    /\ pc[w] = "busy"
    /\ WriteEnds(w)
    /\ UNCHANGED <<driverState, client, shared, external, faults, starts>>

-----------------------------------------------------------------------------
(* The gateway.  Of the open connections some are seen to break at once,   *)
(* others look open until it is back, and some of those still work then.   *)

Breaks ==
    \E broken \in SUBSET Clients :
        live' = [c \in Clients |-> live[c] /\ c \notin broken /\ ~Unreferenced(c)]

GatewayDown ==
    /\ up
    /\ outages < MaxOutages
    /\ outages' = outages + 1
    /\ up' = FALSE
    /\ Breaks
    /\ UNCHANGED <<pc, ahead, driverState, client, target, wire, shared, faults, starts>>

GatewayBack ==
    /\ ~up
    /\ up' = TRUE
    /\ Breaks
    /\ UNCHANGED <<pc, ahead, driverState, client, target, wire, shared, outages, faults,
                   starts>>

(* pymodbus reconnects a broken client by itself.                          *)
Reconnects(c) ==
    /\ up /\ ~live[c]
    /\ ~Unreferenced(c) /\ \A t \in Tasks : pc[t] = "open" => wire[t] # c
    /\ live' = [live EXCEPT ![c] = TRUE]
    /\ UNCHANGED <<pc, ahead, driverState, client, target, wire, shared, up, outages,
                   faults, starts>>

ConnectStep(d) == Reuse(d) \/ Open(d) \/ OpenOk(d) \/ OpenFail(d)
ReadStep(d) == ReadBlock(d) \/ BlockRead(d) \/ ReadFail(d)
WriteStep(w) == WriteBegin(w) \/ WriteReturns(w)

Next ==
    \/ \E d \in Drivers : \/ Start(d) \/ Stop(d) \/ Stopped(d)
                         \/ ConnectStep(d) \/ Poll(d) \/ ReadStep(d)
    \/ \E w \in Writers : WriteStep(w) \/ \E d \in Drivers : Write(w, d)
    \/ GatewayDown \/ GatewayBack
    \/ \E c \in Clients : Reconnects(c)

Spec == Init /\ [][Next]_vars

(* The event loop resumes every task whose await is over: a sleep ends, a  *)
(* connect and a transaction end with an answer or a time-out, stop()      *)
(* awaits the poll loop for 5 s at most, the lock goes to the task that    *)
(* waits longest.  Nothing is assumed of the gateway or of the operators.  *)
Fairness ==
    /\ \A d \in Drivers : WF_vars(ConnectStep(d)) /\ WF_vars(Poll(d)) /\ WF_vars(ReadStep(d))
                         /\ WF_vars(Stopped(d))
    /\ \A w \in Writers : WF_vars(WriteStep(w))

LiveSpec == Spec /\ Fairness

-----------------------------------------------------------------------------
(* Properties.                                                             *)

(* The multi-drop bus behind the gateway carries one transaction or        *)
(* connect at a time, whoever polls, writes, times out or is stopped       *)
(* ("Shared client instances and locks for Modbus RTU and TCP gateways     *)
(* (multi-drop bus)", modbus.py:15).                                       *)
OneTransaction ==
    \A t, u \in Tasks : pc[t] \in {"open", "busy"} /\ pc[u] \in {"open", "busy"} => t = u

(* Whenever somebody wants the bus exactly one task has the lock: no stop, *)
(* time-out, failed connect or write loses it for those who wait (each     *)
(* await on the bus is inside an "async with": modbus.py:61, 172, 314,     *)
(* 367).                                                                   *)
LockIsHeld ==
    Queue # {} => \E t \in Queue : \A u \in Queue : HasLock(u) <=> u = t

(* Nobody waits for a driver that is told to stop, from the moment its     *)
(* poll loop is cancelled (base.py:178), wherever that met it; and when    *)
(* stop() has returned it has no client and is not shown online (base.py:  *)
(* 182-188), whatever was still under way for it.                          *)
StoppedIsQuiet ==
    \A d \in Drivers :
        /\ ~running[d] => \A t \in Tasks : d \notin ahead[t]
        /\ pc[d] = "off" => client[d] = NoClient /\ ~connected[d] /\ status[d] # "ONLINE"

(* No write goes out for a driver whose stop() has returned, however long  *)
(* the write has waited for the lock: write() tests its client before it   *)
(* waits (modbus.py:333) and uses it after (modbus.py:352).  Until         *)
(* disconnect() (base.py:183) it does go out, though write_sensor()        *)
(* refuses a driver that does not run (orchestrator.py:197).               *)
NoWriteForStopped ==
    [][\A w \in Writers : pc[w] = "read" /\ pc'[w] = "busy" => pc[target[w]] # "off"]_vars

(* Whoever asks for the lock gets it and is done, dead gateway or not: no  *)
(* sensor and no request can keep the others from the bus.                 *)
Served == \A t \in Tasks : t \in Queue ~> t \notin Queue

(* Once the gateway stays up a running sensor is polled on and on, and     *)
(* shown online, whatever happened to the shared client before.            *)
Recovers ==
    \A d \in Drivers :
        <>[](up /\ running[d]) =>
            <>[](status[d] = "ONLINE" /\ connected[d]) /\ []<>(pc[d] = "busy")

(* A sensor whose gateway is gone for good is not shown online for ever,   *)
(* even if the shared client looks connected still.                        *)
OutageShown == \A d \in Drivers : <>[]~up => <>[](status[d] # "ONLINE")
=============================================================================

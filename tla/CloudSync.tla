------------------------------ MODULE CloudSync ------------------------------
(***************************************************************************)
(* The northbound MQTT service: CloudSync of                               *)
(* backend/app/services/cloud_sync.py, the PUT /system handler of          *)
(* backend/app/api/routes/config.py that restarts it, and the calls of the *)
(* sensor tasks that publish through it.                                   *)
(*                                                                         *)
(* start() and stop() each await the MQTT client once, so two tasks inside *)
(* them interleave there: "opening" is a task awaiting __aenter__() in     *)
(* start(), "closing" one awaiting __aexit__() in stop().  The aiomqtt     *)
(* client itself is external: an object that is opened once, closed once,  *)
(* and lost for good when the broker goes away.                            *)
(***************************************************************************)
EXTENDS Naturals, FiniteSets

CONSTANTS
    Senders,       \* tasks that call send_reading(): one per running driver
    Loops,         \* tasks that run _reconnect_loop()
    Puts,          \* concurrent PUT /system requests
    Clients,       \* aiomqtt.Client objects
    NoClient,      \* Python's None
    MaxFaults,     \* bound: publishes and connects that fail with the broker up
    MaxOutages,    \* bound: times the broker goes away
    MaxPuts        \* bound: PUT /system requests

ASSUME TasksAssumption ==
    /\ Loops \cap Puts = {}
    /\ "boot" \notin Loops \cup Puts
    /\ NoClient \notin Clients

ASSUME BoundsAssumption == {MaxFaults, MaxOutages, MaxPuts} \subseteq Nat

(* The tasks that run stop() and start(): the application's start-up, the  *)
(* reconnect loops and the requests.                                       *)
Tasks == {"boot"} \cup Loops \cup Puts

VARIABLES
    enabled,       \* settings.digital_twin_enabled, with a host
    connected,     \* CloudSync._connected
    client,        \* CloudSync._client
    reconnecting,  \* CloudSync._reconnecting
    pc,            \* where each task is
    held,          \* the client each task awaits
    restart,       \* body.digital_twin_enabled of each request
    publishing,    \* the client each sender awaits in publish()
    state,         \* what has become of each client
    brokerUp,      \* does the broker answer?
    faults, outages, puts

vars == <<enabled, connected, client, reconnecting, pc, held, restart,
          publishing, state, brokerUp, faults, outages, puts>>

TypeOK ==
    /\ enabled \in BOOLEAN /\ connected \in BOOLEAN /\ reconnecting \in BOOLEAN
    /\ client \in Clients \cup {NoClient}
    /\ pc \in [Tasks -> {"none", "created", "sleep", "retention", "closing", "opening"}]
    /\ held \in [Tasks -> Clients \cup {NoClient}]
    /\ restart \in [Puts -> BOOLEAN]
    /\ publishing \in [Senders -> Clients \cup {NoClient}]
    /\ state \in [Clients -> {"unused", "opening", "open", "lost", "closed"}]
    /\ brokerUp \in BOOLEAN
    /\ faults \in Nat /\ outages \in Nat /\ puts \in Nat

Init ==
    /\ enabled \in BOOLEAN
    /\ connected = FALSE
    /\ client = NoClient
    /\ reconnecting = FALSE
    /\ pc = [t \in Tasks |-> IF t = "boot" THEN "created" ELSE "none"]
    /\ held = [t \in Tasks |-> NoClient]
    /\ restart = [p \in Puts |-> FALSE]
    /\ publishing = [s \in Senders |-> NoClient]
    /\ state = [c \in Clients |-> "unused"]
    /\ brokerUp \in BOOLEAN
    /\ faults = 0 /\ outages = 0 /\ puts = 0

(* A new object: one nobody refers to and that is not at the broker.       *)
Unreferenced(c) ==
    /\ state[c] \in {"unused", "lost", "closed"}
    /\ c # client
    /\ \A t \in Tasks : held[t] # c
    /\ \A s \in Senders : publishing[s] # c

Fault ==
    /\ faults < MaxFaults
    /\ faults' = faults + 1

-----------------------------------------------------------------------------
(* start() and stop(), as parts of a task's step.                          *)

(* Mutants: the loop ends whether or not it connected; it ends and leaves  *)
(* its flag behind.                                                        *)
LoopGivesUp(t, isConnected) ==
    /\ pc' = [pc EXCEPT ![t] = "none"]
    /\ reconnecting' = (reconnecting /\ t \notin Loops)
LoopKeepsFlag(t, isConnected) ==
    /\ pc' = [pc EXCEPT ![t] = IF t \in Loops /\ ~isConnected THEN "sleep" ELSE "none"]
    /\ UNCHANGED reconnecting

(* The loop's test after stop() and start(): is the service back?          *)
LoopDone(t, isConnected) ==
    /\ pc' = [pc EXCEPT ![t] = IF t \in Loops /\ ~isConnected THEN "sleep" ELSE "none"]
    /\ reconnecting' = (reconnecting /\ ~(t \in Loops /\ isConnected))

(* start() up to __aenter__(), with the clients' states after stop().      *)
StartOpens(t, after) ==
    \E c \in Clients :
        /\ Unreferenced(c)
        /\ client' = c
        /\ state' = [after EXCEPT ![c] = "opening"]
        /\ held' = [held EXCEPT ![t] = c]
        /\ pc' = [pc EXCEPT ![t] = "opening"]
        /\ UNCHANGED reconnecting

(* start() with the integration disabled, or no start(): the task is back. *)
StartSkipped(t, after, isConnected) ==
    /\ client' = NoClient
    /\ state' = after
    /\ held' = [held EXCEPT ![t] = NoClient]
    /\ LoopDone(t, isConnected)

Starts(t) == enabled /\ (t \in Puts => restart[t])

AfterStop(t, after, isConnected) ==
    \/ Starts(t) /\ StartOpens(t, after)
    \/ ~Starts(t) /\ StartSkipped(t, after, isConnected)

StopBegins(t) ==
    \/ t \in Loops /\ pc[t] = "sleep"
    \/ t \in Puts /\ pc[t] = "retention"

(* Mutant: stop() that does not say at once that the service is down.      *)
StopStaysConnected(t) ==
    /\ StopBegins(t)
    /\ \/ /\ client # NoClient
          /\ held' = [held EXCEPT ![t] = client]
          /\ pc' = [pc EXCEPT ![t] = "closing"]
          /\ UNCHANGED <<client, reconnecting, state>>
       \/ /\ client = NoClient
          /\ AfterStop(t, state, FALSE)
    /\ UNCHANGED <<connected, enabled, restart, publishing, brokerUp, faults, outages, puts>>

(* stop() up to __aexit__(), or the whole of it when there is no client.   *)
Stop(t) ==
    /\ StopBegins(t)
    /\ connected' = FALSE
    /\ \/ /\ client # NoClient
          /\ held' = [held EXCEPT ![t] = client]
          /\ pc' = [pc EXCEPT ![t] = "closing"]
          /\ UNCHANGED <<client, reconnecting, state>>
       \/ /\ client = NoClient
          /\ AfterStop(t, state, FALSE)
    /\ UNCHANGED <<enabled, restart, publishing, brokerUp, faults, outages, puts>>

(* __aexit__() returns, its exceptions suppressed: on a client that is     *)
(* still being opened it may have no effect.                               *)
Closed(c) ==
    {[state EXCEPT ![c] = "closed"]} \cup (IF state[c] = "opening" THEN {state} ELSE {})

CloseReturns(t) ==
    /\ pc[t] = "closing"
    /\ \E after \in Closed(held[t]) : AfterStop(t, after, connected)
    /\ UNCHANGED <<enabled, connected, restart, publishing, brokerUp, faults, outages, puts>>

OpenOk(t) ==
    /\ pc[t] = "opening"
    /\ brokerUp
    /\ state[held[t]] = "opening"
    /\ state' = [state EXCEPT ![held[t]] = "open"]
    /\ connected' = TRUE
    /\ held' = [held EXCEPT ![t] = NoClient]
    /\ LoopDone(t, TRUE)
    /\ UNCHANGED <<enabled, client, restart, publishing, brokerUp, faults, outages, puts>>

OpenFail(t) ==
    /\ pc[t] = "opening"
    /\ IF brokerUp /\ state[held[t]] = "opening" THEN Fault ELSE UNCHANGED faults
    /\ state' = [state EXCEPT ![held[t]] = "closed"]
    /\ connected' = FALSE
    /\ held' = [held EXCEPT ![t] = NoClient]
    /\ LoopDone(t, FALSE)
    /\ UNCHANGED <<enabled, client, restart, publishing, brokerUp, outages, puts>>

-----------------------------------------------------------------------------
(* The tasks.                                                              *)

(* lifespan(): cloud_sync.start().                                         *)
Boot ==
    /\ pc["boot"] = "created"
    /\ \/ enabled /\ StartOpens("boot", state)
       \/ ~enabled /\ StartSkipped("boot", state, FALSE)
    /\ UNCHANGED <<enabled, connected, restart, publishing, brokerUp, faults, outages, puts>>

(* PUT /system: the settings change at once, whether or not they can be    *)
(* saved; the retention policy is updated, which awaits InfluxDB, before   *)
(* stop().  The HTTP server takes requests once lifespan() has started     *)
(* everything.                                                             *)
PutBegin(p) ==
    /\ pc["boot"] = "none"
    /\ pc[p] = "none"
    /\ puts < MaxPuts
    /\ puts' = puts + 1
    /\ enabled' \in BOOLEAN
    /\ \/ /\ \E on \in BOOLEAN :
                /\ enabled' => on
                /\ restart' = [restart EXCEPT ![p] = on]
          /\ pc' = [pc EXCEPT ![p] = "retention"]
          /\ UNCHANGED faults
       \/ /\ Fault
          /\ UNCHANGED <<restart, pc>>
    /\ UNCHANGED <<connected, client, reconnecting, held, publishing, state,
                   brokerUp, outages>>

(* Mutant: without the test of the flag under the lock.                    *)
LoopBeginUnguarded(l) ==
    /\ pc[l] = "created"
    /\ pc' = [pc EXCEPT ![l] = "sleep"]
    /\ reconnecting' = TRUE
    /\ UNCHANGED <<enabled, connected, client, held, restart, publishing, state,
                   brokerUp, faults, outages, puts>>

(* The start of _reconnect_loop(): nothing is awaited under its lock.      *)
LoopBegin(l) ==
    /\ pc[l] = "created"
    /\ pc' = [pc EXCEPT ![l] = IF reconnecting THEN "none" ELSE "sleep"]
    /\ reconnecting' = TRUE
    /\ UNCHANGED <<enabled, connected, client, held, restart, publishing, state,
                   brokerUp, faults, outages, puts>>

(* send_reading() up to publish(); a reading that finds the service down,  *)
(* or that has no topic (_resolve_route), is dropped.                      *)
SendBegin(s) ==
    /\ publishing[s] = NoClient
    /\ enabled /\ connected /\ client # NoClient
    /\ publishing' = [publishing EXCEPT ![s] = client]
    /\ UNCHANGED <<enabled, connected, client, reconnecting, pc, held, restart,
                   state, brokerUp, faults, outages, puts>>

SendDropped(s) ==
    /\ publishing[s] = NoClient
    /\ UNCHANGED vars

PublishOk(s) ==
    /\ publishing[s] # NoClient
    /\ state[publishing[s]] = "open"
    /\ publishing' = [publishing EXCEPT ![s] = NoClient]
    /\ UNCHANGED <<enabled, connected, client, reconnecting, pc, held, restart,
                   state, brokerUp, faults, outages, puts>>

(* _trigger_reconnect()                                                    *)
TriggerReconnect ==
    \/ /\ ~reconnecting
       /\ \E l \in Loops : /\ pc[l] = "none"
                           /\ pc' = [pc EXCEPT ![l] = "created"]
    \/ /\ reconnecting
       /\ UNCHANGED pc

PublishFail(s) ==
    /\ publishing[s] # NoClient
    /\ IF state[publishing[s]] = "open" THEN Fault ELSE UNCHANGED faults
    /\ TriggerReconnect
    /\ publishing' = [publishing EXCEPT ![s] = NoClient]
    /\ UNCHANGED <<enabled, connected, client, reconnecting, held, restart,
                   state, brokerUp, outages, puts>>

-----------------------------------------------------------------------------
(* The broker.                                                             *)

BrokerDown ==
    /\ brokerUp
    /\ outages < MaxOutages
    /\ outages' = outages + 1
    /\ brokerUp' = FALSE
    /\ state' = [c \in Clients |-> IF state[c] = "open" THEN "lost" ELSE state[c]]
    /\ UNCHANGED <<enabled, connected, client, reconnecting, pc, held, restart,
                   publishing, faults, puts>>

BrokerBack ==
    /\ ~brokerUp
    /\ brokerUp' = TRUE
    /\ UNCHANGED <<enabled, connected, client, reconnecting, pc, held, restart,
                   publishing, state, faults, outages, puts>>

TaskStep(t) == Stop(t) \/ CloseReturns(t) \/ OpenOk(t) \/ OpenFail(t)
Send(s) == SendBegin(s) \/ SendDropped(s) \/ PublishOk(s) \/ PublishFail(s)

Next ==
    \/ Boot
    \/ \E t \in Tasks : TaskStep(t)
    \/ \E l \in Loops : LoopBegin(l)
    \/ \E p \in Puts : PutBegin(p)
    \/ \E s \in Senders : Send(s)
    \/ BrokerDown \/ BrokerBack

Spec == Init /\ [][Next]_vars

(* The event loop resumes every task whose await is over, every sleep and  *)
(* every connect ends (aiomqtt has a time-out of 10 s), and the drivers    *)
(* keep producing readings that have a topic.  Nothing is assumed of the   *)
(* broker.                                                                 *)
Fairness ==
    /\ WF_vars(Boot)
    /\ \A t \in Tasks : WF_vars(TaskStep(t))
    /\ \A l \in Loops : WF_vars(LoopBegin(l))
    /\ \A s \in Senders : WF_vars(Send(s))

LiveSpec == Spec /\ Fairness

-----------------------------------------------------------------------------
(* Properties.                                                             *)

(* The loops that are past their lock: each will stop and start the client. *)
Reconnecting == {l \in Loops : pc[l] \in {"sleep", "closing", "opening"}}

(* "Only one reconnect loop runs at a time" (cloud_sync.py:218), however   *)
(* many publishes fail at once; and the flag that ensures it is never left *)
(* behind, which would rule out every later reconnect.                     *)
SingleReconnect ==
    /\ \A l, m \in Reconnecting : l = m
    /\ reconnecting <=> Reconnecting # {}

(* No MQTT session outlives its use: until a request restarts the service, *)
(* a client that is open at the broker is the service's client, or a task  *)
(* is still closing or opening it ("Reconnection is serialized ... to      *)
(* prevent concurrent stop/start races", cloud_sync.py:34-36).             *)
NoOrphanSession ==
    puts = 0 =>
        \A c \in Clients : state[c] = "open" => c = client \/ \E t \in Tasks : held[t] = c

(* Until then, a service that says it is connected has a client that did   *)
(* connect.                                                                *)
ConnectedHasClient ==
    puts = 0 /\ connected => client # NoClient /\ state[client] \in {"open", "lost"}

Delivering == connected /\ client # NoClient /\ state[client] = "open"

StaysReachable == <>[](brokerUp /\ enabled)

(* Once a connection has existed, and unless a request restarts it, the    *)
(* service comes back from every outage and every failed publish without   *)
(* help: "an edge gateway must recover autonomously" (cloud_sync.py:217).  *)
Recovers == StaysReachable /\ [](puts = 0) /\ <>connected => []<>Delivering
=============================================================================

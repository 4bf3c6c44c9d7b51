---------------------------- MODULE MessageDriver ----------------------------
(***************************************************************************)
(* The message-driven drivers: MQTTDriver (backend/app/drivers/mqtt.py)    *)
(* and CANDriver (backend/app/drivers/canbus.py) under start() and stop()  *)
(* of BaseDriver (backend/app/drivers/base.py).                            *)
(*                                                                         *)
(* A driver has two tasks: the poll loop, which only connects again, and   *)
(* the loop that connect() creates, which takes messages off the session.  *)
(* The poll loop, and start() before it, is at one of                      *)
(*   down      the driver is stopped                                       *)
(*   opening   awaiting __aenter__(), subscribing  awaiting subscribe()    *)
(*   polling   asleep until the next look at _connected                    *)
(*   stopping  stop() has cancelled it and awaits the other loop's end     *)
(*   closing   stop() awaits the end of the session                        *)
(* A CAN driver connects in one step, without an await.  Overlapping       *)
(* start() and stop() of one driver are Orchestrator's subject.            *)
(***************************************************************************)
EXTENDS Naturals

CONSTANTS
    Mqtt,          \* MQTTDriver objects
    Can,           \* CANDriver objects
    MaxLeaks       \* bound: subscribe() fails while the session is up

Drivers == Mqtt \cup Can

ASSUME DriversAssumption == Mqtt \cap Can = {}

ASSUME LeaksAssumption == MaxLeaks \in Nat

VARIABLES
    up,            \* do the broker and the CAN bus work?
    pc,            \* where the poll loop, start() or stop() is
    starting,      \* is start() what connects?
    running,       \* BaseDriver._running
    connected,     \* BaseDriver._connected
    session,       \* the session of the object in _client, _bus
    loop,          \* the task _subscriber_task, _reader_task
    leaked,        \* open sessions that no variable of the driver names
    status         \* the last status it reported

flags == <<starting, running, connected>>
driverVars == <<up, pc, flags, session, loop, leaked, status>>

Networks == {"broker", "bus"}

Net(d) == IF d \in Can THEN "bus" ELSE "broker"

DriverTypeOK ==
    /\ up \in [Networks -> BOOLEAN]
    /\ pc \in [Drivers -> {"down", "opening", "subscribing", "polling", "stopping", "closing"}]
    /\ starting \in [Drivers -> BOOLEAN]
    /\ running \in [Drivers -> BOOLEAN]
    /\ connected \in [Drivers -> BOOLEAN]
    /\ session \in [Drivers -> {"none", "open", "lost"}]
    /\ loop \in [Drivers -> {"none", "waiting", "handling"}]
    /\ leaked \in [Drivers -> 0..MaxLeaks]
    /\ status \in [Drivers -> {"OFFLINE", "ONLINE", "ERROR"}]

DriverInit ==
    /\ up \in [Networks -> BOOLEAN]
    /\ pc = [d \in Drivers |-> "down"]
    /\ starting = [d \in Drivers |-> FALSE]
    /\ running = [d \in Drivers |-> FALSE]
    /\ connected = [d \in Drivers |-> FALSE]
    /\ session = [d \in Drivers |-> "none"]
    /\ loop = [d \in Drivers |-> "none"]
    /\ leaked = [d \in Drivers |-> 0]
    /\ status = [d \in Drivers |-> "OFFLINE"]

-----------------------------------------------------------------------------
(* connect(), called by start() and by the poll loop.                      *)

(* A new client takes the place of the old one: a session the old one has  *)
(* open goes on, and nobody can close it any more.                         *)
Forgets(d) ==
    /\ leaked' = [leaked EXCEPT ![d] = IF session[d] = "open" THEN @ + 1 ELSE @]
    /\ session' = [session EXCEPT ![d] = "none"]

(* connect() returned True: start() also reports ONLINE.                   *)
Succeeds(d) ==
    /\ connected' = [connected EXCEPT ![d] = TRUE]
    /\ status' = IF starting[d] THEN [status EXCEPT ![d] = "ONLINE"] ELSE status
    /\ loop' = [loop EXCEPT ![d] = "waiting"]

(* It raised: start() reports ERROR, the poll loop tries again later.      *)
Fails(d) ==
    /\ connected' = [connected EXCEPT ![d] = FALSE]
    /\ status' = IF starting[d] THEN [status EXCEPT ![d] = "ERROR"] ELSE status
    /\ UNCHANGED loop

Start(d) ==
    /\ pc[d] = "down"
    /\ pc' = [pc EXCEPT ![d] = "opening"]
    /\ running' = [running EXCEPT ![d] = TRUE]
    /\ starting' = [starting EXCEPT ![d] = TRUE]
    /\ Forgets(d)
    /\ UNCHANGED <<up, connected, loop, status>>

(* Mutant: it only connects when it has no session at all.                 *)
RetryWithout(d) ==
    /\ pc[d] = "polling"
    /\ ~connected[d]
    /\ session[d] = "none"
    /\ pc' = [pc EXCEPT ![d] = "opening"]
    /\ Forgets(d)
    /\ UNCHANGED <<up, flags, loop, status>>

(* The poll loop finds _connected False.                                   *)
Retry(d) ==
    /\ pc[d] = "polling"
    /\ ~connected[d]
    /\ pc' = [pc EXCEPT ![d] = "opening"]
    /\ Forgets(d)
    /\ UNCHANGED <<up, flags, loop, status>>

Returned(d) ==
    /\ pc' = [pc EXCEPT ![d] = "polling"]
    /\ starting' = [starting EXCEPT ![d] = FALSE]
    /\ UNCHANGED <<up, running, leaked>>

(* The MQTT session is established; the CAN bus is open and that is all.   *)
Opens(d) ==
    /\ pc[d] = "opening"
    /\ up[Net(d)]
    /\ session' = [session EXCEPT ![d] = "open"]
    /\ IF d \in Mqtt
       THEN /\ pc' = [pc EXCEPT ![d] = "subscribing"]
            /\ UNCHANGED <<up, flags, loop, leaked, status>>
       ELSE Succeeds(d) /\ Returned(d)

Subscribed(d) ==
    /\ pc[d] = "subscribing"
    /\ session[d] = "open"
    /\ Succeeds(d)
    /\ Returned(d)
    /\ UNCHANGED session

(* Opening can always time out; a subscription can time out, and does when *)
(* the session is lost.  What is open stays open (mqtt.py:75-77).          *)
ConnectFails(d) ==
    /\ pc[d] \in {"opening", "subscribing"}
    /\ session[d] = "open" => leaked[d] < MaxLeaks
    /\ Fails(d)
    /\ Returned(d)
    /\ UNCHANGED session

-----------------------------------------------------------------------------
(* _message_loop(), _read_loop().                                          *)

Listening(d) == loop[d] = "waiting" /\ session[d] = "open"

Message(d) ==
    /\ Listening(d)
    /\ loop' = [loop EXCEPT ![d] = "handling"]
    /\ UNCHANGED <<up, pc, flags, session, leaked, status>>

(* The callbacks of the value have returned.                               *)
Handled(d) ==
    /\ loop[d] = "handling"
    /\ loop' = [loop EXCEPT ![d] = "waiting"]
    /\ status' = [status EXCEPT ![d] = "ONLINE"]
    /\ UNCHANGED <<up, pc, flags, session, leaked>>

(* Mutant: the exception of a message ends the loop of MQTT too.           *)
HandlingRaisesOut(d) ==
    /\ loop[d] = "handling"
    /\ loop' = [loop EXCEPT ![d] = "none"]
    /\ UNCHANGED <<up, pc, flags, session, leaked, status>>

(* The message or a callback raised: the loop of MQTT goes on with the     *)
(* next message (l.121), that of CAN ends (l.152).                         *)
HandlingRaises(d) ==
    /\ loop[d] = "handling"
    /\ loop' = [loop EXCEPT ![d] = IF d \in Mqtt THEN "waiting" ELSE "none"]
    /\ UNCHANGED <<up, pc, flags, session, leaked, status>>

(* The session is gone: the iterator, or recv(), raises, which is logged.  *)
LoopEnds(d) ==
    /\ loop[d] = "waiting"
    /\ session[d] = "lost"
    /\ loop' = [loop EXCEPT ![d] = "none"]
    /\ UNCHANGED <<up, pc, flags, session, leaked, status>>

-----------------------------------------------------------------------------
(* stop(): cancel the poll loop, then disconnect().                        *)

Stop(d) ==
    /\ pc[d] = "polling" \/ (pc[d] \in {"opening", "subscribing"} /\ ~starting[d])
    /\ pc' = [pc EXCEPT ![d] = "stopping"]
    /\ running' = [running EXCEPT ![d] = FALSE]
    /\ UNCHANGED <<up, starting, connected, session, loop, leaked, status>>

(* Mutant: the other loop is cancelled, and its end not awaited.           *)
SilencedLater(d) ==
    /\ pc[d] = "stopping"
    /\ pc' = [pc EXCEPT ![d] = "closing"]
    /\ UNCHANGED <<up, flags, session, loop, leaked, status>>

(* The other loop is cancelled wherever it is, and has ended.              *)
Silenced(d) ==
    /\ pc[d] = "stopping"
    /\ pc' = [pc EXCEPT ![d] = "closing"]
    /\ loop' = [loop EXCEPT ![d] = "none"]
    /\ UNCHANGED <<up, flags, session, leaked, status>>

(* __aexit__() or shutdown() has returned, or its exception is suppressed. *)
Stopped(d) ==
    /\ pc[d] = "closing"
    /\ pc' = [pc EXCEPT ![d] = "down"]
    /\ session' = [session EXCEPT ![d] = "none"]
    /\ connected' = [connected EXCEPT ![d] = FALSE]
    /\ status' = [status EXCEPT ![d] = "OFFLINE"]
    /\ UNCHANGED <<up, starting, running, loop, leaked>>

-----------------------------------------------------------------------------
(* The world outside.                                                      *)

Lost(n) == [d \in Drivers |-> IF Net(d) = n /\ session[d] = "open" THEN "lost" ELSE session[d]]

NetworkDown(n) ==
    /\ up[n]
    /\ up' = [up EXCEPT ![n] = FALSE]
    /\ session' = Lost(n)
    /\ leaked' = [d \in Drivers |-> IF Net(d) = n THEN 0 ELSE leaked[d]]
    /\ UNCHANGED <<pc, flags, loop, status>>

NetworkUp(n) ==
    /\ ~up[n]
    /\ up' = [up EXCEPT ![n] = TRUE]
    /\ UNCHANGED <<pc, flags, session, loop, leaked, status>>

Connecting(d) == Opens(d) \/ Subscribed(d) \/ ConnectFails(d)

Handling(d) == Handled(d) \/ HandlingRaises(d)

Stopping(d) == Silenced(d) \/ Stopped(d)

DriverNext(d) ==
    \/ Start(d) \/ Retry(d) \/ Connecting(d)
    \/ Message(d) \/ Handling(d) \/ LoopEnds(d)
    \/ Stop(d) \/ Stopping(d)

(* asyncio runs every loop; a connect ends, with an exception at the       *)
(* latest, and does not fail for ever while the network is up; so does     *)
(* what is done with a message.                                            *)
DriverFairness(d) ==
    /\ WF_driverVars(Retry(d))
    /\ WF_driverVars(Connecting(d))
    /\ SF_driverVars(Opens(d))
    /\ SF_driverVars(Subscribed(d))
    /\ WF_driverVars(Handling(d))
    /\ WF_driverVars(LoopEnds(d))
    /\ WF_driverVars(Stopping(d))

-----------------------------------------------------------------------------
(* Properties.                                                             *)

(* A driver that is stopped hears nothing, holds no session that it knows  *)
(* of and is reported OFFLINE, wherever stop() came: in a connect of the   *)
(* poll loop, in the handling of a message, after the session was lost.    *)
StoppedIsSilent ==
    \A d \in Drivers : pc[d] = "down" =>
        loop[d] = "none" /\ session[d] = "none" /\ ~connected[d] /\ status[d] = "OFFLINE"

(* The driver passes for connected, and no loop takes its messages.  The   *)
(* poll loop tries again only when _connected is False, and nothing makes  *)
(* it so: the sensor stays ONLINE and silent until somebody restarts it.   *)
Deaf(d) == pc[d] = "polling" /\ connected[d] /\ loop[d] = "none"

(* That happens to an MQTT driver for one reason only, that the session    *)
(* was lost; not after a failed or a cancelled connect, a restart or a     *)
(* message that could not be handled.                                      *)
DeafOnlyIfLost == \A d \in Mqtt : Deaf(d) => session[d] = "lost"

(* A driver that is left running, and is not deaf, gets to listen and goes *)
(* on listening once its network stays up: failed connects and failed      *)
(* subscriptions are tried again ("Attempting reconnection").              *)
Hears ==
    \A d \in Drivers :
        <>[](up[Net(d)] /\ running[d] /\ ~Deaf(d)) => <>[](loop[d] # "none" /\ session[d] = "open")
=============================================================================

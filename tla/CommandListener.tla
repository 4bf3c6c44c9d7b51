-------------------------- MODULE CommandListener --------------------------
(***************************************************************************)
(* CommandListener of backend/app/services/command_listener.py, and the    *)
(* drivers it writes to (MessageDriver), on the same broker.               *)
(*                                                                         *)
(* Its loop opens a session, subscribes and handles one command after the  *)
(* other, each to the end of the driver's write().  Whatever is raised     *)
(* closes the session (async with), and the loop starts over after 5 s.    *)
(***************************************************************************)
EXTENDS MessageDriver

VARIABLES
    at,            \* where _listen_loop() is, "off" when there is none
    link           \* the session of the client in the async with

listenerVars == <<at, link>>
vars == <<driverVars, listenerVars>>

TypeOK ==
    /\ DriverTypeOK
    /\ at \in {"off", "opening", "subscribing", "listening", "writing", "sleeping"}
    /\ link \in {"none", "open", "lost"}

Init ==
    /\ DriverInit
    /\ at = "off"
    /\ link = "none"

-----------------------------------------------------------------------------
ListenerStart ==
    /\ at = "off"
    /\ at' = "opening"
    /\ UNCHANGED <<driverVars, link>>

ListenerOpens ==
    /\ at = "opening"
    /\ up["broker"]
    /\ at' = "subscribing"
    /\ link' = "open"
    /\ UNCHANGED driverVars

ListenerSubscribed ==
    /\ at = "subscribing"
    /\ link = "open"
    /\ at' = "listening"
    /\ UNCHANGED <<driverVars, link>>

(* A command for a driver that publishes it: write_sensor() tests that the *)
(* driver runs, write() that it has a client.  Other commands change       *)
(* nothing: no value, no such sensor, a driver that is stopped or that     *)
(* cannot write, whose exception is logged.                                *)
Command ==
    /\ at = "listening"
    /\ link = "open"
    /\ \E d \in Mqtt : running[d] /\ session[d] # "none"
    /\ at' = "writing"
    /\ UNCHANGED <<driverVars, link>>

(* publish() has returned or raised; write() says which, and the listener  *)
(* logs it.                                                                *)
CommandDone ==
    /\ at = "writing"
    /\ at' = "listening"
    /\ UNCHANGED <<driverVars, link>>

(* Mutant: a session that is gone just yields no more messages.            *)
ListenerFailsEarly ==
    /\ at \in {"opening", "subscribing"}
    /\ at' = "sleeping"
    /\ link' = "none"
    /\ UNCHANGED driverVars

(* An exception leaves the async with, in connecting, in subscribing or    *)
(* because the session is gone, and the loop sleeps.                       *)
ListenerFails ==
    /\ \/ at \in {"opening", "subscribing"}
       \/ at = "listening" /\ link = "lost"
    /\ at' = "sleeping"
    /\ link' = "none"
    /\ UNCHANGED driverVars

ListenerWakes ==
    /\ at = "sleeping"
    /\ at' = "opening"
    /\ UNCHANGED <<driverVars, link>>

(* stop() cancels the task wherever it is and awaits its end.              *)
ListenerStop ==
    /\ at # "off"
    /\ at' = "off"
    /\ link' = "none"
    /\ UNCHANGED driverVars

-----------------------------------------------------------------------------
Listener ==
    \/ ListenerStart \/ ListenerOpens \/ ListenerSubscribed
    \/ Command \/ CommandDone
    \/ ListenerFails \/ ListenerWakes \/ ListenerStop

(* The broker goes away for the listener and for every MQTT driver.        *)
Outage(n) ==
    /\ NetworkDown(n)
    /\ link' = IF n = "broker" /\ link = "open" THEN "lost" ELSE link
    /\ UNCHANGED at

Next ==
    \/ \E d \in Drivers : DriverNext(d) /\ UNCHANGED listenerVars
    \/ \E n \in Networks : Outage(n) \/ (NetworkUp(n) /\ UNCHANGED listenerVars)
    \/ Listener

Spec == Init /\ [][Next]_vars

ListenerFairness ==
    /\ WF_vars(ListenerOpens \/ ListenerSubscribed \/ ListenerFails)
    /\ SF_vars(ListenerOpens)
    /\ SF_vars(ListenerSubscribed)
    /\ WF_vars(CommandDone)
    /\ WF_vars(ListenerWakes)

LiveSpec ==
    /\ Spec
    /\ \A d \in Drivers : DriverFairness(d)
    /\ ListenerFairness

-----------------------------------------------------------------------------
(* Properties.                                                             *)

(* The listener is there again after every outage of the broker: once the  *)
(* broker stays up and nobody stops the listener, it goes on listening,    *)
(* whatever command it was about when the session was lost.  MQTT drivers  *)
(* on the same broker do not come back (Deaf).                             *)
CommandsResume ==
    <>[](up["broker"] /\ at # "off") => <>[](link = "open" /\ at \in {"listening", "writing"})
=============================================================================

------------------------ MODULE CommandListenerProofs ------------------------
(***************************************************************************)
(* What CommandListener and the drivers of MessageDriver guarantee for any *)
(* number of drivers: a driver that is stopped is silent, and an MQTT      *)
(* driver goes deaf for one reason only.                                   *)
(***************************************************************************)
EXTENDS CommandListener, TLAPS

(* When stop() closes the session, the other loop has ended.               *)
ClosingIsSilent == \A d \in Drivers : pc[d] = "closing" => loop[d] = "none"

(* A session that a failed subscribe() left open is not counted yet.       *)
LeakHasRoom ==
    \A d \in Drivers :
        pc[d] = "polling" /\ ~connected[d] /\ session[d] = "open" => leaked[d] < MaxLeaks

Inv == TypeOK /\ ClosingIsSilent /\ LeakHasRoom /\ StoppedIsSilent /\ DeafOnlyIfLost

LEMMA Constant == Mqtt \cap Can = {} /\ MaxLeaks \in Nat
BY DriversAssumption, LeaksAssumption

LEMMA InvInit == Init => Inv
<1> SUFFICES ASSUME Init PROVE Inv
    OBVIOUS
<1>1. TypeOK
      BY Constant DEF Init, DriverInit, TypeOK, DriverTypeOK
<1>2. ClosingIsSilent /\ LeakHasRoom /\ StoppedIsSilent /\ DeafOnlyIfLost
      BY DEF Init, DriverInit, ClosingIsSilent, LeakHasRoom, StoppedIsSilent, DeafOnlyIfLost, Deaf,
         Drivers
<1>3. QED  BY <1>1, <1>2 DEF Inv

(* A step of one driver.                                                   *)
LEMMA DriverStep ==
    ASSUME Inv, NEW d \in Drivers, DriverNext(d), UNCHANGED listenerVars
    PROVE  Inv'
<1> USE Constant DEF Inv, TypeOK, DriverTypeOK, ClosingIsSilent, LeakHasRoom, StoppedIsSilent,
        DeafOnlyIfLost, Deaf, Drivers, flags, driverVars, listenerVars
<1>1. CASE Start(d)
      BY <1>1 DEF Start, Forgets
<1>2. CASE Retry(d)
      BY <1>2 DEF Retry, Forgets
<1>3. CASE Opens(d)
  <2>1. CASE d \in Mqtt
        BY <1>3, <2>1 DEF Opens
  <2>2. CASE d \notin Mqtt
    <3>1. /\ session' = [session EXCEPT ![d] = "open"]
          /\ connected' = [connected EXCEPT ![d] = TRUE]
          /\ loop' = [loop EXCEPT ![d] = "waiting"]
          /\ pc' = [pc EXCEPT ![d] = "polling"]
          /\ starting' = [starting EXCEPT ![d] = FALSE]
          /\ UNCHANGED <<up, running, leaked, at, link>>
          BY <1>3, <2>2 DEF Opens, Succeeds, Returned
    <3>2. /\ status' \in [Drivers -> {"OFFLINE", "ONLINE", "ERROR"}]
          /\ \A x \in Drivers : x # d => status'[x] = status[x]
          BY <1>3, <2>2 DEF Opens, Succeeds
    <3>3. TypeOK'
          BY <3>1, <3>2
    <3>4. ClosingIsSilent' /\ LeakHasRoom' /\ StoppedIsSilent'
          BY <3>1, <3>2
    <3>5. DeafOnlyIfLost'
          BY <3>1
    <3>6. QED  BY <3>3, <3>4, <3>5
  <2>3. QED  BY <2>1, <2>2
<1>4. CASE Subscribed(d)
      BY <1>4 DEF Subscribed, Succeeds, Returned
<1>5. CASE ConnectFails(d)
      BY <1>5 DEF ConnectFails, Fails, Returned
<1>6. CASE Message(d)
      BY <1>6 DEF Message, Listening
<1>7. CASE Handled(d)
      BY <1>7 DEF Handled
<1>8. CASE HandlingRaises(d)
      BY <1>8 DEF HandlingRaises
<1>9. CASE LoopEnds(d)
      BY <1>9 DEF LoopEnds
<1>10. CASE Stop(d)
      BY <1>10 DEF Stop
<1>11. CASE Silenced(d)
      BY <1>11 DEF Silenced
<1>12. CASE Stopped(d)
      BY <1>12 DEF Stopped
<1>13. QED
  BY <1>1, <1>2, <1>3, <1>4, <1>5, <1>6, <1>7, <1>8, <1>9, <1>10, <1>11, <1>12
     DEF DriverNext, Connecting, Handling, Stopping

(* A network goes away, for the drivers and for the listener, or is back.  *)
LEMMA NetworkStep ==
    ASSUME Inv, NEW n \in Networks, Outage(n) \/ (NetworkUp(n) /\ UNCHANGED listenerVars)
    PROVE  Inv'
<1> USE Constant DEF Inv, TypeOK, DriverTypeOK, ClosingIsSilent, LeakHasRoom, StoppedIsSilent,
        DeafOnlyIfLost, Deaf, Drivers, flags, listenerVars
<1>1. CASE Outage(n)
      BY <1>1 DEF Outage, NetworkDown, Lost
<1>2. CASE NetworkUp(n) /\ UNCHANGED listenerVars
      BY <1>2 DEF NetworkUp
<1>3. QED  BY <1>1, <1>2

(* A step of the listener leaves the drivers alone.                        *)
LEMMA ListenerStep == ASSUME Inv, Listener PROVE Inv'
<1>1. UNCHANGED driverVars
      BY DEF Listener, ListenerStart, ListenerOpens, ListenerSubscribed, Command, CommandDone,
         ListenerFails, ListenerWakes, ListenerStop
<1>2. /\ at' \in {"off", "opening", "subscribing", "listening", "writing", "sleeping"}
      /\ link' \in {"none", "open", "lost"}
      BY DEF Inv, TypeOK, Listener, ListenerStart, ListenerOpens, ListenerSubscribed, Command,
         CommandDone, ListenerFails, ListenerWakes, ListenerStop
<1>3. QED
  BY <1>1, <1>2 DEF driverVars, flags, Inv, TypeOK, DriverTypeOK, ClosingIsSilent, LeakHasRoom,
     StoppedIsSilent, DeafOnlyIfLost, Deaf

LEMMA InvNext == Inv /\ [Next]_vars => Inv'
<1> SUFFICES ASSUME Inv, [Next]_vars PROVE Inv'
    OBVIOUS
<1>1. CASE UNCHANGED vars
      BY <1>1 DEF vars, listenerVars, driverVars, flags, Inv, TypeOK, DriverTypeOK, ClosingIsSilent,
         LeakHasRoom, StoppedIsSilent, DeafOnlyIfLost, Deaf
<1>2. QED  BY <1>1, DriverStep, NetworkStep, ListenerStep DEF Next

LEMMA Invariant == Spec => []Inv
BY InvInit, InvNext, PTL DEF Spec

-----------------------------------------------------------------------------
(* The theorems.                                                           *)

(* Every variable keeps its type; in particular no more sessions are left  *)
(* open than subscriptions failed on one.                                  *)
THEOREM TypeCorrect == Spec => []TypeOK
<1>1. Inv => TypeOK
      BY DEF Inv
<1>2. QED  BY <1>1, Invariant, PTL

(* Wherever stop() came, a driver that is stopped hears nothing, holds no  *)
(* session it knows of and is reported OFFLINE.                            *)
THEOREM Silence == Spec => []StoppedIsSilent
<1>1. Inv => StoppedIsSilent
      BY DEF Inv
<1>2. QED  BY <1>1, Invariant, PTL

(* An MQTT driver passes for connected while nothing takes its messages    *)
(* only if its session was lost.                                           *)
THEOREM Deafness == Spec => []DeafOnlyIfLost
<1>1. Inv => DeafOnlyIfLost
      BY DEF Inv
<1>2. QED  BY <1>1, Invariant, PTL
=============================================================================

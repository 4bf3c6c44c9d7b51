--------------------------- MODULE CloudSyncProofs ---------------------------
(***************************************************************************)
(* What CloudSync guarantees for any number of senders, requests, reconnect *)
(* tasks and clients, and any number of faults and outages.                *)
(***************************************************************************)
EXTENDS CloudSync, TLAPS

Active(t) == pc[t] \in {"sleep", "closing", "opening"}

-----------------------------------------------------------------------------
(* Type correctness.                                                       *)

LEMMA StartOpensType ==
    ASSUME TypeOK, NEW t \in Tasks, NEW after \in [Clients -> {"unused", "opening", "open", "lost", "closed"}],
           StartOpens(t, after)
    PROVE  /\ client' \in Clients
           /\ pc' \in [Tasks -> {"none", "created", "sleep", "retention", "closing", "opening"}]
           /\ held' \in [Tasks -> Clients \cup {NoClient}]
           /\ state' \in [Clients -> {"unused", "opening", "open", "lost", "closed"}]
           /\ reconnecting' \in BOOLEAN
BY DEF StartOpens, TypeOK

LEMMA LoopDoneType ==
    ASSUME TypeOK, NEW t \in Tasks, NEW c, LoopDone(t, c)
    PROVE  /\ pc' \in [Tasks -> {"none", "created", "sleep", "retention", "closing", "opening"}]
           /\ reconnecting' \in BOOLEAN
BY DEF LoopDone, TypeOK

LEMMA AfterStopType ==
    ASSUME TypeOK, NEW t \in Tasks, NEW after \in [Clients -> {"unused", "opening", "open", "lost", "closed"}],
           NEW c, AfterStop(t, after, c)
    PROVE  /\ client' \in Clients \cup {NoClient}
           /\ pc' \in [Tasks -> {"none", "created", "sleep", "retention", "closing", "opening"}]
           /\ held' \in [Tasks -> Clients \cup {NoClient}]
           /\ state' \in [Clients -> {"unused", "opening", "open", "lost", "closed"}]
           /\ reconnecting' \in BOOLEAN
<1>1. CASE StartOpens(t, after)
      BY <1>1, StartOpensType
<1>2. CASE StartSkipped(t, after, c)
  <2>1. /\ client' = NoClient /\ state' = after
        /\ held' = [held EXCEPT ![t] = NoClient]
        /\ LoopDone(t, c)
        BY <1>2 DEF StartSkipped
  <2>2. QED  BY <2>1, LoopDoneType DEF TypeOK
<1>3. QED  BY <1>1, <1>2 DEF AfterStop

LEMMA ClosedType ==
    ASSUME TypeOK, NEW c, NEW after \in Closed(c)
    PROVE  after \in [Clients -> {"unused", "opening", "open", "lost", "closed"}]
<1>1. after = [state EXCEPT ![c] = "closed"] \/ after = state
      BY DEF Closed
<1>2. CASE after = state
      BY <1>2 DEF TypeOK
<1>3. CASE after = [state EXCEPT ![c] = "closed"]
      BY <1>3 DEF TypeOK
<1>4. QED  BY <1>1, <1>2, <1>3

LEMMA TypeInit == Init => TypeOK
<1> SUFFICES ASSUME Init PROVE TypeOK
    OBVIOUS
<1>1. pc \in [Tasks -> {"none", "created", "sleep", "retention", "closing", "opening"}]
      BY DEF Init
<1>2. state \in [Clients -> {"unused", "opening", "open", "lost", "closed"}]
      BY DEF Init
<1>3. held \in [Tasks -> Clients \cup {NoClient}]
      BY DEF Init
<1>4. publishing \in [Senders -> Clients \cup {NoClient}]
      BY DEF Init
<1>5. restart \in [Puts -> BOOLEAN]
      BY DEF Init
<1>6. faults \in Nat /\ outages \in Nat /\ puts \in Nat
      BY DEF Init
<1>7. enabled \in BOOLEAN /\ connected \in BOOLEAN /\ reconnecting \in BOOLEAN
      /\ client \in Clients \cup {NoClient} /\ brokerUp \in BOOLEAN
      BY DEF Init
<1>8. QED  BY <1>1, <1>2, <1>3, <1>4, <1>5, <1>6, <1>7 DEF TypeOK

LEMMA TypeNext == TypeOK /\ [Next]_vars => TypeOK'
<1> SUFFICES ASSUME TypeOK, [Next]_vars PROVE TypeOK'
    OBVIOUS
<1>1. ASSUME Boot PROVE TypeOK'
  <2>1. "boot" \in Tasks /\ state \in [Clients -> {"unused", "opening", "open", "lost", "closed"}]
        BY DEF Tasks, TypeOK
  <2>2. CASE StartOpens("boot", state)
        BY <1>1, <2>1, <2>2, StartOpensType DEF Boot, TypeOK
  <2>3. CASE StartSkipped("boot", state, FALSE)
    <3>1. /\ client' = NoClient /\ state' = state
          /\ held' = [held EXCEPT !["boot"] = NoClient]
          /\ LoopDone("boot", FALSE)
          BY <2>3 DEF StartSkipped
    <3>2. QED  BY <1>1, <2>1, <3>1, LoopDoneType DEF Boot, TypeOK
  <2>4. QED  BY <1>1, <2>2, <2>3 DEF Boot
<1>2. ASSUME NEW t \in Tasks, Stop(t) PROVE TypeOK'
  <2>1. state \in [Clients -> {"unused", "opening", "open", "lost", "closed"}]
        BY DEF TypeOK
  <2>2. CASE AfterStop(t, state, FALSE)
        BY <1>2, <2>1, <2>2, AfterStopType DEF Stop, TypeOK
  <2>3. CASE /\ held' = [held EXCEPT ![t] = client]
             /\ pc' = [pc EXCEPT ![t] = "closing"]
             /\ UNCHANGED <<client, reconnecting, state>>
        BY <1>2, <2>3 DEF Stop, TypeOK
  <2>4. QED  BY <1>2, <2>2, <2>3 DEF Stop
<1>3. ASSUME NEW t \in Tasks, CloseReturns(t) PROVE TypeOK'
  <2>1. PICK after \in Closed(held[t]) : AfterStop(t, after, connected)
        BY <1>3 DEF CloseReturns
  <2>2. after \in [Clients -> {"unused", "opening", "open", "lost", "closed"}]
        BY ClosedType
  <2>3. QED  BY <1>3, <2>1, <2>2, AfterStopType DEF CloseReturns, TypeOK
<1>4. ASSUME NEW t \in Tasks, OpenOk(t) PROVE TypeOK'
  <2>1. LoopDone(t, TRUE)
        BY <1>4 DEF OpenOk
  <2>2. state' \in [Clients -> {"unused", "opening", "open", "lost", "closed"}]
        BY <1>4 DEF OpenOk, TypeOK
  <2>3. QED  BY <1>4, <2>1, <2>2, LoopDoneType DEF OpenOk, TypeOK
<1>5. ASSUME NEW t \in Tasks, OpenFail(t) PROVE TypeOK'
  <2>1. LoopDone(t, FALSE)
        BY <1>5 DEF OpenFail
  <2>2. state' \in [Clients -> {"unused", "opening", "open", "lost", "closed"}]
        BY <1>5 DEF OpenFail, TypeOK
  <2>3. Fault \/ UNCHANGED faults
        BY <1>5 DEF OpenFail
  <2>4. faults' \in Nat
        BY <2>3 DEF Fault, TypeOK
  <2>5. QED  BY <1>5, <2>1, <2>2, <2>4, LoopDoneType DEF OpenFail, TypeOK
<1>6. ASSUME NEW p \in Puts, PutBegin(p) PROVE TypeOK'
  <2>1. puts' \in Nat
        BY <1>6 DEF PutBegin, TypeOK
  <2>2. Fault \/ UNCHANGED faults
        BY <1>6 DEF PutBegin
  <2>3. faults' \in Nat
        BY <2>2 DEF Fault, TypeOK
  <2>4. /\ restart' \in [Puts -> BOOLEAN]
        /\ pc' \in [Tasks -> {"none", "created", "sleep", "retention", "closing", "opening"}]
        BY <1>6 DEF PutBegin, TypeOK
  <2>5. enabled' \in BOOLEAN
        BY <1>6 DEF PutBegin
  <2>6. UNCHANGED <<connected, client, reconnecting, held, publishing, state, brokerUp, outages>>
        BY <1>6 DEF PutBegin
  <2>7. QED  BY <2>1, <2>3, <2>4, <2>5, <2>6 DEF TypeOK
<1>7. ASSUME NEW l \in Loops, LoopBegin(l) PROVE TypeOK'
      BY <1>7 DEF LoopBegin, TypeOK
<1>8. ASSUME NEW s \in Senders, SendBegin(s) \/ PublishOk(s) PROVE TypeOK'
      BY <1>8 DEF SendBegin, PublishOk, TypeOK
<1>9. ASSUME NEW s \in Senders, PublishFail(s) PROVE TypeOK'
  <2>1. Fault \/ UNCHANGED faults
        BY <1>9 DEF PublishFail
  <2>2. faults' \in Nat
        BY <2>1 DEF Fault, TypeOK
  <2>3. pc' \in [Tasks -> {"none", "created", "sleep", "retention", "closing", "opening"}]
        BY <1>9 DEF PublishFail, TriggerReconnect, TypeOK
  <2>4. QED  BY <1>9, <2>2, <2>3 DEF PublishFail, TypeOK
<1>10. ASSUME BrokerDown \/ BrokerBack PROVE TypeOK'
  <2>1. outages' \in Nat
        BY <1>10 DEF BrokerDown, BrokerBack, TypeOK
  <2>2. state' \in [Clients -> {"unused", "opening", "open", "lost", "closed"}]
        BY <1>10 DEF BrokerDown, BrokerBack, TypeOK
  <2>3. brokerUp' \in BOOLEAN
        BY <1>10 DEF BrokerDown, BrokerBack
  <2>4. UNCHANGED <<enabled, connected, client, reconnecting, pc, held, restart,
                    publishing, faults, puts>>
        BY <1>10 DEF BrokerDown, BrokerBack
  <2>5. QED  BY <2>1, <2>2, <2>3, <2>4 DEF TypeOK
<1>11. ASSUME UNCHANGED vars PROVE TypeOK'
       BY <1>11 DEF vars, TypeOK
<1>12. QED
  BY <1>1, <1>2, <1>3, <1>4, <1>5, <1>6, <1>7, <1>8, <1>9, <1>10, <1>11
     DEF Next, TaskStep, Send, SendDropped

(* Every value a variable takes is of its type, for all constants.         *)
THEOREM TypeCorrect == Spec => []TypeOK
BY TypeInit, TypeNext, PTL DEF Spec

-----------------------------------------------------------------------------
(* One reconnect loop at a time.                                           *)

(* A task other than a loop does not touch the loops or their flag.        *)
LEMMA OtherTaskSingle ==
    ASSUME TypeOK, SingleReconnect, NEW t \in Tasks \ Loops, NEW v,
           pc' = [pc EXCEPT ![t] = v], UNCHANGED reconnecting
    PROVE  SingleReconnect'
<1>1. \A l \in Loops : pc'[l] = pc[l]
      BY DEF TypeOK
<1>2. Reconnecting' = Reconnecting
      BY <1>1 DEF Reconnecting
<1>3. QED  BY <1>2 DEF SingleReconnect

(* Nor does a loop that stays between its lock and its end.                *)
LEMMA StaysSingle ==
    ASSUME TypeOK, SingleReconnect, NEW l \in Loops, Active(l),
           NEW v \in {"sleep", "closing", "opening"},
           pc' = [pc EXCEPT ![l] = v], UNCHANGED reconnecting
    PROVE  SingleReconnect'
<1>1. l \in Tasks
      BY DEF Tasks
<1>2. Reconnecting' = Reconnecting
      BY <1>1 DEF Reconnecting, Active, TypeOK
<1>3. QED  BY <1>2 DEF SingleReconnect

(* The loop that ends is the only one, and takes the flag with it.         *)
LEMMA EndsSingle ==
    ASSUME TypeOK, SingleReconnect, NEW l \in Loops, Active(l),
           pc' = [pc EXCEPT ![l] = "none"], reconnecting' = FALSE
    PROVE  SingleReconnect'
<1>1. l \in Reconnecting
      BY DEF Reconnecting, Active
<1>2. Reconnecting = {l}
      BY <1>1 DEF SingleReconnect
<1>3. l \in Tasks
      BY DEF Tasks
<1>4. Reconnecting' = {}
      BY <1>2, <1>3 DEF Reconnecting, TypeOK
<1>5. QED  BY <1>4 DEF SingleReconnect

LEMMA LoopDoneSingle ==
    ASSUME TypeOK, SingleReconnect, NEW t \in Tasks, t \in Loops => Active(t),
           NEW c \in BOOLEAN, LoopDone(t, c)
    PROVE  SingleReconnect'
<1>0. /\ pc' = [pc EXCEPT ![t] = IF t \in Loops /\ ~c THEN "sleep" ELSE "none"]
      /\ reconnecting' = (reconnecting /\ ~(t \in Loops /\ c))
      BY DEF LoopDone
<1>1. CASE t \notin Loops
  <2>1. pc' = [pc EXCEPT ![t] = "none"] /\ UNCHANGED reconnecting
        BY <1>0, <1>1 DEF TypeOK
  <2>2. QED  BY <1>1, <2>1, OtherTaskSingle
<1>2. CASE t \in Loops /\ c
  <2>1. pc' = [pc EXCEPT ![t] = "none"] /\ reconnecting' = FALSE
        BY <1>0, <1>2
  <2>2. QED  BY <1>2, <2>1, EndsSingle
<1>3. CASE t \in Loops /\ ~c
  <2>1. pc' = [pc EXCEPT ![t] = "sleep"] /\ UNCHANGED reconnecting
        BY <1>0, <1>3 DEF TypeOK
  <2>2. QED  BY <1>3, <2>1, StaysSingle
<1>4. QED  BY <1>1, <1>2, <1>3

LEMMA StartOpensSingle ==
    ASSUME TypeOK, SingleReconnect, NEW t \in Tasks, t \in Loops => Active(t),
           NEW after, StartOpens(t, after)
    PROVE  SingleReconnect'
<1>1. pc' = [pc EXCEPT ![t] = "opening"] /\ UNCHANGED reconnecting
      BY DEF StartOpens
<1>2. QED  BY <1>1, OtherTaskSingle, StaysSingle

LEMMA AfterStopSingle ==
    ASSUME TypeOK, SingleReconnect, NEW t \in Tasks, t \in Loops => Active(t),
           NEW after, NEW c \in BOOLEAN, AfterStop(t, after, c)
    PROVE  SingleReconnect'
<1>1. StartOpens(t, after) \/ LoopDone(t, c)
      BY DEF AfterStop, StartSkipped
<1>2. QED  BY <1>1, StartOpensSingle, LoopDoneSingle

LEMMA SingleInit == Init => SingleReconnect
<1> SUFFICES ASSUME Init PROVE SingleReconnect
    OBVIOUS
<1>1. \A l \in Loops : pc[l] = "none"
      BY TasksAssumption DEF Init, Tasks
<1>2. Reconnecting = {}
      BY <1>1 DEF Reconnecting
<1>3. QED  BY <1>2 DEF Init, SingleReconnect

LEMMA SingleNext == TypeOK /\ SingleReconnect /\ [Next]_vars => SingleReconnect'
<1> SUFFICES ASSUME TypeOK, SingleReconnect, [Next]_vars PROVE SingleReconnect'
    OBVIOUS
<1>0. "boot" \in Tasks \ Loops /\ Puts \subseteq Tasks \ Loops /\ Loops \subseteq Tasks
      BY TasksAssumption DEF Tasks
<1>1. ASSUME Boot PROVE SingleReconnect'
  <2>1. StartOpens("boot", state) \/ LoopDone("boot", FALSE)
        BY <1>1 DEF Boot, StartSkipped
  <2>2. QED  BY <1>0, <2>1, StartOpensSingle, LoopDoneSingle
<1>2. ASSUME NEW t \in Tasks, Stop(t) PROVE SingleReconnect'
  <2>1. t \in Loops => Active(t)
        BY <1>2, TasksAssumption DEF Stop, StopBegins, Active
  <2>2. CASE AfterStop(t, state, FALSE)
        BY <2>1, <2>2, AfterStopSingle
  <2>3. CASE pc' = [pc EXCEPT ![t] = "closing"] /\ UNCHANGED reconnecting
        BY <2>1, <2>3, OtherTaskSingle, StaysSingle
  <2>4. QED  BY <1>2, <2>2, <2>3 DEF Stop
<1>3. ASSUME NEW t \in Tasks, CloseReturns(t) PROVE SingleReconnect'
  <2>1. Active(t) /\ connected \in BOOLEAN
        BY <1>3 DEF CloseReturns, Active, TypeOK
  <2>2. PICK after : AfterStop(t, after, connected)
        BY <1>3 DEF CloseReturns
  <2>3. QED  BY <2>1, <2>2, AfterStopSingle
<1>4. ASSUME NEW t \in Tasks, OpenOk(t) \/ OpenFail(t) PROVE SingleReconnect'
  <2>1. Active(t) /\ (LoopDone(t, TRUE) \/ LoopDone(t, FALSE))
        BY <1>4 DEF OpenOk, OpenFail, Active
  <2>2. QED  BY <2>1, LoopDoneSingle
<1>5. ASSUME NEW p \in Puts, PutBegin(p) PROVE SingleReconnect'
  <2>1. UNCHANGED reconnecting /\ (pc' = [pc EXCEPT ![p] = "retention"] \/ UNCHANGED pc)
        BY <1>5 DEF PutBegin
  <2>2. CASE pc' = [pc EXCEPT ![p] = "retention"]
        BY <1>0, <2>1, <2>2, OtherTaskSingle
  <2>3. CASE UNCHANGED pc
    <3>1. Reconnecting' = Reconnecting
          BY <2>3 DEF Reconnecting
    <3>2. QED  BY <2>1, <3>1 DEF SingleReconnect
  <2>4. QED  BY <2>1, <2>2, <2>3
<1>6. ASSUME NEW l \in Loops, LoopBegin(l) PROVE SingleReconnect'
  <2>1. CASE reconnecting
    <3>1. Reconnecting' = Reconnecting
          BY <1>0, <1>6, <2>1 DEF LoopBegin, Reconnecting, TypeOK
    <3>2. reconnecting' = TRUE
          BY <1>6 DEF LoopBegin
    <3>3. QED  BY <2>1, <3>1, <3>2 DEF SingleReconnect
  <2>2. CASE ~reconnecting
    <3>1. Reconnecting = {}
          BY <2>2 DEF SingleReconnect
    <3>2. pc' = [pc EXCEPT ![l] = "sleep"] /\ reconnecting' = TRUE
          BY <1>6, <2>2 DEF LoopBegin
    <3>3. Reconnecting' = {l}
          BY <1>0, <3>1, <3>2 DEF Reconnecting, TypeOK
    <3>4. QED  BY <3>2, <3>3 DEF SingleReconnect
  <2>3. QED  BY <2>1, <2>2
<1>7. ASSUME NEW s \in Senders, PublishFail(s) PROVE SingleReconnect'
  <2>1. \/ UNCHANGED pc
        \/ \E l \in Loops : pc[l] = "none" /\ pc' = [pc EXCEPT ![l] = "created"]
        BY <1>7 DEF PublishFail, TriggerReconnect
  <2>2. Reconnecting' = Reconnecting
        BY <1>0, <2>1 DEF Reconnecting, TypeOK
  <2>3. UNCHANGED reconnecting
        BY <1>7 DEF PublishFail
  <2>4. QED  BY <2>2, <2>3 DEF SingleReconnect
<1>8. ASSUME UNCHANGED <<pc, reconnecting>> PROVE SingleReconnect'
  <2>1. Reconnecting' = Reconnecting
        BY <1>8 DEF Reconnecting
  <2>2. QED  BY <1>8, <2>1 DEF SingleReconnect
<1>9. QED
  BY <1>1, <1>2, <1>3, <1>4, <1>5, <1>6, <1>7, <1>8
     DEF Next, TaskStep, Send, SendBegin, SendDropped, PublishOk, BrokerDown, BrokerBack, vars

(* However many publishes fail and however many requests restart the       *)
(* service meanwhile, at most one reconnect loop is past its lock, and the *)
(* flag is set exactly while one is.                                       *)
THEOREM OneReconnect == Spec => []SingleReconnect
BY TypeCorrect, SingleInit, SingleNext, PTL DEF Spec

-----------------------------------------------------------------------------
(* The sessions, while nothing but the reconnect loops restarts the service. *)
(* Then no two tasks are inside start() and stop() at once, so what a task  *)
(* awaits is still the service's client when the await is over.             *)

(* The application starts the service before anything else runs.           *)
BootInv ==
    pc["boot"] # "none" =>
        /\ \A l \in Loops : pc[l] = "none"
        /\ \A s \in Senders : publishing[s] = NoClient
        /\ ~connected
        /\ \/ pc["boot"] = "opening"
           \/ pc["boot"] = "created" /\ client = NoClient

(* A task inside start() or stop() works on the service's own client, and  *)
(* one inside stop() on a client nobody is opening.                        *)
AwaitInv ==
    \A t \in Tasks : pc[t] \in {"closing", "opening"} =>
        /\ client \in Clients
        /\ held[t] = client
        /\ ~connected
        /\ pc[t] = "closing" => state[client] # "opening"

(* Only the service's client has, or is about to have, a session.          *)
SessionInv ==
    \A c \in Clients : state[c] \in {"open", "opening"} =>
        /\ c = client
        /\ state[c] = "opening" => \E t \in Tasks : pc[t] = "opening"

NoPut == \A p \in Puts : pc[p] = "none"

ClientInv == connected => client # NoClient /\ state[client] \in {"open", "lost"}

ServiceInv == NoPut /\ BootInv /\ AwaitInv /\ SessionInv /\ ClientInv

(* At most one task is inside start() or stop(), or about to enter.        *)
LEMMA OneActive ==
    ASSUME SingleReconnect, NoPut, BootInv,
           NEW t \in Tasks, NEW u \in Tasks, Active(t), Active(u)
    PROVE  t = u
<1>1. {t, u} \subseteq {"boot"} \cup Loops
      BY DEF Tasks, NoPut, Active
<1>2. CASE pc["boot"] = "none"
  <2>1. t \in Reconnecting /\ u \in Reconnecting
        BY <1>1, <1>2 DEF Active, Reconnecting
  <2>2. QED  BY <2>1 DEF SingleReconnect, Reconnecting
<1>3. CASE pc["boot"] # "none"
  <2>1. t \notin Loops /\ u \notin Loops
        BY <1>3 DEF BootInv, Active
  <2>2. QED  BY <1>1, <2>1
<1>4. QED  BY <1>2, <1>3

LEMMA ServiceInit == Init => ServiceInv
<1> SUFFICES ASSUME Init PROVE ServiceInv
    OBVIOUS
<1>1. BootInv
  <2>1. \A l \in Loops : pc[l] = "none"
        BY TasksAssumption DEF Init, Tasks
  <2>2. \A s \in Senders : publishing[s] = NoClient
        BY DEF Init
  <2>3. QED  BY <2>1, <2>2 DEF BootInv, Init, Tasks
<1>2. AwaitInv
      BY DEF Init, AwaitInv
<1>3. SessionInv
      BY DEF Init, SessionInv
<1>4. ClientInv
      BY DEF Init, ClientInv
<1>5. NoPut
      BY TasksAssumption DEF Init, NoPut, Tasks
<1>6. QED  BY <1>1, <1>2, <1>3, <1>4, <1>5 DEF ServiceInv

(* What the one active task may leave behind when its step ends: either    *)
(* the only client with a session being opened, by this task ...           *)
LEMMA OpeningService ==
    ASSUME TypeOK, SingleReconnect, ServiceInv, NEW t \in Tasks \ Puts,
           t \in Loops => Active(t), t = "boot" => pc[t] # "none",
           NEW after \in [Clients -> {"unused", "opening", "open", "lost", "closed"}],
           \A c \in Clients : after[c] \notin {"open", "opening"},
           StartOpens(t, after), ~connected', UNCHANGED publishing
    PROVE  ServiceInv'
<1>1. PICK c \in Clients : /\ client' = c
                           /\ state' = [after EXCEPT ![c] = "opening"]
                           /\ held' = [held EXCEPT ![t] = c]
                           /\ pc' = [pc EXCEPT ![t] = "opening"]
      BY DEF StartOpens
<1>2. \A u \in Tasks : u # t => ~Active(u)
  <2>1. CASE t \in Loops
        BY <2>1, OneActive DEF ServiceInv
  <2>2. CASE t = "boot"
    <3>1. \A l \in Loops : pc[l] = "none"
          BY <2>2 DEF ServiceInv, BootInv
    <3>2. QED  BY <2>2, <3>1 DEF Tasks, Active, ServiceInv, NoPut
  <2>3. QED  BY <2>1, <2>2 DEF Tasks
<1>3. pc'[t] = "opening" /\ held'[t] = c /\ \A u \in Tasks : u # t => pc'[u] = pc[u]
      BY <1>1 DEF TypeOK
<1>4. BootInv'
  <2>1. CASE t \in Loops
    <3>1. pc["boot"] = "none"
          BY <2>1 DEF ServiceInv, BootInv, Active
    <3>2. pc'["boot"] = "none"
          BY <1>3, <2>1, <3>1, TasksAssumption DEF Tasks
    <3>3. QED  BY <3>2 DEF BootInv
  <2>2. CASE t = "boot"
    <3>1. \A l \in Loops : pc'[l] = "none"
          BY <1>3, <2>2, TasksAssumption DEF ServiceInv, BootInv, Tasks
    <3>2. \A s \in Senders : publishing'[s] = NoClient
          BY <2>2 DEF ServiceInv, BootInv
    <3>3. pc'["boot"] = "opening"
          BY <1>3, <2>2
    <3>4. QED  BY <3>1, <3>2, <3>3 DEF BootInv
  <2>3. QED  BY <2>1, <2>2 DEF Tasks
<1>5. AwaitInv'
  <2> SUFFICES ASSUME NEW u \in Tasks, pc'[u] \in {"closing", "opening"}
               PROVE  client' \in Clients /\ held'[u] = client' /\ ~connected'
                      /\ (pc'[u] = "closing" => state'[client'] # "opening")
      BY DEF AwaitInv
  <2>1. u = t
        BY <1>2, <1>3 DEF Active
  <2>2. QED  BY <1>1, <1>3, <2>1
<1>6. SessionInv'
  <2> SUFFICES ASSUME NEW d \in Clients, state'[d] \in {"open", "opening"}
               PROVE  d = client' /\ (state'[d] = "opening" => \E u \in Tasks : pc'[u] = "opening")
      BY DEF SessionInv
  <2>1. d = c
        BY <1>1
  <2>2. QED  BY <1>1, <1>3, <2>1
<1>7. NoPut'
      BY <1>3, TasksAssumption DEF ServiceInv, NoPut, Tasks
<1>8. QED  BY <1>4, <1>5, <1>6, <1>7 DEF ServiceInv, ClientInv

(* ... or no session and no task that awaits one.                          *)
LEMMA IdleService ==
    ASSUME TypeOK, SingleReconnect, ServiceInv, NEW t \in Tasks \ Puts,
           t \in Loops => Active(t), t = "boot" => pc[t] # "none",
           NEW v \in {"none", "sleep"}, t = "boot" => v = "none",
           pc' = [pc EXCEPT ![t] = v],
           \A c \in Clients : state'[c] \notin {"open", "opening"} \/ (c = client' /\ state'[c] = "open"),
           ClientInv', UNCHANGED publishing
    PROVE  ServiceInv'
<1>2. \A u \in Tasks : u # t => ~Active(u)
  <2>1. CASE t \in Loops
        BY <2>1, OneActive DEF ServiceInv
  <2>2. CASE t = "boot"
    <3>1. \A l \in Loops : pc[l] = "none"
          BY <2>2 DEF ServiceInv, BootInv
    <3>2. QED  BY <2>2, <3>1 DEF Tasks, Active, ServiceInv, NoPut
  <2>3. QED  BY <2>1, <2>2 DEF Tasks
<1>3. pc'[t] = v /\ \A u \in Tasks : u # t => pc'[u] = pc[u]
      BY DEF TypeOK
<1>4. BootInv'
  <2>1. pc'["boot"] = "none"
    <3>1. CASE t \in Loops
      <4>1. pc["boot"] = "none"
            BY <3>1 DEF ServiceInv, BootInv, Active
      <4>2. QED  BY <1>3, <3>1, <4>1, TasksAssumption DEF Tasks
    <3>2. CASE t = "boot"
          BY <1>3, <3>2
    <3>3. QED  BY <3>1, <3>2 DEF Tasks
  <2>2. QED  BY <2>1 DEF BootInv
<1>5. \A u \in Tasks : pc'[u] \notin {"closing", "opening"}
      BY <1>2, <1>3 DEF Active
<1>6. AwaitInv'
      BY <1>5 DEF AwaitInv
<1>7. SessionInv'
      BY DEF SessionInv
<1>8. NoPut'
      BY <1>3, TasksAssumption DEF ServiceInv, NoPut, Tasks
<1>9. QED  BY <1>4, <1>6, <1>7, <1>8 DEF ServiceInv

LEMMA AfterStopService ==
    ASSUME TypeOK, SingleReconnect, ServiceInv, NEW l \in Loops, Active(l),
           NEW after \in [Clients -> {"unused", "opening", "open", "lost", "closed"}],
           \A c \in Clients : after[c] \notin {"open", "opening"},
           NEW b, b = FALSE, AfterStop(l, after, b), ~connected', UNCHANGED publishing
    PROVE  ServiceInv'
<1>0. l \in Tasks \ Puts /\ l # "boot"
      BY TasksAssumption DEF Tasks
<1>1. CASE StartOpens(l, after)
      BY <1>0, <1>1, OpeningService
<1>2. CASE StartSkipped(l, after, b)
  <2>1. state' = after /\ pc' = [pc EXCEPT ![l] = "sleep"]
        BY <1>2 DEF StartSkipped, LoopDone
  <2>2. ClientInv'
        BY DEF ClientInv
  <2>3. QED  BY <1>0, <2>1, <2>2, IdleService
<1>3. QED  BY <1>1, <1>2 DEF AfterStop

LEMMA BootService ==
    ASSUME TypeOK, SingleReconnect, ServiceInv, Boot
    PROVE  ServiceInv'
<1>0. "boot" \in Tasks \ Puts /\ "boot" \notin Loops
      BY TasksAssumption DEF Tasks
<1>1. /\ pc["boot"] = "created" /\ client = NoClient
      /\ ~connected' /\ UNCHANGED publishing
      BY DEF Boot, ServiceInv, BootInv
<1>2. \A c \in Clients : state[c] \notin {"open", "opening"}
      BY <1>1, TasksAssumption DEF ServiceInv, SessionInv
<1>3. state \in [Clients -> {"unused", "opening", "open", "lost", "closed"}]
      BY DEF TypeOK
<1>4. CASE StartOpens("boot", state)
      BY <1>0, <1>1, <1>2, <1>3, <1>4, OpeningService
<1>5. CASE StartSkipped("boot", state, FALSE)
  <2>1. state' = state /\ pc' = [pc EXCEPT !["boot"] = "none"]
        BY <1>0, <1>5 DEF StartSkipped, LoopDone
  <2>2. ClientInv'
        BY <1>1 DEF ClientInv
  <2>3. QED  BY <1>0, <1>1, <1>2, <2>1, <2>2, IdleService
<1>6. QED  BY <1>4, <1>5 DEF Boot

LEMMA StopService ==
    ASSUME TypeOK, SingleReconnect, ServiceInv, NEW l \in Loops, Stop(l)
    PROVE  ServiceInv'
<1>0. l \in Tasks \ Puts /\ l # "boot"
      BY TasksAssumption DEF Tasks
<1>1. pc[l] = "sleep" /\ Active(l) /\ ~connected' /\ UNCHANGED publishing
      BY <1>0 DEF Stop, StopBegins, Active
<1>2. \A u \in Tasks : u # l => ~Active(u)
      BY <1>0, <1>1, OneActive DEF ServiceInv
<1>3. \A c \in Clients : state[c] # "opening"
      BY <1>1, <1>2 DEF ServiceInv, SessionInv, Active
<1>4. CASE /\ client = NoClient
           /\ AfterStop(l, state, FALSE)
  <2>1. \A c \in Clients : state[c] \notin {"open", "opening"}
        BY <1>4, TasksAssumption DEF ServiceInv, SessionInv
  <2>2. state \in [Clients -> {"unused", "opening", "open", "lost", "closed"}]
        BY DEF TypeOK
  <2>3. QED  BY <1>1, <1>4, <2>1, <2>2, AfterStopService
<1>5. CASE /\ client # NoClient
           /\ held' = [held EXCEPT ![l] = client]
           /\ pc' = [pc EXCEPT ![l] = "closing"]
           /\ UNCHANGED <<client, reconnecting, state>>
  <2>1. client \in Clients
        BY <1>5 DEF TypeOK
  <2>2. pc'[l] = "closing" /\ held'[l] = client /\ \A u \in Tasks : u # l => pc'[u] = pc[u]
        BY <1>0, <1>5 DEF TypeOK
  <2>3. BootInv'
    <3>1. pc["boot"] = "none"
          BY <1>1 DEF ServiceInv, BootInv
    <3>2. pc'["boot"] = "none"
          BY <1>0, <2>2, <3>1 DEF Tasks
    <3>3. QED  BY <3>2 DEF BootInv
  <2>4. AwaitInv'
    <3> SUFFICES ASSUME NEW u \in Tasks, pc'[u] \in {"closing", "opening"}
                 PROVE  client' \in Clients /\ held'[u] = client' /\ ~connected'
                        /\ (pc'[u] = "closing" => state'[client'] # "opening")
        BY DEF AwaitInv
    <3>1. u = l
          BY <1>2, <2>2 DEF Active
    <3>2. QED  BY <1>1, <1>3, <1>5, <2>1, <2>2, <3>1
  <2>5. SessionInv'
        BY <1>3, <1>5 DEF ServiceInv, SessionInv
  <2>6. NoPut'
        BY <1>0, <2>2, TasksAssumption DEF ServiceInv, NoPut, Tasks
  <2>7. QED  BY <1>1, <2>3, <2>4, <2>5, <2>6 DEF ServiceInv, ClientInv
<1>6. QED  BY <1>4, <1>5 DEF Stop

LEMMA CloseService ==
    ASSUME TypeOK, SingleReconnect, ServiceInv, NEW l \in Loops, CloseReturns(l)
    PROVE  ServiceInv'
<1>0. l \in Tasks
      BY DEF Tasks
<1>1. pc[l] = "closing" /\ Active(l) /\ UNCHANGED <<connected, publishing>>
      BY DEF CloseReturns, Active
<1>2. client \in Clients /\ held[l] = client /\ connected = FALSE /\ state[client] # "opening"
      BY <1>0, <1>1 DEF ServiceInv, AwaitInv, TypeOK
<1>3. PICK after \in Closed(client) : AfterStop(l, after, connected)
      BY <1>2 DEF CloseReturns
<1>4. after = [state EXCEPT ![client] = "closed"]
      BY <1>2 DEF Closed
<1>5. after \in [Clients -> {"unused", "opening", "open", "lost", "closed"}]
      BY <1>4 DEF TypeOK
<1>6. \A c \in Clients : after[c] \notin {"open", "opening"}
      BY <1>2, <1>4 DEF ServiceInv, SessionInv, TypeOK
<1>7. QED  BY <1>1, <1>2, <1>3, <1>5, <1>6, AfterStopService

LEMMA OpenService ==
    ASSUME TypeOK, SingleReconnect, ServiceInv, NEW t \in Tasks,
           OpenOk(t) \/ OpenFail(t)
    PROVE  ServiceInv'
<1>0. t \in Tasks \ Puts
      BY DEF OpenOk, OpenFail, ServiceInv, NoPut
<1>1. pc[t] = "opening" /\ Active(t) /\ UNCHANGED <<client, publishing>>
      BY DEF OpenOk, OpenFail, Active
<1>2. client \in Clients /\ held[t] = client
      BY <1>1 DEF ServiceInv, AwaitInv
<1>3. \A c \in Clients : c # client => state'[c] \notin {"open", "opening"}
      BY <1>2 DEF OpenOk, OpenFail, ServiceInv, SessionInv, TypeOK
<1>4. PICK v \in {"none", "sleep"} : (t = "boot" => v = "none") /\ pc' = [pc EXCEPT ![t] = v]
  <2>1. \E b \in BOOLEAN : LoopDone(t, b)
        BY DEF OpenOk, OpenFail
  <2>2. "boot" \notin Loops
        BY TasksAssumption
  <2>3. QED  BY <2>1, <2>2 DEF LoopDone
<1>5. CASE OpenOk(t)
  <2>1. state'[client] = "open"
        BY <1>2, <1>5 DEF OpenOk, TypeOK
  <2>2. ClientInv'
        BY <1>1, <1>2, <2>1, TasksAssumption DEF ClientInv
  <2>3. QED  BY <1>0, <1>1, <1>3, <1>4, <2>1, <2>2, IdleService
<1>6. CASE OpenFail(t)
  <2>1. state'[client] = "closed" /\ ~connected'
        BY <1>2, <1>6 DEF OpenFail, TypeOK
  <2>2. ClientInv'
        BY <2>1 DEF ClientInv
  <2>3. QED  BY <1>0, <1>1, <1>3, <1>4, <2>1, <2>2, IdleService
<1>7. QED  BY <1>5, <1>6

(* Steps that move no task into or out of start() and stop().              *)
LEMMA QuietService ==
    ASSUME TypeOK, ServiceInv, UNCHANGED <<connected, client, held, state>>,
           \A t \in Tasks : \/ pc'[t] = pc[t]
                            \/ ~Active(t) /\ pc'[t] \notin {"closing", "opening"},
           BootInv', NoPut'
    PROVE  ServiceInv'
<1>1. \A t \in Tasks : pc'[t] \in {"closing", "opening"} <=> pc[t] \in {"closing", "opening"}
      BY DEF Active
<1>2. \A t \in Tasks : pc[t] \in {"closing", "opening"} => pc'[t] = pc[t]
      BY DEF Active
<1>3. AwaitInv'
      BY <1>1, <1>2 DEF ServiceInv, AwaitInv
<1>4. SessionInv'
      BY <1>2 DEF ServiceInv, SessionInv
<1>5. QED  BY <1>3, <1>4 DEF ServiceInv, ClientInv

LEMMA ServiceNext ==
    ASSUME TypeOK, SingleReconnect, ServiceInv, [Next]_vars,
           ~ \E p \in Puts : PutBegin(p)
    PROVE  ServiceInv'
<1>0. /\ "boot" \in Tasks /\ "boot" \notin Loops
      /\ Tasks = {"boot"} \cup Loops \cup Puts
      /\ \A p \in Puts : p \in Tasks /\ p \notin Loops /\ p # "boot" /\ pc[p] = "none"
      BY TasksAssumption DEF Tasks, ServiceInv, NoPut
<1>1. ASSUME Boot PROVE ServiceInv'
      BY <1>1, BootService
<1>2. ASSUME NEW t \in Tasks, Stop(t) PROVE ServiceInv'
  <2>1. t \in Loops
        BY <1>0, <1>2 DEF Stop, StopBegins
  <2>2. QED  BY <1>2, <2>1, StopService
<1>3. ASSUME NEW t \in Tasks, CloseReturns(t) PROVE ServiceInv'
  <2>1. CASE t \in Loops
        BY <1>3, <2>1, CloseService
  <2>2. CASE t = "boot"
        BY <1>3, <2>2 DEF CloseReturns, ServiceInv, BootInv
  <2>3. t \notin Puts
        BY <1>0, <1>3 DEF CloseReturns
  <2>4. QED  BY <1>0, <2>1, <2>2, <2>3
<1>4. ASSUME NEW t \in Tasks, OpenOk(t) \/ OpenFail(t) PROVE ServiceInv'
      BY <1>4, OpenService
<1>5. ASSUME NEW l \in Loops, LoopBegin(l) PROVE ServiceInv'
  <2>1. pc["boot"] = "none"
        BY <1>5 DEF LoopBegin, ServiceInv, BootInv
  <2>2. pc'["boot"] = "none"
        BY <1>0, <1>5, <2>1 DEF LoopBegin, TypeOK
  <2>3. \A t \in Tasks : \/ pc'[t] = pc[t]
                         \/ ~Active(t) /\ pc'[t] \notin {"closing", "opening"}
        BY <1>0, <1>5 DEF LoopBegin, TypeOK, Active
  <2>4. NoPut'
        BY <1>0, <1>5 DEF LoopBegin, TypeOK, NoPut
  <2>5. QED  BY <1>5, <2>2, <2>3, <2>4, QuietService DEF LoopBegin, BootInv
<1>6. ASSUME NEW s \in Senders, SendBegin(s) \/ PublishOk(s) PROVE ServiceInv'
  <2>1. pc["boot"] = "none"
        BY <1>6 DEF SendBegin, PublishOk, ServiceInv, BootInv
  <2>2. NoPut'
        BY <1>6 DEF SendBegin, PublishOk, ServiceInv, NoPut
  <2>3. QED  BY <1>6, <2>1, <2>2, QuietService DEF SendBegin, PublishOk, BootInv
<1>7. ASSUME NEW s \in Senders, PublishFail(s) PROVE ServiceInv'
  <2>1. pc["boot"] = "none"
        BY <1>7 DEF PublishFail, ServiceInv, BootInv
  <2>2. \/ UNCHANGED pc
        \/ \E l \in Loops : pc[l] = "none" /\ pc' = [pc EXCEPT ![l] = "created"]
        BY <1>7 DEF PublishFail, TriggerReconnect
  <2>3. pc'["boot"] = "none"
        BY <1>0, <2>1, <2>2 DEF TypeOK
  <2>4. \A t \in Tasks : \/ pc'[t] = pc[t]
                         \/ ~Active(t) /\ pc'[t] \notin {"closing", "opening"}
        BY <1>0, <2>2 DEF TypeOK, Active
  <2>5. UNCHANGED <<connected, client, held, state>>
        BY <1>7 DEF PublishFail
  <2>6. NoPut'
        BY <1>0, <2>2 DEF TypeOK, NoPut
  <2>7. QED  BY <2>3, <2>4, <2>5, <2>6, QuietService DEF BootInv
<1>8. ASSUME BrokerDown PROVE ServiceInv'
  <2>1. /\ \A c \in Clients : state'[c] = IF state[c] = "open" THEN "lost" ELSE state[c]
        /\ UNCHANGED <<connected, client, pc, held, publishing>>
        BY <1>8 DEF BrokerDown
  <2>2. BootInv'
        BY <2>1 DEF ServiceInv, BootInv
  <2>3. AwaitInv'
        BY <2>1 DEF ServiceInv, AwaitInv
  <2>4. SessionInv'
        BY <2>1 DEF ServiceInv, SessionInv
  <2>5. ClientInv'
    <3>1. client # NoClient => client \in Clients
          BY DEF TypeOK
    <3>2. QED  BY <2>1, <3>1 DEF ServiceInv, ClientInv
  <2>6. NoPut'
        BY <2>1 DEF ServiceInv, NoPut
  <2>7. QED  BY <2>2, <2>3, <2>4, <2>5, <2>6 DEF ServiceInv
<1>9. ASSUME UNCHANGED <<connected, client, pc, held, publishing, state>> PROVE ServiceInv'
      BY <1>9 DEF ServiceInv, NoPut, BootInv, AwaitInv, SessionInv, ClientInv
<1>10. QED
  BY <1>1, <1>2, <1>3, <1>4, <1>5, <1>6, <1>7, <1>8, <1>9
     DEF Next, TaskStep, Send, SendDropped, BrokerBack, vars

(* The invariant lasts until the first request.                            *)
UntilPut == puts = 0 => ServiceInv

LEMMA UntilPutNext == TypeOK /\ SingleReconnect /\ UntilPut /\ [Next]_vars => UntilPut'
<1> SUFFICES ASSUME TypeOK, SingleReconnect, UntilPut, [Next]_vars, puts' = 0
             PROVE  ServiceInv'
    BY DEF UntilPut
<1>1. puts \in Nat
      BY DEF TypeOK
<1>2. ~ \E p \in Puts : PutBegin(p)
      BY <1>1 DEF PutBegin
<1>3. CASE UNCHANGED puts
  <2>1. ServiceInv
        BY <1>3 DEF UntilPut
  <2>2. QED  BY <1>2, <2>1, ServiceNext
<1>4. UNCHANGED puts
      BY <1>2 DEF Next, TaskStep, Send, Boot, Stop, CloseReturns, OpenOk, OpenFail,
             LoopBegin, SendBegin, SendDropped, PublishOk, PublishFail, BrokerDown,
             BrokerBack, vars
<1>5. QED  BY <1>3, <1>4

LEMMA UntilPutInit == Init => UntilPut
BY ServiceInit DEF UntilPut

(* Until a request restarts the service, a service that says it is         *)
(* connected holds a client that did connect, for any number of outages.   *)
THEOREM ConnectedIsOpen == Spec => []ConnectedHasClient
<1>1. UntilPut => ConnectedHasClient
      BY DEF UntilPut, ServiceInv, ClientInv, ConnectedHasClient
<1>2. QED  BY <1>1, TypeCorrect, OneReconnect, UntilPutInit, UntilPutNext, PTL DEF Spec

(* ... and no session is left open at the broker behind the service's back. *)
THEOREM NoOrphan == Spec => []NoOrphanSession
<1>1. UntilPut => NoOrphanSession
      BY DEF UntilPut, ServiceInv, SessionInv, NoOrphanSession
<1>2. QED  BY <1>1, TypeCorrect, OneReconnect, UntilPutInit, UntilPutNext, PTL DEF Spec
=============================================================================

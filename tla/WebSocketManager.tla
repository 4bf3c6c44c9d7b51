-------------------------- MODULE WebSocketManager --------------------------
(***************************************************************************)
(* ConnectionManager and the endpoint of backend/app/api/routes/           *)
(* websocket.py: browsers connect, subscribe and go away while the poll    *)
(* loops of the sensors send them every value and every change of status.  *)
(*                                                                         *)
(* A sender is the poll loop of one sensor, job[s] the coroutine in it.    *)
(* It awaits one send_text() at a time; from the return of one send to the *)
(* next nothing else runs.  send_sensor_update() goes through a copy of    *)
(* the subscribers, then broadcast() through the live list of connections, *)
(* by position.  stop() of the driver may cancel it in any send.  What is  *)
(* sent is not modelled.                                                   *)
(***************************************************************************)
EXTENDS Naturals, FiniteSets, SequencesExt

CONSTANTS
    Clients,       \* WebSocket objects: a browser that comes back is a new one
    Senders,       \* sensors
    NoClient       \* no send under way

ASSUME ClientsAssumption ==
    /\ IsFiniteSet(Clients)
    /\ NoClient \notin Clients

VARIABLES
    link,          \* new; open; broken, which the endpoint has yet to see; closed
    connections,   \* ConnectionManager._connections
    subscriptions, \* ConnectionManager._subscriptions, an empty set for no entry
    job,           \* what each sender is at
    owed,          \* clients there since its broadcast began, not yet sent to
    departures     \* how often a client left the list since

vars == <<link, connections, subscriptions, job, owed, departures>>

Job == [phase : {"idle", "cancelled",             \* over: at its end, or cut short
                 "subscribers", "broadcast"},
        to : Clients \cup {NoClient},             \* the send it awaits
        todo : SUBSET Clients,                    \* subscribers still to come
        attached : BOOLEAN,                       \* is their set still the entry?
        pos : 1..Cardinality(Clients) + 1,        \* where the loop goes on in the list
        dead : SUBSET Clients]                    \* dead_connections

Idle == [phase |-> "idle", to |-> NoClient, todo |-> {}, attached |-> FALSE,
         pos |-> 1, dead |-> {}]

TypeOK ==
    /\ link \in [Clients -> {"new", "open", "broken", "closed"}]
    /\ connections \in Seq(Clients)
    /\ subscriptions \in [Senders -> SUBSET Clients]
    /\ job \in [Senders -> Job]
    /\ owed \in [Senders -> SUBSET Clients]
    /\ departures \in [Senders -> Nat]

Init ==
    /\ link = [c \in Clients |-> "new"]
    /\ connections = <<>>
    /\ subscriptions = [s \in Senders |-> {}]
    /\ job = [s \in Senders |-> Idle]
    /\ owed = [s \in Senders |-> {}]
    /\ departures = [s \in Senders |-> 0]

-----------------------------------------------------------------------------
(* The endpoint: connect(), subscribe(), unsubscribe(), disconnect().      *)

(* client_state == CONNECTED                                               *)
Connected(c) == link[c] \in {"open", "broken"}

Connect(c) ==
    /\ link[c] = "new"
    /\ link' = [link EXCEPT ![c] = "open"]
    /\ connections' = Append(connections, c)
    /\ UNCHANGED <<subscriptions, job, owed, departures>>

(* What the browser sent is read until the end, even after it has left.    *)
Subscribe(c, s) ==
    /\ Connected(c)
    /\ subscriptions' = [subscriptions EXCEPT ![s] = @ \cup {c}]
    /\ UNCHANGED <<link, connections, job, owed, departures>>

Unsubscribe(c, s) ==
    /\ Connected(c)
    /\ subscriptions' = [subscriptions EXCEPT ![s] = @ \ {c}]
    /\ UNCHANGED <<link, connections, job, owed, departures>>

BrowserLeaves(c) ==
    /\ link[c] = "open"
    /\ link' = [link EXCEPT ![c] = "broken"]
    /\ owed' = [s \in Senders |-> owed[s] \ {c}]
    /\ UNCHANGED <<connections, subscriptions, job, departures>>

(* The list of connections without those clients: the others move up.      *)
Without(gone) ==
    LET kept == {i \in DOMAIN connections : connections[i] \notin gone}
        Rank(i) == Cardinality({j \in kept : j <= i})
    IN  [k \in 1..Cardinality(kept) |-> connections[CHOOSE i \in kept : Rank(i) = k]]

(* Mutant: the subscriptions stay.                                         *)
DisconnectKeeps(gone, jobs, entries) ==
    LET removed == Cardinality(gone \cap ToSet(connections)) IN
    /\ connections' = Without(gone)
    /\ subscriptions' = entries
    /\ job' = jobs
    /\ departures' = [s \in Senders |->
                         IF jobs[s].phase = "broadcast" THEN departures[s] + removed ELSE 0]

(* disconnect() of each client of gone, with the jobs and the entries as   *)
(* they are by then.  An entry that is empty is deleted, and a later       *)
(* subscription begins another set than the one a sender may have in hand. *)
Disconnect(gone, jobs, entries) ==
    LET removed == Cardinality(gone \cap ToSet(connections)) IN
    /\ connections' = Without(gone)
    /\ subscriptions' = [s \in Senders |-> entries[s] \ gone]
    /\ job' = [s \in Senders |->
                  [jobs[s] EXCEPT !.attached = @ /\ (gone = {} \/ entries[s] \ gone # {})]]
    /\ departures' = [s \in Senders |->
                         IF jobs[s].phase = "broadcast" THEN departures[s] + removed ELSE 0]

EndpointEnds(c) ==
    /\ link[c] = "broken"
    /\ link' = [link EXCEPT ![c] = "closed"]
    /\ Disconnect({c}, job, subscriptions)
    /\ UNCHANGED owed

-----------------------------------------------------------------------------
(* The senders.  A job j of sender s goes on to its next await, entries    *)
(* being the subscriptions as its last send left them: to a subscriber     *)
(* that is left, else to the next connection, else to the end of the       *)
(* broadcast, where the dead connections are cleaned up.                   *)

(* Nothing is under way: the last job has ended, or was cancelled and a    *)
(* new poll loop, or stop() itself, has something to report.               *)
Free(s) == job[s].phase \in {"idle", "cancelled"}

(* The positions of the list, from i on, that the loop does not skip.      *)
Ahead(i) == {k \in i..Len(connections) : Connected(connections[k])}

ToSubscriber(s, j, entries) ==
    \E c \in j.todo :
        /\ Connected(c)
        /\ job' = [job EXCEPT ![s] = [j EXCEPT !.to = c, !.todo = @ \ {c}]]
        /\ subscriptions' = entries
        /\ UNCHANGED <<connections, owed, departures>>

ToConnection(s, j, entries) ==
    LET i == Min(Ahead(j.pos))
        open == {c \in ToSet(connections) : link[c] = "open"}
        begins == j.phase = "subscribers"
    IN  /\ \A c \in j.todo : ~Connected(c)
        /\ Ahead(j.pos) # {}
        /\ job' = [job EXCEPT ![s] = [j EXCEPT !.phase = "broadcast", !.todo = {},
                                               !.attached = FALSE, !.to = connections[i],
                                               !.pos = i + 1]]
        /\ owed' = [owed EXCEPT ![s] = (IF begins THEN open ELSE @) \ {connections[i]}]
        /\ subscriptions' = entries
        /\ UNCHANGED <<connections, departures>>

Ends(s, j, entries) ==
    /\ \A c \in j.todo : ~Connected(c)
    /\ Ahead(j.pos) = {}
    /\ Disconnect(j.dead, [job EXCEPT ![s] = Idle], entries)
    /\ owed' = [owed EXCEPT ![s] = {}]

GoesOn(s, j, entries) ==
    /\ ToSubscriber(s, j, entries) \/ ToConnection(s, j, entries) \/ Ends(s, j, entries)
    /\ UNCHANGED link

(* A value: send_sensor_update().                                          *)
SendValue(s) ==
    /\ Free(s)
    /\ GoesOn(s, [Idle EXCEPT !.phase = "subscribers", !.todo = subscriptions[s],
                              !.attached = TRUE], subscriptions)

(* A change of status, or an alert: broadcast() alone.                     *)
SendStatus(s) ==
    /\ Free(s)
    /\ GoesOn(s, [Idle EXCEPT !.phase = "subscribers"], subscriptions)

(* send_text() returns: what is sent to a browser that has left may still  *)
(* go into the socket's buffer.                                            *)
Sent(s) ==
    /\ job[s].to # NoClient
    /\ Connected(job[s].to)
    /\ GoesOn(s, [job[s] EXCEPT !.to = NoClient], subscriptions)

(* Mutant: the exception ends the broadcast.                               *)
SendFailsUncaught(s) ==
    /\ job[s].to # NoClient
    /\ link[job[s].to] # "open"
    /\ Disconnect({}, [job EXCEPT ![s] = Idle], subscriptions)
    /\ owed' = [owed EXCEPT ![s] = {}]
    /\ UNCHANGED link

(* It raises: a subscriber leaves the set, a connection is noted as dead.  *)
SendFails(s) ==
    LET c == job[s].to
        j == [job[s] EXCEPT !.to = NoClient]
    IN  /\ c # NoClient
        /\ link[c] # "open"
        /\ IF j.phase = "subscribers"
           THEN GoesOn(s, j, IF j.attached THEN [subscriptions EXCEPT ![s] = @ \ {c}]
                             ELSE subscriptions)
           ELSE GoesOn(s, [j EXCEPT !.dead = @ \cup {c}], subscriptions)

(* stop() cancels the poll loop in a send (base.py:178).  CancelledError   *)
(* is not caught (l.74, 121): nobody else is sent to, no dead connection   *)
(* is cleaned up.                                                          *)
Cancelled(s) ==
    /\ job[s].to # NoClient
    /\ Disconnect({}, [job EXCEPT ![s] = [Idle EXCEPT !.phase = "cancelled"]], subscriptions)
    /\ owed' = [owed EXCEPT ![s] = {}]
    /\ UNCHANGED link

Browser(c) ==
    \/ Connect(c) \/ BrowserLeaves(c) \/ EndpointEnds(c)
    \/ \E s \in Senders : Subscribe(c, s) \/ Unsubscribe(c, s)

Sender(s) == SendValue(s) \/ SendStatus(s) \/ Sent(s) \/ SendFails(s) \/ Cancelled(s)

Next == (\E c \in Clients : Browser(c)) \/ (\E s \in Senders : Sender(s))

Spec == Init /\ [][Next]_vars

-----------------------------------------------------------------------------
(* Properties.                                                             *)

(* "Automatic cleanup on disconnect" (websocket.py:25), whichever of the   *)
(* endpoint and the broadcasts comes first and whatever the browser asked  *)
(* for before it left.                                                     *)
ClosedIsForgotten ==
    \A c \in Clients : link[c] = "closed" =>
        /\ c \notin ToSet(connections)
        /\ \A s \in Senders : c \notin subscriptions[s]

(* The list of connections changes under a broadcast that iterates over it *)
(* (l.70): when it comes to its end, of the clients that were there when   *)
(* it began and have not left, it has missed one at most for each client   *)
(* that left meanwhile.  A failed send does not end it; only a stop of the *)
(* sensor cuts it short.                                                   *)
MissedOnePerDeparture ==
    [][\A s \in Senders : job[s].phase = "broadcast" /\ job'[s].phase = "idle" =>
          Cardinality(owed[s]) <= departures[s]]_vars
=============================================================================

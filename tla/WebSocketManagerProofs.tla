----------------------- MODULE WebSocketManagerProofs -----------------------
(***************************************************************************)
(* What the WebSocket manager guarantees for any number of browsers and of *)
(* sensors.                                                                *)
(***************************************************************************)
EXTENDS WebSocketManager, FiniteSetTheorems, TLAPS

LEMMA Constant ==
    /\ IsFiniteSet(Clients) /\ Cardinality(Clients) \in Nat
    /\ NoClient \notin Clients
BY ClientsAssumption, FS_CardinalityType

LEMMA PartOfFinite ==
    ASSUME NEW S, IsFiniteSet(S), NEW T \in SUBSET S
    PROVE  /\ IsFiniteSet(T)
           /\ Cardinality(T) \in Nat
           /\ Cardinality(T) <= Cardinality(S)
BY FS_Subset, FS_CardinalityType

LEMMA Split ==
    ASSUME NEW S, IsFiniteSet(S), NEW T \in SUBSET S
    PROVE  /\ IsFiniteSet(S \ T) /\ Cardinality(S \ T) \in Nat
           /\ Cardinality(S) = Cardinality(T) + Cardinality(S \ T)
<1>1. S \cap T = T
  OBVIOUS
<1>2. IsFiniteSet(S \ T) /\ Cardinality(S \ T) = Cardinality(S) - Cardinality(T)
  BY <1>1, FS_Difference
<1>3. Cardinality(S) \in Nat /\ Cardinality(T) \in Nat /\ Cardinality(S \ T) \in Nat
  BY <1>2, PartOfFinite, FS_CardinalityType
<1> QED BY <1>2, <1>3

LEMMA Least ==
    ASSUME NEW T \in SUBSET Nat, T # {}
    PROVE  Min(T) \in T /\ \A x \in T : Min(T) <= x
<1>1. \E x \in T : \A y \in T : ~(<<y, x>> \in OpToRel(<, Nat))
  BY NatLessThanWellFounded, WFMin
<1>2. \A x, y \in T : y < x => <<y, x>> \in OpToRel(<, Nat)
  BY DEF OpToRel
<1>3. \E x \in T : \A y \in T : x <= y
  <2>1. \E x \in T : \A y \in T : ~(y < x)
    BY <1>1, <1>2
  <2> QED BY <2>1
<1> QED BY <1>3 DEF Min

-----------------------------------------------------------------------------
(* The list of connections without some clients.                           *)

(* Nobody is twice in the list.                                            *)
OnceEach == \A i, j \in DOMAIN connections : connections[i] = connections[j] => i = j

Kept(gone) == {i \in DOMAIN connections : connections[i] \notin gone}
Rank(gone, i) == Cardinality({j \in Kept(gone) : j <= i})
Removed(gone) == Cardinality(gone \cap ToSet(connections))

LEMMA Positions ==
    ASSUME TypeOK
    PROVE  /\ Len(connections) \in Nat /\ DOMAIN connections = 1..Len(connections)
           /\ \A i \in DOMAIN connections : i \in Nat /\ connections[i] \in Clients
           /\ ToSet(connections) = {connections[i] : i \in DOMAIN connections}
           /\ ToSet(connections) \subseteq Clients
           /\ IsFiniteSet(DOMAIN connections)
<1>1. connections \in Seq(Clients)
  BY DEF TypeOK
<1>2. Len(connections) \in Nat /\ DOMAIN connections = 1..Len(connections)
  BY <1>1
<1>3. IsFiniteSet(DOMAIN connections)
  BY <1>2, FS_Interval
<1>4. \A i \in DOMAIN connections : i \in Nat /\ connections[i] \in Clients
  BY <1>1, <1>2
<1>5. ToSet(connections) = {connections[i] : i \in DOMAIN connections}
  BY DEF ToSet
<1> QED BY <1>2, <1>3, <1>4, <1>5

LEMMA RemovedType ==
    ASSUME TypeOK, NEW gone \in SUBSET Clients
    PROVE  /\ IsFiniteSet(gone \cap ToSet(connections))
           /\ Removed(gone) \in Nat
BY Constant, PartOfFinite DEF Removed

(* The positions that are kept are ranked in their order, and none moves   *)
(* up by more than the number of clients that go.                          *)
LEMMA Ranks ==
    ASSUME TypeOK, OnceEach, NEW gone \in SUBSET Clients
    PROVE  /\ IsFiniteSet(Kept(gone)) /\ Cardinality(Kept(gone)) \in Nat
           /\ \A i \in Kept(gone) :
                  /\ Rank(gone, i) \in 1..Cardinality(Kept(gone))
                  /\ Rank(gone, i) <= i /\ i <= Rank(gone, i) + Removed(gone)
           /\ \A i, j \in Kept(gone) : i < j => Rank(gone, i) < Rank(gone, j)
<1> DEFINE K == Kept(gone)
           Upto(i) == {j \in K : j <= i}
           Away(i) == {j \in 1..i : j \notin K}
<1>1. K \subseteq DOMAIN connections
  BY DEF Kept
<1>2. IsFiniteSet(K) /\ Cardinality(K) \in Nat
  BY <1>1, Positions, PartOfFinite
<1>3. \A i \in K : i \in Nat /\ i \in 1..Len(connections)
  BY <1>1, Positions
<1>4. ASSUME NEW i \in K
      PROVE  /\ IsFiniteSet(Upto(i)) /\ Cardinality(Upto(i)) \in Nat
             /\ Cardinality(Upto(i)) <= Cardinality(K)
  BY <1>2, PartOfFinite
<1>5. ASSUME NEW i \in K
      PROVE  /\ Rank(gone, i) \in 1..Cardinality(K)
             /\ Rank(gone, i) <= i /\ i <= Rank(gone, i) + Removed(gone)
  <2>1. i \in Upto(i)
    BY <1>3
  <2>2. Cardinality(Upto(i)) # 0
    BY <1>4, <2>1, FS_EmptySet
  <2>3. Upto(i) \subseteq 1..i
    <3>1. \A j \in Upto(i) : j \in 1..Len(connections) /\ j <= i
      BY <1>3
    <3> QED BY <1>3, <3>1, Positions
  <2>4. IsFiniteSet(1..i) /\ Cardinality(1..i) = i
    BY <1>3, FS_Interval
  <2>5. Cardinality(Upto(i)) <= i
    BY <2>3, <2>4, PartOfFinite
  <2>6. Away(i) = (1..i) \ Upto(i)
    BY <1>3
  <2>7. i = Cardinality(Upto(i)) + Cardinality(Away(i)) /\ Cardinality(Away(i)) \in Nat
    <3> HIDE DEF Upto, Away
    <3> QED BY <2>3, <2>4, <2>6, Split
  <2>8. Cardinality(Away(i)) <= Removed(gone)
    <3> DEFINE T == gone \cap ToSet(connections)
               f == [j \in Away(i) |-> connections[j]]
    <3>1. ASSUME NEW j \in Away(i) PROVE j \in DOMAIN connections /\ connections[j] \in T
      <4>1. j \in 1..Len(connections)
        BY <1>3, Positions
      <4>2. j \in DOMAIN connections
        BY <4>1, Positions
      <4>3. connections[j] \in gone
        BY <4>2 DEF Kept
      <4> QED BY <4>2, <4>3, Positions
    <3>2. f \in [Away(i) -> T]
      BY <3>1
    <3>3. \A j, k \in Away(i) : f[j] = f[k] => j = k
      BY <3>1 DEF OnceEach
    <3>4. f \in Injection(Away(i), T)
      BY <3>2, <3>3 DEF Injection, IsInjective
    <3> QED BY <3>4, RemovedType, FS_Injection DEF Removed
  <2>9. Rank(gone, i) = Cardinality(Upto(i))
    BY DEF Rank
  <2> DEFINE u == Cardinality(Upto(i))
             a == Cardinality(Away(i))
             C == Cardinality(K)
  <2>10. /\ u \in Nat /\ a \in Nat /\ C \in Nat /\ Removed(gone) \in Nat
         /\ u # 0 /\ u <= C /\ i = u + a /\ a <= Removed(gone)
    BY <1>2, <1>4, <2>2, <2>7, <2>8, RemovedType
  <2>11. Rank(gone, i) = u
    BY <2>9
  <2> HIDE DEF u, a, C
  <2>12. u \in 1..C /\ u <= i /\ i <= u + Removed(gone)
    BY <2>10
  <2> QED BY <2>11, <2>12 DEF C
<1>6. ASSUME NEW i \in K, NEW j \in K, i < j PROVE Rank(gone, i) < Rank(gone, j)
  <2>1. Upto(i) \cup {j} \subseteq Upto(j) /\ j \notin Upto(i)
    BY <1>3, <1>6
  <2>2. Cardinality(Upto(i) \cup {j}) = Cardinality(Upto(i)) + 1
    BY <1>4, <2>1, FS_AddElement
  <2>3. Cardinality(Upto(i) \cup {j}) <= Cardinality(Upto(j))
    BY <1>4, <2>1, PartOfFinite
  <2>4. Rank(gone, i) = Cardinality(Upto(i)) /\ Rank(gone, j) = Cardinality(Upto(j))
    BY DEF Rank
  <2> HIDE DEF Upto
  <2>5. Cardinality(Upto(i)) \in Nat /\ Cardinality(Upto(j)) \in Nat
    BY <1>4
  <2> QED BY <2>2, <2>3, <2>4, <2>5
<1> QED BY <1>2, <1>5, <1>6

LEMMA EveryRank ==
    ASSUME TypeOK, OnceEach, NEW gone \in SUBSET Clients
    PROVE  /\ \A i, j \in Kept(gone) : Rank(gone, i) = Rank(gone, j) => i = j
           /\ \A k \in 1..Cardinality(Kept(gone)) : \E i \in Kept(gone) : Rank(gone, i) = k
<1> DEFINE K == Kept(gone)
           C == Cardinality(K)
           f == [i \in K |-> Rank(gone, i)]
<1>1. IsFiniteSet(K) /\ C \in Nat /\ IsFiniteSet(1..C) /\ Cardinality(1..C) = C
  BY Ranks, FS_Interval
<1>2. \A i, j \in K : Rank(gone, i) = Rank(gone, j) => i = j
  <2>1. \A i \in K : i \in Nat
    BY Positions DEF Kept
  <2>2. \A i, j \in K : i # j => i < j \/ j < i
    BY <2>1
  <2>3. \A i \in K : Rank(gone, i) \in Nat
    BY Ranks
  <2> QED BY <2>2, <2>3, Ranks
<1>3. f \in Injection(K, 1..C)
  <2>1. f \in [K -> 1..C]
    BY Ranks
  <2> QED BY <2>1, <1>2 DEF Injection, IsInjective
<1>4. f \in Surjection(K, 1..C)
  BY <1>1, <1>3, FS_Injection
<1> QED BY <1>2, <1>4 DEF Surjection

(* What is left: everybody else, once, and none further up than by the     *)
(* number of clients that went.                                            *)
LEMMA WithoutIs ==
    ASSUME TypeOK, OnceEach, NEW gone \in SUBSET Clients
    PROVE  /\ Without(gone) \in Seq(Clients)
           /\ \A i, j \in DOMAIN Without(gone) :
                  Without(gone)[i] = Without(gone)[j] => i = j
           /\ \A k \in DOMAIN Without(gone) : \E i \in DOMAIN connections :
                  /\ Without(gone)[k] = connections[i] /\ connections[i] \notin gone
                  /\ k <= i /\ i <= k + Removed(gone)
           /\ ToSet(Without(gone)) = ToSet(connections) \ gone
<1> DEFINE K == Kept(gone)
           C == Cardinality(K)
           at(k) == CHOOSE i \in K : Rank(gone, i) = k
           W == Without(gone)
<1>1. W = [k \in 1..C |-> connections[at(k)]]
  BY DEF Without, Kept, Rank
<1>2. C \in Nat
  BY Ranks
<1>3. ASSUME NEW k \in 1..C PROVE at(k) \in K /\ Rank(gone, at(k)) = k
  BY EveryRank
<1>4. \A i \in K : i \in DOMAIN connections /\ connections[i] \notin gone
                   /\ connections[i] \in Clients
  BY Positions DEF Kept
<1>5. W \in [1..C -> Clients]
  BY <1>1, <1>3, <1>4
<1>6. W \in Seq(Clients) /\ DOMAIN W = 1..C
  BY <1>2, <1>5
<1>7. ASSUME NEW k \in 1..C, NEW m \in 1..C, W[k] = W[m] PROVE k = m
  <2>1. connections[at(k)] = connections[at(m)]
    BY <1>1, <1>7
  <2>2. at(k) = at(m)
    BY <1>3, <1>4, <2>1 DEF OnceEach
  <2> QED BY <1>3, <2>2
<1>8. ASSUME NEW k \in 1..C
      PROVE  /\ at(k) \in DOMAIN connections
             /\ W[k] = connections[at(k)] /\ connections[at(k)] \notin gone
             /\ k <= at(k) /\ at(k) <= k + Removed(gone)
  BY <1>1, <1>3, <1>4, Ranks
<1>9. ToSet(W) = ToSet(connections) \ gone
  <2>1. ToSet(W) = {W[k] : k \in 1..C}
    BY <1>6 DEF ToSet
  <2>2. ASSUME NEW c \in ToSet(connections) \ gone PROVE c \in ToSet(W)
    <3>1. PICK i \in DOMAIN connections : connections[i] = c
      BY Positions
    <3>2. i \in K
      BY <2>2, <3>1 DEF Kept
    <3>3. Rank(gone, i) \in 1..C
      BY <3>2, Ranks
    <3>4. at(Rank(gone, i)) = i
      BY <1>3, <3>2, <3>3, EveryRank
    <3> QED BY <1>8, <2>1, <3>1, <3>3, <3>4
  <2>3. ASSUME NEW c \in ToSet(W) PROVE c \in ToSet(connections) \ gone
    <3>1. PICK k \in 1..C : W[k] = c
      BY <2>1
    <3>2. at(k) \in DOMAIN connections /\ c = connections[at(k)] /\ c \notin gone
      BY <1>8, <3>1
    <3> QED BY <3>2, Positions
  <2> QED BY <2>2, <2>3
<1> QED BY <1>6, <1>7, <1>8, <1>9

(* Of the clients of a set, those that lie before position p.              *)
Before(S, list, p) == {c \in S : \E i \in DOMAIN list : i < p /\ list[i] = c}

(* When clients go, one client more at most, for each of them, comes to    *)
(* lie before a position.                                                  *)
LEMMA Skips ==
    ASSUME TypeOK, OnceEach, NEW gone \in SUBSET Clients, NEW S \in SUBSET Clients,
           NEW p \in Nat
    PROVE  /\ Cardinality(Before(S, Without(gone), p)) \in Nat
           /\ Cardinality(Before(S, connections, p)) \in Nat
           /\ Cardinality(Before(S, Without(gone), p))
                  <= Cardinality(Before(S, connections, p)) + Removed(gone)
<1> DEFINE D == Before(S, connections, p)
           E == Before(S, Without(gone), p)
           m == Removed(gone)
           at(c) == CHOOSE i \in DOMAIN connections : connections[i] = c
           f == [c \in E \ D |-> at(c)]
           I == p..(p + m - 1)
<1>1. D \subseteq Clients /\ E \subseteq Clients /\ m \in Nat
  BY RemovedType DEF Before
<1>2. /\ IsFiniteSet(D) /\ Cardinality(D) \in Nat
      /\ IsFiniteSet(E) /\ Cardinality(E) \in Nat
      /\ IsFiniteSet(E \ D) /\ Cardinality(E \ D) \in Nat
      /\ IsFiniteSet(E \cap D) /\ Cardinality(E \cap D) \in Nat
  <2>1. E \ D \subseteq Clients /\ E \cap D \subseteq Clients
    BY <1>1
  <2> QED BY <1>1, <2>1, Constant, PartOfFinite
<1>3. ASSUME NEW c \in E \ D
      PROVE  at(c) \in I /\ at(c) \in DOMAIN connections /\ connections[at(c)] = c
  <2>1. PICK k \in DOMAIN Without(gone) : k < p /\ Without(gone)[k] = c
    BY <1>3 DEF Before
  <2>2. PICK i \in DOMAIN connections : c = connections[i] /\ i <= k + m
    BY <2>1, WithoutIs
  <2>3. ~(i < p)
    BY <1>3, <2>2 DEF Before
  <2>4. at(c) \in DOMAIN connections /\ connections[at(c)] = c
    BY <2>2
  <2>5. at(c) = i
    BY <2>2, <2>4 DEF OnceEach
  <2>6. i \in Nat /\ k \in Nat
    BY Positions, WithoutIs
  <2>7. i \in I
    BY <1>1, <2>1, <2>2, <2>3, <2>6
  <2> QED BY <2>4, <2>5, <2>7
<1>4. f \in Injection(E \ D, I)
  <2>1. f \in [E \ D -> I]
    BY <1>3
  <2>2. \A c, d \in E \ D : f[c] = f[d] => c = d
    BY <1>3
  <2> QED BY <2>1, <2>2 DEF Injection, IsInjective
<1>5. IsFiniteSet(I) /\ Cardinality(I) = m
  <2>1. p \in Int /\ p + m - 1 \in Int
    BY <1>1
  <2>2. IsFiniteSet(I) /\ Cardinality(I) = IF p > p + m - 1 THEN 0 ELSE (p + m - 1) - p + 1
    BY <2>1, FS_Interval
  <2> HIDE DEF I
  <2> QED BY <1>1, <2>2
<1>6. Cardinality(E \ D) <= m
  BY <1>4, <1>5, FS_Injection
<1>7. Cardinality(E \cap D) <= Cardinality(D)
  BY <1>2, PartOfFinite
<1>8. Cardinality(E) = Cardinality(E \cap D) + Cardinality(E \ D)
  <2>1. E \ (E \cap D) = E \ D
    OBVIOUS
  <2> QED BY <1>2, <2>1, Split
<1> HIDE DEF D, E, m
<1>9. Cardinality(E) <= Cardinality(D) + m
  BY <1>1, <1>2, <1>6, <1>7, <1>8
<1> QED BY <1>2, <1>9 DEF D, E, m

-----------------------------------------------------------------------------
(* The invariant.                                                          *)

(* Open connections are in the list; who has not come yet, or was          *)
(* forgotten, is in none.                                                  *)
Listed ==
    /\ \A c \in Clients : link[c] = "open" => c \in ToSet(connections)
    /\ \A c \in Clients : link[c] \in {"new", "closed"} =>
           c \notin ToSet(connections) /\ \A s \in Senders : c \notin subscriptions[s]

(* The connections that a job of phase and contents j knows are no news.   *)
JobSound(j, links) ==
    /\ \A c \in j.dead : links[c] \notin {"new", "open"}
    /\ j.to # NoClient => links[j.to] # "new"
    /\ j.phase # "broadcast" => j.pos = 1
    /\ j.phase \in {"idle", "cancelled"} => j.to = NoClient

JobsSound ==
    \A s \in Senders :
        /\ JobSound(job[s], link)
        /\ \A c \in owed[s] : link[c] = "open"

(* The clients that are owed a message and already lie behind the loop.    *)
Skipped(s) == Before(owed[s], connections, job[s].pos)

SkippedFew ==
    \A s \in Senders :
        job[s].phase = "broadcast" => Cardinality(Skipped(s)) <= departures[s]

Inv == TypeOK /\ OnceEach /\ Listed /\ JobsSound /\ SkippedFew

LEMMA JobIs ==
    ASSUME NEW j \in Job
    PROVE  /\ j.phase \in {"idle", "cancelled", "subscribers", "broadcast"}
           /\ j.to \in Clients \cup {NoClient}
           /\ j.todo \subseteq Clients
           /\ j.attached \in BOOLEAN
           /\ j.pos \in Nat /\ j.pos \in 1..Cardinality(Clients) + 1
           /\ j.dead \subseteq Clients
BY Constant DEF Job

LEMMA IdleType == Idle \in Job
<1>1. 1 \in 1..Cardinality(Clients) + 1
  BY Constant
<1> QED BY <1>1 DEF Idle, Job

LEMMA JobType == ASSUME TypeOK, NEW s \in Senders PROVE job[s] \in Job
BY DEF TypeOK

(* A list without repetition is no longer than there are clients.          *)
LEMMA Short == ASSUME TypeOK, OnceEach PROVE Len(connections) <= Cardinality(Clients)
<1>1. connections \in [1..Len(connections) -> Clients]
  BY DEF TypeOK
<1>2. connections \in Injection(1..Len(connections), Clients)
  BY <1>1, Positions DEF Injection, IsInjective, OnceEach
<1>3. Cardinality(1..Len(connections)) = Len(connections)
  BY Positions, FS_Interval
<1> QED BY <1>2, <1>3, Constant, FS_Injection

LEMMA InvInit == Init => Inv
<1> SUFFICES ASSUME Init PROVE Inv
  OBVIOUS
<1>1. connections = <<>> /\ connections \in Seq(Clients) /\ DOMAIN connections = {}
  BY DEF Init
<1>2. TypeOK
  BY <1>1, IdleType DEF Init, TypeOK
<1>3. ToSet(connections) = {}
  BY <1>1 DEF ToSet
<1>4. OnceEach /\ Listed
  BY <1>1, <1>3 DEF Init, OnceEach, Listed
<1>5. JobsSound /\ SkippedFew
  BY DEF Init, Idle, JobsSound, JobSound, SkippedFew
<1> QED BY <1>2, <1>4, <1>5 DEF Inv

-----------------------------------------------------------------------------
(* Clients are forgotten.                                                  *)

LEMMA DetachedType ==
    ASSUME NEW j \in Job, NEW b \in BOOLEAN
    PROVE  /\ [j EXCEPT !.attached = b] \in Job
           /\ \A links : JobSound(j, links) => JobSound([j EXCEPT !.attached = b], links)
           /\ [j EXCEPT !.attached = b].phase = j.phase
           /\ [j EXCEPT !.attached = b].pos = j.pos
<1>1. [j EXCEPT !.attached = b] \in Job
  BY DEF Job
<1>2. /\ [j EXCEPT !.attached = b].phase = j.phase /\ [j EXCEPT !.attached = b].pos = j.pos
      /\ [j EXCEPT !.attached = b].dead = j.dead /\ [j EXCEPT !.attached = b].to = j.to
  BY DEF Job
<1> QED BY <1>1, <1>2 DEF JobSound

LEMMA DisconnectJobs ==
    ASSUME NEW gone, NEW jobs \in [Senders -> Job], NEW entries,
           Disconnect(gone, jobs, entries)
    PROVE  /\ job' \in [Senders -> Job]
           /\ \A s \in Senders :
                  /\ \A links : JobSound(jobs[s], links) => JobSound(job'[s], links)
                  /\ job'[s].phase = jobs[s].phase /\ job'[s].pos = jobs[s].pos
<1> DEFINE b(s) == jobs[s].attached /\ (gone = {} \/ entries[s] \ gone # {})
<1>1. job' = [s \in Senders |-> [jobs[s] EXCEPT !.attached = b(s)]]
  BY DEF Disconnect
<1>2. \A s \in Senders : b(s) \in BOOLEAN
  OBVIOUS
<1> HIDE DEF b
<1>3. ASSUME NEW s \in Senders
      PROVE  /\ job'[s] \in Job
             /\ \A links : JobSound(jobs[s], links) => JobSound(job'[s], links)
             /\ job'[s].phase = jobs[s].phase /\ job'[s].pos = jobs[s].pos
  <2>1. jobs[s] \in Job /\ b(s) \in BOOLEAN /\ job'[s] = [jobs[s] EXCEPT !.attached = b(s)]
    BY <1>1, <1>2
  <2> QED BY <2>1, DetachedType
<1>4. job' \in [Senders -> Job]
  BY <1>1, <1>3
<1> QED BY <1>3, <1>4

LEMMA Forgets ==
    ASSUME Inv,
           NEW gone \in SUBSET Clients,
           NEW jobs \in [Senders -> Job],
           NEW entries \in [Senders -> SUBSET Clients],
           \A s \in Senders : entries[s] \subseteq subscriptions[s],
           Disconnect(gone, jobs, entries),
           link' \in [Clients -> {"new", "open", "broken", "closed"}],
           \A c \in Clients : link'[c] = "open" => link[c] = "open" /\ c \notin gone,
           \A c \in Clients : link'[c] \in {"new", "closed"} =>
               c \in gone \/ link[c] \in {"new", "closed"},
           owed' \in [Senders -> SUBSET Clients],
           \A s \in Senders : \A c \in owed'[s] : c \in owed[s] /\ link'[c] = "open",
           \A s \in Senders : JobSound(jobs[s], link'),
           \A s \in Senders : jobs[s].phase = "broadcast" =>
               job[s].phase = "broadcast" /\ jobs[s].pos = job[s].pos
    PROVE  Inv'
<1>0. /\ job' \in [Senders -> Job]
      /\ \A s \in Senders :
             /\ JobSound(jobs[s], link') => JobSound(job'[s], link')
             /\ job'[s].phase = jobs[s].phase /\ job'[s].pos = jobs[s].pos
  BY ONLY Disconnect(gone, jobs, entries), jobs \in [Senders -> Job], DisconnectJobs
<1>1. TypeOK /\ OnceEach
  BY DEF Inv
<1>2. /\ connections' = Without(gone)
      /\ subscriptions' = [s \in Senders |-> entries[s] \ gone]
      /\ departures' = [s \in Senders |->
             IF jobs[s].phase = "broadcast" THEN departures[s] + Removed(gone) ELSE 0]
  BY DEF Disconnect, Removed
<1>3. Removed(gone) \in Nat
  BY <1>1, RemovedType
<1>4. TypeOK'
  <2>1. connections' \in Seq(Clients)
    BY <1>1, <1>2, WithoutIs
  <2>2. subscriptions' \in [Senders -> SUBSET Clients]
    BY <1>2
  <2>3. departures' \in [Senders -> Nat]
    BY <1>1, <1>2, <1>3 DEF TypeOK
  <2> QED BY <2>1, <2>2, <2>3, <1>0 DEF TypeOK
<1>5. OnceEach'
  <2>1. \A i, j \in DOMAIN Without(gone) : Without(gone)[i] = Without(gone)[j] => i = j
    BY <1>1, WithoutIs
  <2> QED BY <1>2, <2>1 DEF OnceEach
<1>6. Listed'
  <2>1. ToSet(connections') = ToSet(connections) \ gone
    BY <1>1, <1>2, WithoutIs
  <2>2. ASSUME NEW c \in Clients, link'[c] = "open" PROVE c \in ToSet(connections')
    BY <2>1, <2>2 DEF Inv, Listed
  <2>3. ASSUME NEW c \in Clients, link'[c] \in {"new", "closed"}
        PROVE  c \notin ToSet(connections') /\ \A s \in Senders : c \notin subscriptions'[s]
    BY <1>2, <2>1, <2>3 DEF Inv, Listed
  <2> QED BY <2>2, <2>3 DEF Listed
<1>7. JobsSound'
  BY <1>0 DEF JobsSound
<1>8. SkippedFew'
  <2> SUFFICES ASSUME NEW s \in Senders, job'[s].phase = "broadcast"
               PROVE  Cardinality(Skipped(s)') <= departures'[s]
    BY DEF SkippedFew
  <2> DEFINE p == job[s].pos
             E == Before(owed[s], Without(gone), p)
             D == Before(owed[s], connections, p)
  <2>1. jobs[s].phase = "broadcast" /\ job[s].phase = "broadcast" /\ job'[s].pos = p
    <3>1. job'[s].phase = jobs[s].phase /\ job'[s].pos = jobs[s].pos
      BY <1>0
    <3> QED BY <3>1
  <2>2. p \in Nat /\ owed[s] \in SUBSET Clients /\ departures[s] \in Nat
    BY <1>1, JobType, JobIs DEF TypeOK
  <2>3. /\ Cardinality(E) \in Nat /\ Cardinality(D) \in Nat
        /\ Cardinality(E) <= Cardinality(D) + Removed(gone)
    BY <1>1, <2>2, Skips
  <2>4. Cardinality(D) <= departures[s]
    BY <2>1 DEF Inv, SkippedFew, Skipped
  <2>5. departures'[s] = departures[s] + Removed(gone)
    BY <1>2, <2>1
  <2>6. Skipped(s)' \subseteq E /\ E \subseteq Clients
    BY <1>2, <2>1, <2>2 DEF Skipped, Before
  <2>7. Cardinality(Skipped(s)') \in Nat /\ Cardinality(Skipped(s)') <= Cardinality(E)
    <3>1. IsFiniteSet(E)
      BY <2>6, Constant, PartOfFinite
    <3> QED BY <2>6, <3>1, PartOfFinite
  <2> HIDE DEF E, D
  <2> QED BY <1>3, <2>2, <2>3, <2>4, <2>5, <2>7
<1> QED BY <1>4, <1>5, <1>6, <1>7, <1>8 DEF Inv

-----------------------------------------------------------------------------
(* The endpoint.                                                           *)

LEMMA ConnectKeeps ==
    ASSUME Inv, NEW c \in Clients, Connect(c)
    PROVE  Inv'
<1>1. /\ link[c] = "new" /\ link' = [link EXCEPT ![c] = "open"]
      /\ connections' = Append(connections, c)
      /\ UNCHANGED <<subscriptions, job, owed, departures>>
  BY DEF Connect
<1>2. TypeOK /\ link \in [Clients -> {"new", "open", "broken", "closed"}]
      /\ connections \in Seq(Clients)
  BY DEF Inv, TypeOK
<1>3. c \notin ToSet(connections)
  BY <1>1 DEF Inv, Listed
<1> DEFINE n == Len(connections)
<1>4. /\ n \in Nat /\ DOMAIN connections = 1..n /\ DOMAIN connections' = 1..n + 1
      /\ connections' \in Seq(Clients)
      /\ \A i \in 1..n : connections'[i] = connections[i]
      /\ connections'[n + 1] = c
  BY <1>1, <1>2
<1> HIDE DEF n
<1>5. \A i \in 1..n : connections[i] # c
  BY <1>2, <1>3, <1>4, Positions
<1>6. \A i \in 1..n + 1 : i \in 1..n \/ i = n + 1
  BY <1>4
<1>7. TypeOK'
  BY <1>1, <1>2, <1>4 DEF TypeOK
<1>8. OnceEach'
  <2>1. \A i, j \in 1..n : connections[i] = connections[j] => i = j
    BY <1>4 DEF Inv, OnceEach
  <2>2. \A i, j \in 1..n + 1 : connections'[i] = connections'[j] => i = j
    BY <1>4, <1>5, <1>6, <2>1
  <2> QED BY <1>4, <2>2 DEF OnceEach
<1>9. ToSet(connections') = ToSet(connections) \cup {c}
  <2>1. ToSet(connections) = {connections[i] : i \in 1..n}
    BY <1>4 DEF ToSet
  <2>2. ToSet(connections') = {connections'[i] : i \in 1..n + 1}
    BY <1>4 DEF ToSet
  <2>3. 1..n \subseteq 1..n + 1 /\ n + 1 \in 1..n + 1
    BY <1>4
  <2> QED BY <1>4, <1>6, <2>1, <2>2, <2>3
<1>10. Listed'
  BY <1>1, <1>2, <1>9 DEF Inv, Listed
<1>11. JobsSound'
  BY <1>1, <1>2, JobType, JobIs DEF Inv, JobsSound, JobSound
<1>12. SkippedFew'
  <2>1. ASSUME NEW s \in Senders PROVE Skipped(s)' = Skipped(s)
    <3>1. c \notin owed[s]
      BY <1>1 DEF Inv, JobsSound
    <3>2. \A p : Before(owed[s], connections', p) = Before(owed[s], connections, p)
      BY <1>4, <1>6, <3>1 DEF Before
    <3> QED BY <1>1, <3>2 DEF Skipped
  <2> QED BY <1>1, <2>1 DEF Inv, SkippedFew
<1> QED BY <1>7, <1>8, <1>10, <1>11, <1>12 DEF Inv

LEMMA LeavesKeeps ==
    ASSUME Inv, NEW c \in Clients, BrowserLeaves(c)
    PROVE  Inv'
<1>1. /\ link[c] = "open" /\ link' = [link EXCEPT ![c] = "broken"]
      /\ owed' = [s \in Senders |-> owed[s] \ {c}]
      /\ UNCHANGED <<connections, subscriptions, job, departures>>
  BY DEF BrowserLeaves
<1>2. TypeOK /\ link \in [Clients -> {"new", "open", "broken", "closed"}]
      /\ owed \in [Senders -> SUBSET Clients]
  BY DEF Inv, TypeOK
<1>3. TypeOK'
  BY <1>1, <1>2 DEF TypeOK
<1>4. OnceEach' /\ Listed'
  BY <1>1, <1>2 DEF Inv, OnceEach, Listed
<1>5. JobsSound'
  BY <1>1, <1>2, JobType, JobIs DEF Inv, JobsSound, JobSound
<1>6. SkippedFew'
  <2> SUFFICES ASSUME NEW s \in Senders, job'[s].phase = "broadcast"
               PROVE  Cardinality(Skipped(s)') <= departures'[s]
    BY DEF SkippedFew
  <2>1. Skipped(s)' \subseteq Skipped(s) /\ Skipped(s) \subseteq Clients
    BY <1>1, <1>2 DEF Skipped, Before
  <2>2. /\ IsFiniteSet(Skipped(s)) /\ Cardinality(Skipped(s)) \in Nat
    BY <2>1, Constant, PartOfFinite
  <2>3. Cardinality(Skipped(s)') \in Nat /\ Cardinality(Skipped(s)') <= Cardinality(Skipped(s))
    BY <2>1, <2>2, PartOfFinite
  <2>4. Cardinality(Skipped(s)) <= departures[s] /\ departures[s] \in Nat
    BY <1>1, <1>2 DEF Inv, SkippedFew, TypeOK
  <2> QED BY <1>1, <2>2, <2>3, <2>4
<1> QED BY <1>3, <1>4, <1>5, <1>6 DEF Inv

LEMMA EndpointKeeps ==
    ASSUME Inv, NEW c \in Clients, EndpointEnds(c)
    PROVE  Inv'
<1>1. /\ link[c] = "broken" /\ link' = [link EXCEPT ![c] = "closed"]
      /\ Disconnect({c}, job, subscriptions) /\ UNCHANGED owed
  BY DEF EndpointEnds
<1>2. /\ link \in [Clients -> {"new", "open", "broken", "closed"}]
      /\ owed \in [Senders -> SUBSET Clients]
      /\ job \in [Senders -> Job]
      /\ subscriptions \in [Senders -> SUBSET Clients]
  BY DEF Inv, TypeOK
<1>3. link' \in [Clients -> {"new", "open", "broken", "closed"}]
  BY <1>1, <1>2
<1>4. /\ \A d \in Clients : link'[d] = "open" => link[d] = "open" /\ d \notin {c}
      /\ \A d \in Clients : link'[d] \in {"new", "closed"} =>
             d \in {c} \/ link[d] \in {"new", "closed"}
  BY <1>1, <1>2
<1>5. \A s \in Senders : \A d \in owed'[s] : d \in owed[s] /\ link'[d] = "open"
  BY <1>1, <1>2 DEF Inv, JobsSound
<1>6. \A s \in Senders : JobSound(job[s], link')
  BY <1>1, <1>2, JobIs DEF Inv, JobsSound, JobSound
<1>7. owed' \in [Senders -> SUBSET Clients]
  BY <1>1, <1>2
<1> DEFINE gone == {c}
<1>8. gone \in SUBSET Clients /\ Disconnect(gone, job, subscriptions)
  BY <1>1
<1>9. /\ \A d \in Clients : link'[d] = "open" => link[d] = "open" /\ d \notin gone
      /\ \A d \in Clients : link'[d] \in {"new", "closed"} =>
             d \in gone \/ link[d] \in {"new", "closed"}
  BY <1>4
<1> HIDE DEF gone
<1> QED BY <1>2, <1>3, <1>5, <1>6, <1>7, <1>8, <1>9, Forgets

LEMMA SubscribedKeeps ==
    ASSUME Inv, NEW c \in Clients, NEW s \in Senders, Subscribe(c, s) \/ Unsubscribe(c, s)
    PROVE  Inv'
<1>1. /\ Connected(c)
      /\ \/ subscriptions' = [subscriptions EXCEPT ![s] = @ \cup {c}]
         \/ subscriptions' = [subscriptions EXCEPT ![s] = @ \ {c}]
      /\ UNCHANGED <<link, connections, job, owed, departures>>
  BY DEF Subscribe, Unsubscribe
<1>2. subscriptions \in [Senders -> SUBSET Clients]
  BY DEF Inv, TypeOK
<1>3. /\ subscriptions' \in [Senders -> SUBSET Clients]
      /\ \A q \in Senders : subscriptions'[q] \subseteq subscriptions[q] \cup {c}
  BY <1>1, <1>2
<1>4. TypeOK'
  BY <1>1, <1>3 DEF Inv, TypeOK
<1>5. OnceEach' /\ JobsSound' /\ SkippedFew'
  BY <1>1 DEF Inv, OnceEach, JobsSound, SkippedFew, Skipped
<1>6. Listed'
  BY <1>1, <1>3 DEF Inv, Listed, Connected
<1> QED BY <1>4, <1>5, <1>6 DEF Inv

-----------------------------------------------------------------------------
(* The senders.                                                            *)

(* What a sender goes on with: the job it has, or a new one.               *)
Ready(s, j) ==
    /\ j \in Job
    /\ j.phase \in {"subscribers", "broadcast"}
    /\ JobSound(j, link)
    /\ j.phase = "broadcast" <=> job[s].phase = "broadcast"
    /\ j.phase = "broadcast" => j.pos = job[s].pos

(* The subscriptions it leaves: no new ones.                               *)
Shrunk(entries) ==
    /\ entries \in [Senders -> SUBSET Clients]
    /\ \A s \in Senders : entries[s] \subseteq subscriptions[s]

LEMMA AheadIs ==
    ASSUME TypeOK, NEW p \in Nat \ {0}
    PROVE  /\ Ahead(p) \subseteq DOMAIN connections
           /\ \A i \in Ahead(p) : p <= i /\ Connected(connections[i])
           /\ \A i \in DOMAIN connections : p <= i /\ Connected(connections[i]) => i \in Ahead(p)
           /\ Ahead(p) # {} =>
                  Min(Ahead(p)) \in Ahead(p) /\ \A i \in Ahead(p) : Min(Ahead(p)) <= i
<1>1. Len(connections) \in Nat /\ DOMAIN connections = 1..Len(connections)
  BY Positions
<1>2. \A i \in Ahead(p) : i \in p..Len(connections) /\ Connected(connections[i])
  BY DEF Ahead
<1>3. Ahead(p) \in SUBSET Nat /\ Ahead(p) \subseteq DOMAIN connections
  BY <1>1, <1>2
<1>4. \A i \in DOMAIN connections : p <= i /\ Connected(connections[i]) => i \in Ahead(p)
  BY <1>1 DEF Ahead
<1>5. \A i \in Ahead(p) : p <= i
  BY <1>1, <1>2
<1> QED BY <1>2, <1>3, <1>4, <1>5, Least

(* The open connections that lie ahead of the loop do not before the one   *)
(* it comes to next.                                                       *)
LEMMA NoneBetween ==
    ASSUME TypeOK, NEW p \in Nat \ {0}, Ahead(p) # {},
           NEW S \in SUBSET Clients, \A c \in S : link[c] = "open"
    PROVE  Before(S \ {connections[Min(Ahead(p))]}, connections, Min(Ahead(p)) + 1)
               \subseteq Before(S, connections, p)
<1> DEFINE i == Min(Ahead(p))
<1>1. i \in DOMAIN connections /\ i \in Nat
  BY AheadIs, Positions
<1>2. \A k \in Ahead(p) : i <= k
  BY AheadIs
<1> HIDE DEF i
<1>3. ASSUME NEW c \in Before(S \ {connections[i]}, connections, i + 1)
      PROVE  c \in Before(S, connections, p)
  <2>1. PICK k \in DOMAIN connections : k < i + 1 /\ connections[k] = c
    BY <1>3 DEF Before
  <2>2. c \in S /\ c # connections[i]
    BY <1>3 DEF Before
  <2>3. k \in Nat /\ k # i /\ k < i
    BY <1>1, <2>1, <2>2, Positions
  <2>4. Connected(connections[k])
    BY <2>1, <2>2 DEF Connected
  <2>5. k \notin Ahead(p)
    BY <1>1, <1>2, <2>3
  <2>6. k < p
    BY <2>1, <2>3, <2>4, <2>5, AheadIs
  <2> QED BY <2>1, <2>2, <2>6 DEF Before
<1> QED BY <1>3 DEF i

LEMMA ShrunkListed ==
    ASSUME Listed, NEW entries, Shrunk(entries), subscriptions' = entries,
           UNCHANGED <<link, connections>>
    PROVE  Listed'
BY DEF Listed, Shrunk

LEMMA ToSubscriberKeeps ==
    ASSUME Inv, NEW s \in Senders, NEW j, NEW entries, Ready(s, j), Shrunk(entries),
           ToSubscriber(s, j, entries), UNCHANGED link
    PROVE  Inv' /\ job'[s].phase = j.phase
<1>1. PICK c \in j.todo :
          /\ Connected(c)
          /\ job' = [job EXCEPT ![s] = [j EXCEPT !.to = c, !.todo = @ \ {c}]]
  BY DEF ToSubscriber
<1>2. subscriptions' = entries /\ UNCHANGED <<link, connections, owed, departures>>
  BY DEF ToSubscriber
<1>3. j \in Job /\ c \in Clients /\ j.todo \ {c} \in SUBSET Clients /\ JobSound(j, link)
  BY JobIs DEF Ready
<1> DEFINE left == j.todo \ {c}
           k == [j EXCEPT !.to = c, !.todo = left]
<1>4. k \in Job /\ k.to = c /\ k.phase = j.phase /\ k.pos = j.pos /\ k.dead = j.dead
  <2>1. left \in SUBSET Clients
    BY <1>3
  <2> HIDE DEF left
  <2> QED BY <1>3, <2>1 DEF Job
<1>5. job' = [job EXCEPT ![s] = k] /\ job \in [Senders -> Job]
  BY <1>1 DEF Inv, TypeOK
<1> HIDE DEF k, left
<1>6. job'[s] = k /\ \A q \in Senders \ {s} : job'[q] = job[q]
  BY <1>5
<1>7. TypeOK'
  BY <1>2, <1>4, <1>5 DEF Inv, TypeOK, Shrunk
<1>8. OnceEach' /\ Listed'
  BY <1>2, ShrunkListed DEF Inv, OnceEach
<1>9. JobSound(k, link)
  BY <1>1, <1>3, <1>4 DEF JobSound, Connected, Ready
<1>10. JobsSound'
  BY <1>2, <1>6, <1>9 DEF Inv, JobsSound
<1>11. SkippedFew'
  <2>1. ASSUME NEW q \in Senders, job'[q].phase = "broadcast"
        PROVE  job[q].phase = "broadcast" /\ job'[q].pos = job[q].pos
    BY <1>4, <1>6, <2>1 DEF Ready
  <2> QED BY <1>2, <2>1 DEF Inv, SkippedFew, Skipped
<1> QED BY <1>4, <1>6, <1>7, <1>8, <1>10, <1>11 DEF Inv

LEMMA ToConnectionKeeps ==
    ASSUME Inv, NEW s \in Senders, NEW j, NEW entries, Ready(s, j), Shrunk(entries),
           ToConnection(s, j, entries), UNCHANGED link
    PROVE  Inv' /\ job'[s].phase = "broadcast"
<1> DEFINE i == Min(Ahead(j.pos))
           open == {c \in ToSet(connections) : link[c] = "open"}
           S == IF j.phase = "subscribers" THEN open ELSE owed[s]
           k == [j EXCEPT !.phase = "broadcast", !.todo = {}, !.attached = FALSE,
                          !.to = connections[i], !.pos = i + 1]
<1>1. /\ Ahead(j.pos) # {}
      /\ job' = [job EXCEPT ![s] = k]
      /\ owed' = [owed EXCEPT ![s] = S \ {connections[i]}]
      /\ subscriptions' = entries
      /\ UNCHANGED <<link, connections, departures>>
  BY DEF ToConnection
<1>2. TypeOK /\ j \in Job /\ j.pos \in Nat \ {0} /\ JobSound(j, link)
  BY JobIs, Constant DEF Ready, Inv
<1>3. i \in DOMAIN connections /\ Connected(connections[i]) /\ connections[i] \in Clients
      /\ i \in Nat
  BY <1>1, <1>2, AheadIs, Positions
<1>4. i + 1 \in 1..Cardinality(Clients) + 1
  BY <1>2, <1>3, Short, Positions, Constant DEF Inv
<1>5. k \in Job /\ k.to = connections[i] /\ k.phase = "broadcast" /\ k.pos = i + 1
      /\ k.dead = j.dead
  <2> DEFINE c == connections[i]
             p == i + 1
  <2>1. c \in Clients /\ p \in 1..Cardinality(Clients) + 1
    BY <1>3, <1>4
  <2>2. k = [j EXCEPT !.phase = "broadcast", !.todo = {}, !.attached = FALSE,
                      !.to = c, !.pos = p]
    OBVIOUS
  <2> HIDE DEF c, p, k
  <2>3. k \in Job /\ k.to = c /\ k.phase = "broadcast" /\ k.pos = p /\ k.dead = j.dead
    BY <1>2, <2>1, <2>2 DEF Job
  <2> QED BY <2>3 DEF c, p
<1>6. S \in SUBSET Clients /\ \A c \in S : link[c] = "open"
  <2>1. open \in SUBSET Clients
    BY <1>2, Positions
  <2>2. owed[s] \in SUBSET Clients /\ \A c \in owed[s] : link[c] = "open"
    BY DEF Inv, TypeOK, JobsSound
  <2> QED BY <2>1, <2>2
<1>7. Before(S \ {connections[i]}, connections, i + 1) \subseteq Before(S, connections, j.pos)
  BY <1>1, <1>2, <1>6, NoneBetween
<1> HIDE DEF k, S, i
<1>8. job \in [Senders -> Job] /\ owed \in [Senders -> SUBSET Clients]
  BY <1>2 DEF TypeOK
<1>9. /\ job'[s] = k /\ owed'[s] = S \ {connections[i]}
      /\ \A q \in Senders \ {s} : job'[q] = job[q] /\ owed'[q] = owed[q]
  BY <1>1, <1>8
<1>10. TypeOK'
  <2>1. job' \in [Senders -> Job] /\ owed' \in [Senders -> SUBSET Clients]
    BY <1>1, <1>5, <1>6, <1>8
  <2> QED BY <1>1, <1>2, <2>1 DEF TypeOK, Shrunk
<1>11. OnceEach' /\ Listed'
  BY <1>1, ShrunkListed DEF Inv, OnceEach
<1>12. JobSound(k, link)
  BY <1>2, <1>3, <1>5 DEF JobSound, Connected
<1>13. JobsSound'
  BY <1>1, <1>6, <1>9, <1>12 DEF Inv, JobsSound
<1>14. SkippedFew'
  <2> SUFFICES ASSUME NEW q \in Senders, job'[q].phase = "broadcast"
               PROVE  Cardinality(Skipped(q)') <= departures'[q]
    BY DEF SkippedFew
  <2>1. CASE q # s
    BY <1>1, <1>9, <2>1 DEF Inv, SkippedFew, Skipped
  <2>2. CASE q = s
    <3>1. Skipped(s)' = Before(S \ {connections[i]}, connections, i + 1)
      BY <1>1, <1>5, <1>9 DEF Skipped
    <3>2. departures'[s] = departures[s] /\ departures[s] \in Nat
      BY <1>1, <1>2 DEF TypeOK
    <3>3. CASE j.phase = "subscribers"
      <4>1. j.pos = 1
        BY <1>2, <3>3 DEF JobSound
      <4>2. \A n \in DOMAIN connections : ~(n < 1)
        BY <1>2, Positions
      <4>3. Before(S, connections, j.pos) = {}
        BY <4>1, <4>2 DEF Before
      <4>4. Skipped(s)' = {}
        BY <1>7, <3>1, <4>3
      <4>5. Cardinality(Skipped(s)') = 0
        BY <4>4, FS_EmptySet
      <4> QED BY <2>2, <3>2, <4>5
    <3>4. CASE j.phase = "broadcast"
      <4>1. job[s].phase = "broadcast" /\ j.pos = job[s].pos
        BY <3>4 DEF Ready
      <4>2. S = owed[s]
        BY <3>4 DEF S
      <4>3. Skipped(s)' \subseteq Skipped(s)
        BY <1>7, <3>1, <4>1, <4>2 DEF Skipped
      <4>4. IsFiniteSet(Skipped(s)) /\ Cardinality(Skipped(s)) \in Nat
        <5>1. Skipped(s) \subseteq Clients
          BY <1>8 DEF Skipped, Before
        <5> QED BY <5>1, Constant, PartOfFinite
      <4>5. Cardinality(Skipped(s)') \in Nat
            /\ Cardinality(Skipped(s)') <= Cardinality(Skipped(s))
        BY <4>3, <4>4, PartOfFinite
      <4>6. Cardinality(Skipped(s)) <= departures[s]
        BY <4>1 DEF Inv, SkippedFew
      <4> QED BY <2>2, <3>2, <4>4, <4>5, <4>6
    <3> QED BY <3>3, <3>4 DEF Ready
  <2> QED BY <2>1, <2>2
<1> QED BY <1>5, <1>9, <1>10, <1>11, <1>13, <1>14 DEF Inv

LEMMA EndsKeeps ==
    ASSUME Inv, NEW s \in Senders, NEW j, NEW entries, Ready(s, j), Shrunk(entries),
           Ends(s, j, entries), UNCHANGED link
    PROVE  Inv'
<1> DEFINE jobs == [job EXCEPT ![s] = Idle]
           gone == j.dead
<1>1. Disconnect(gone, jobs, entries) /\ owed' = [owed EXCEPT ![s] = {}]
  BY DEF Ends
<1>2. /\ link \in [Clients -> {"new", "open", "broken", "closed"}]
      /\ owed \in [Senders -> SUBSET Clients] /\ job \in [Senders -> Job]
      /\ j \in Job /\ JobSound(j, link)
  BY DEF Inv, TypeOK, Ready
<1>3. gone \in SUBSET Clients /\ \A c \in gone : link[c] \notin {"new", "open"}
  BY <1>2, JobIs DEF JobSound
<1>4. jobs \in [Senders -> Job]
  BY <1>2, IdleType
<1>5. jobs[s] = Idle /\ \A q \in Senders \ {s} : jobs[q] = job[q]
  BY <1>2
<1>6. JobSound(Idle, link)
  BY DEF Idle, JobSound
<1>7. \A q \in Senders : JobSound(jobs[q], link')
  BY <1>5, <1>6 DEF Inv, JobsSound
<1>8. \A q \in Senders : jobs[q].phase = "broadcast" =>
          job[q].phase = "broadcast" /\ jobs[q].pos = job[q].pos
  BY <1>5 DEF Idle
<1>9. owed' \in [Senders -> SUBSET Clients]
  BY <1>1, <1>2
<1>10. \A q \in Senders : \A c \in owed'[q] : c \in owed[q] /\ link'[c] = "open"
  BY <1>1, <1>2 DEF Inv, JobsSound
<1>11. /\ link' \in [Clients -> {"new", "open", "broken", "closed"}]
       /\ \A c \in Clients : link'[c] = "open" => link[c] = "open" /\ c \notin gone
       /\ \A c \in Clients : link'[c] \in {"new", "closed"} =>
              c \in gone \/ link[c] \in {"new", "closed"}
  BY <1>2, <1>3
<1>12. entries \in [Senders -> SUBSET Clients]
       /\ \A q \in Senders : entries[q] \subseteq subscriptions[q]
  BY DEF Shrunk
<1> HIDE DEF jobs, gone
<1> QED BY <1>1, <1>3, <1>4, <1>7, <1>8, <1>9, <1>10, <1>11, <1>12, Forgets

(* At the end of a broadcast whoever is still owed the message is behind   *)
(* the loop.                                                               *)
LEMMA EndsCounts ==
    ASSUME Inv, NEW s \in Senders, NEW j, NEW entries, Ready(s, j),
           Ends(s, j, entries), job[s].phase = "broadcast"
    PROVE  Cardinality(owed[s]) <= departures[s]
<1>1. Ahead(j.pos) = {} /\ j.pos = job[s].pos
  BY DEF Ends, Ready
<1>2. TypeOK /\ j.pos \in Nat \ {0}
  BY JobIs, Constant DEF Inv, Ready
<1>3. ASSUME NEW c \in owed[s] PROVE c \in Skipped(s)
  <2>1. c \in Clients /\ link[c] = "open"
    BY <1>2 DEF Inv, TypeOK, JobsSound
  <2>2. PICK i \in DOMAIN connections : connections[i] = c
    BY <1>2, <2>1, Positions DEF Inv, Listed
  <2>3. ~(j.pos <= i)
    BY <1>1, <1>2, <2>1, <2>2, AheadIs DEF Connected
  <2>4. i < j.pos
    BY <1>2, <2>3, Positions
  <2> QED BY <1>1, <2>2, <2>4 DEF Skipped, Before
<1>4. Skipped(s) = owed[s]
  BY <1>3 DEF Skipped, Before
<1> QED BY <1>4 DEF Inv, SkippedFew

LEMMA GoesOnKeeps ==
    ASSUME Inv, NEW s \in Senders, NEW j, NEW entries, Ready(s, j), Shrunk(entries),
           GoesOn(s, j, entries)
    PROVE  /\ Inv'
           /\ job[s].phase = "broadcast" /\ job'[s].phase # "broadcast" =>
                  Cardinality(owed[s]) <= departures[s]
<1>1. UNCHANGED link
  BY DEF GoesOn
<1>2. CASE ToSubscriber(s, j, entries)
  BY <1>1, <1>2, ToSubscriberKeeps DEF Ready
<1>3. CASE ToConnection(s, j, entries)
  BY <1>1, <1>3, ToConnectionKeeps
<1>4. CASE Ends(s, j, entries)
  BY <1>1, <1>4, EndsKeeps, EndsCounts
<1> QED BY <1>2, <1>3, <1>4 DEF GoesOn

(* The jobs with which a sender goes on.                                   *)
LEMMA NewReady ==
    ASSUME Inv, NEW s \in Senders, Free(s),
           NEW j \in Job, j.phase = "subscribers", j.to = NoClient, j.pos = 1, j.dead = {}
    PROVE  Ready(s, j)
BY DEF Ready, JobSound, Free

LEMMA SameReady ==
    ASSUME Inv, NEW s \in Senders, job[s].to # NoClient,
           NEW j \in Job, j.phase = job[s].phase, j.pos = job[s].pos, j.to = NoClient,
           \A c \in j.dead : link[c] \notin {"new", "open"}
    PROVE  Ready(s, j)
<1>1. JobSound(job[s], link) /\ job[s].phase \in {"idle", "cancelled", "subscribers", "broadcast"}
  BY JobType, JobIs DEF Inv, JobsSound
<1>2. j.phase \in {"subscribers", "broadcast"}
  BY <1>1 DEF JobSound
<1>3. JobSound(j, link)
  BY <1>1 DEF JobSound
<1> QED BY <1>2, <1>3 DEF Ready

LEMMA ShrunkNone == ASSUME Inv PROVE Shrunk(subscriptions)
BY DEF Inv, TypeOK, Shrunk

(* What a step of sender s does.                                           *)
Steps(s) ==
    /\ Inv'
    /\ job[s].phase = "broadcast" /\ job'[s].phase = "idle" =>
           Cardinality(owed[s]) <= departures[s]

LEMMA ValueSteps == ASSUME Inv, NEW s \in Senders, SendValue(s) PROVE Steps(s)
<1> DEFINE j == [Idle EXCEPT !.phase = "subscribers", !.todo = subscriptions[s],
                             !.attached = TRUE]
<1>1. Free(s) /\ GoesOn(s, j, subscriptions)
  BY DEF SendValue
<1>2. Idle \in Job /\ Idle.to = NoClient /\ Idle.pos = 1 /\ Idle.dead = {}
  BY IdleType DEF Idle
<1>3. subscriptions[s] \in SUBSET Clients
  BY DEF Inv, TypeOK
<1>4. j \in Job /\ j.phase = "subscribers" /\ j.to = NoClient /\ j.pos = 1 /\ j.dead = {}
  BY <1>2, <1>3 DEF Job
<1> HIDE DEF j
<1>5. Ready(s, j)
  BY <1>1, <1>4, NewReady
<1> QED BY <1>1, <1>5, ShrunkNone, GoesOnKeeps DEF Steps

LEMMA StatusSteps == ASSUME Inv, NEW s \in Senders, SendStatus(s) PROVE Steps(s)
<1> DEFINE j == [Idle EXCEPT !.phase = "subscribers"]
<1>1. Free(s) /\ GoesOn(s, j, subscriptions)
  BY DEF SendStatus
<1>2. Idle \in Job /\ Idle.to = NoClient /\ Idle.pos = 1 /\ Idle.dead = {}
  BY IdleType DEF Idle
<1>3. j \in Job /\ j.phase = "subscribers" /\ j.to = NoClient /\ j.pos = 1 /\ j.dead = {}
  BY <1>2 DEF Job
<1> HIDE DEF j
<1>4. Ready(s, j)
  BY <1>1, <1>3, NewReady
<1> QED BY <1>1, <1>4, ShrunkNone, GoesOnKeeps DEF Steps

LEMMA SentSteps == ASSUME Inv, NEW s \in Senders, Sent(s) PROVE Steps(s)
<1> DEFINE j == [job[s] EXCEPT !.to = NoClient]
<1>1. job[s].to # NoClient /\ GoesOn(s, j, subscriptions)
  BY DEF Sent
<1>2. job[s] \in Job /\ \A c \in job[s].dead : link[c] \notin {"new", "open"}
  BY JobType DEF Inv, JobsSound, JobSound
<1>3. /\ j \in Job /\ j.phase = job[s].phase /\ j.pos = job[s].pos
      /\ j.to = NoClient /\ j.dead = job[s].dead
  BY <1>2 DEF Job
<1> HIDE DEF j
<1>4. Ready(s, j)
  BY <1>1, <1>2, <1>3, SameReady
<1> QED BY <1>1, <1>4, ShrunkNone, GoesOnKeeps DEF Steps

LEMMA FailSteps == ASSUME Inv, NEW s \in Senders, SendFails(s) PROVE Steps(s)
<1> DEFINE c == job[s].to
           j == [job[s] EXCEPT !.to = NoClient]
           k == [j EXCEPT !.dead = @ \cup {c}]
           entries == IF j.attached THEN [subscriptions EXCEPT ![s] = @ \ {c}]
                      ELSE subscriptions
<1>1. /\ c # NoClient /\ link[c] # "open"
      /\ \/ GoesOn(s, j, entries)
         \/ GoesOn(s, k, subscriptions)
  BY DEF SendFails
<1>2. /\ job[s] \in Job /\ c \in Clients /\ link[c] # "new"
      /\ \A d \in job[s].dead : link[d] \notin {"new", "open"}
  BY <1>1, JobType, JobIs DEF Inv, JobsSound, JobSound
<1>3. /\ j \in Job /\ j.phase = job[s].phase /\ j.pos = job[s].pos
      /\ j.to = NoClient /\ j.dead = job[s].dead
  BY <1>2 DEF Job
<1>4. Shrunk(entries)
  BY ShrunkNone DEF Shrunk
<1>5. /\ k \in Job /\ k.phase = j.phase /\ k.pos = j.pos
      /\ k.to = j.to /\ k.dead = j.dead \cup {c}
  <2>1. j \in Job /\ c \in Clients
    BY <1>2, <1>3
  <2> HIDE DEF j, c
  <2> QED BY <2>1 DEF Job
<1> HIDE DEF j, k, entries, c
<1>6. Ready(s, j)
  BY <1>1, <1>2, <1>3, SameReady DEF c
<1>7. \A d \in k.dead : link[d] \notin {"new", "open"}
  BY <1>1, <1>2, <1>3, <1>5
<1>8. Ready(s, k)
  BY <1>1, <1>3, <1>5, <1>7, SameReady DEF c
<1> QED BY <1>1, <1>4, <1>6, <1>8, ShrunkNone, GoesOnKeeps DEF Steps

(* A cancelled sender keeps nothing of its job and forgets nobody.         *)
LEMMA CancelledSteps ==
    ASSUME Inv, NEW s \in Senders, Cancelled(s)
    PROVE  Steps(s) /\ \A q \in Senders \ {s} : job'[q].phase = job[q].phase
<1> DEFINE over == [Idle EXCEPT !.phase = "cancelled"]
           jobs == [job EXCEPT ![s] = over]
           gone == {}
<1>1. Disconnect(gone, jobs, subscriptions) /\ owed' = [owed EXCEPT ![s] = {}] /\ link' = link
  BY DEF Cancelled
<1>2. /\ link \in [Clients -> {"new", "open", "broken", "closed"}]
      /\ owed \in [Senders -> SUBSET Clients]
      /\ job \in [Senders -> Job]
      /\ subscriptions \in [Senders -> SUBSET Clients]
  BY DEF Inv, TypeOK
<1>3. over \in Job /\ over.phase = "cancelled" /\ JobSound(over, link)
  BY IdleType DEF Idle, Job, JobSound
<1>4. jobs \in [Senders -> Job] /\ jobs[s] = over /\ \A q \in Senders \ {s} : jobs[q] = job[q]
  BY <1>2, <1>3
<1> HIDE DEF over, jobs
<1>5. \A q \in Senders : JobSound(jobs[q], link')
  BY <1>1, <1>3, <1>4 DEF Inv, JobsSound
<1>6. \A q \in Senders : jobs[q].phase = "broadcast" =>
          job[q].phase = "broadcast" /\ jobs[q].pos = job[q].pos
  BY <1>3, <1>4
<1>7. owed' \in [Senders -> SUBSET Clients]
      /\ \A q \in Senders : \A c \in owed'[q] : c \in owed[q] /\ link'[c] = "open"
  BY <1>1, <1>2 DEF Inv, JobsSound
<1>8. /\ link' \in [Clients -> {"new", "open", "broken", "closed"}]
      /\ \A c \in Clients : link'[c] = "open" => link[c] = "open" /\ c \notin gone
      /\ \A c \in Clients : link'[c] \in {"new", "closed"} =>
             c \in gone \/ link[c] \in {"new", "closed"}
      /\ gone \in SUBSET Clients
  BY <1>1, <1>2
<1> HIDE DEF gone
<1>9. Inv'
  BY <1>1, <1>2, <1>4, <1>5, <1>6, <1>7, <1>8, Forgets
<1>10. \A q \in Senders : job'[q].phase = jobs[q].phase
  BY <1>1, <1>4, DisconnectJobs
<1> QED BY <1>3, <1>4, <1>9, <1>10 DEF Steps

-----------------------------------------------------------------------------
(* The theorems.                                                           *)

LEMMA BrowserSteps ==
    ASSUME Inv, NEW c \in Clients, Browser(c)
    PROVE  Inv' /\ \A s \in Senders : job'[s].phase = job[s].phase
<1>1. CASE Connect(c)
  BY <1>1, ConnectKeeps DEF Connect
<1>2. CASE BrowserLeaves(c)
  BY <1>2, LeavesKeeps DEF BrowserLeaves
<1>3. CASE EndpointEnds(c)
  <2>1. Disconnect({c}, job, subscriptions) /\ job \in [Senders -> Job]
    BY <1>3 DEF EndpointEnds, Inv, TypeOK
  <2>2. \A s \in Senders : job'[s].phase = job[s].phase
    BY <2>1, DisconnectJobs
  <2> QED BY <1>3, <2>2, EndpointKeeps
<1>4. CASE \E s \in Senders : Subscribe(c, s) \/ Unsubscribe(c, s)
  BY <1>4, SubscribedKeeps DEF Subscribe, Unsubscribe
<1> QED BY <1>1, <1>2, <1>3, <1>4 DEF Browser

LEMMA SenderSteps == ASSUME Inv, NEW s \in Senders, Sender(s) PROVE Steps(s)
BY ValueSteps, StatusSteps, SentSteps, FailSteps, CancelledSteps DEF Sender

(* A sender leaves the phases of the others as they are.                   *)
LEMMA OtherGoesOn ==
    ASSUME Inv, NEW q \in Senders, NEW s \in Senders \ {q}, NEW j, NEW entries,
           GoesOn(q, j, entries)
    PROVE  job'[s].phase = job[s].phase
<1>1. job \in [Senders -> Job]
  BY DEF Inv, TypeOK
<1>2. CASE ToSubscriber(q, j, entries)
  BY <1>1, <1>2 DEF ToSubscriber
<1>3. CASE ToConnection(q, j, entries)
  BY <1>1, <1>3 DEF ToConnection
<1>4. CASE Ends(q, j, entries)
  <2> DEFINE jobs == [job EXCEPT ![q] = Idle]
  <2>1. Disconnect(j.dead, jobs, entries)
    BY <1>4 DEF Ends
  <2>2. jobs \in [Senders -> Job] /\ jobs[s] = job[s]
    BY <1>1, IdleType
  <2> HIDE DEF jobs
  <2>3. job'[s].phase = jobs[s].phase
    BY <2>1, <2>2, DisconnectJobs
  <2> QED BY <2>2, <2>3
<1> QED BY <1>2, <1>3, <1>4 DEF GoesOn

LEMMA OtherSender ==
    ASSUME Inv, NEW q \in Senders, NEW s \in Senders \ {q}, Sender(q)
    PROVE  job'[s].phase = job[s].phase
<1>1. CASE Cancelled(q)
  BY <1>1, CancelledSteps
<1>2. CASE \E j, entries : GoesOn(q, j, entries)
  BY <1>2, OtherGoesOn
<1> QED BY <1>1, <1>2 DEF Sender, SendValue, SendStatus, Sent, SendFails

LEMMA InvNext == Inv /\ [Next]_vars => Inv'
<1> SUFFICES ASSUME Inv, [Next]_vars PROVE Inv'
  OBVIOUS
<1>1. CASE \E c \in Clients : Browser(c)
  BY <1>1, BrowserSteps
<1>2. CASE \E s \in Senders : Sender(s)
  BY <1>2, SenderSteps DEF Steps
<1>3. CASE UNCHANGED vars
  BY <1>3 DEF vars, Inv, TypeOK, OnceEach, Listed, JobsSound, SkippedFew, Skipped
<1> QED BY <1>1, <1>2, <1>3 DEF Next

LEMMA Invariant == Spec => []Inv
<1>1. Init => Inv
  BY InvInit
<1>2. Inv /\ [Next]_vars => Inv'
  BY InvNext
<1> QED BY <1>1, <1>2, PTL DEF Spec

(* The state is well-typed: above all, the place of a broadcast in the     *)
(* list never lies more than one behind the last client there can be,      *)
(* because nobody is in the list twice.                                    *)
THEOREM TypeCorrect == Spec => []TypeOK
<1>1. Inv => TypeOK
  BY DEF Inv
<1> QED BY <1>1, Invariant, PTL

(* A connection that was closed is in no list and in no subscription,      *)
(* whichever of its endpoint and of the broadcasts has removed it first    *)
(* and however late a subscription of it was read.                         *)
THEOREM Forgotten == Spec => []ClosedIsForgotten
<1>1. Inv => ClosedIsForgotten
  BY DEF Inv, Listed, ClosedIsForgotten
<1> QED BY <1>1, Invariant, PTL

(* A broadcast goes through a list that shrinks under it: unless stop()    *)
(* cuts it short, of the clients that were there when it began and have    *)
(* not left, it has missed no more than have been taken off the list       *)
(* meanwhile, however many sends failed.                                   *)
THEOREM MissedFew == Spec => MissedOnePerDeparture
<1>1. Inv /\ [Next]_vars
          => [\A s \in Senders : job[s].phase = "broadcast" /\ job'[s].phase = "idle" =>
                 Cardinality(owed[s]) <= departures[s]]_vars
  <2> SUFFICES ASSUME Inv, Next, NEW s \in Senders,
                      job[s].phase = "broadcast", job'[s].phase = "idle"
               PROVE  Cardinality(owed[s]) <= departures[s]
    OBVIOUS
  <2>1. CASE \E c \in Clients : Browser(c)
    BY <2>1, BrowserSteps
  <2>2. CASE Sender(s)
    BY <2>2, SenderSteps DEF Steps
  <2>3. ASSUME NEW q \in Senders \ {s}, Sender(q) PROVE FALSE
    <3>1. job'[s].phase = job[s].phase
      BY <2>3, OtherSender
    <3> QED BY <3>1
  <2> QED BY <2>1, <2>2, <2>3 DEF Next
<1> QED BY <1>1, Invariant, PTL DEF Spec, MissedOnePerDeparture
=============================================================================

------------------------- MODULE ConfigVersionsProofs -------------------------
(***************************************************************************)
(* What ConfigVersions guarantees for any number of sensors, requests,     *)
(* files and versions.                                                     *)
(***************************************************************************)
EXTENDS ConfigVersions, FiniteSetTheorems, TLAPS

LEMMA Constant ==
    /\ IsFiniteSet(Names)
    /\ Files \subseteq Configs
    /\ Absent \notin Conf \cup Row
    /\ MaxVersions \in Nat
BY ConfigAssumption

(* The numbers in use reach up to k, and nobody has read a higher one than *)
(* the next.                                                               *)
Upto(k) ==
    /\ Numbers = 1..k
    /\ k <= Len(versions)
    /\ \A r \in Requests : request[r].number <= k + 1

(* A number is higher than those of the versions that were known when it   *)
(* was read.                                                               *)
AboveKnown ==
    /\ \A r \in Requests : request[r].known <= Len(versions)
    /\ \A r \in Requests : request[r].number # 0 =>
           \A i \in 1..request[r].known : versions[i].number < request[r].number
    /\ \A j \in 1..Len(versions) : \A i \in 1..Len(versions) :
           i < j /\ i <= versions[j].known => versions[i].number < versions[j].number

Numbering ==
    /\ Len(versions) <= MaxVersions
    /\ \E k \in Nat : Upto(k)
    /\ AboveKnown

Pending == [config : Configs, seen : Seen, skipped : SUBSET Names,
            number : 0..MaxVersions + 1, known : 0..MaxVersions]

-----------------------------------------------------------------------------
(* The numbers.                                                            *)

LEMMA NextIs == ASSUME NEW k \in Nat, Numbers = 1..k PROVE NextNumber = k + 1
<1>1. Numbers \cup {0} = 0..k
      OBVIOUS
<1>2. k \in 0..k /\ \A y \in 0..k : k >= y
      OBVIOUS
<1>3. \A x \in 0..k : (\A y \in 0..k : x >= y) => x = k
      OBVIOUS
<1>4. Max(0..k) = k
      BY <1>2, <1>3 DEF Max
<1>5. QED  BY <1>1, <1>4 DEF NextNumber

LEMMA Appended ==
    ASSUME TypeOK, NEW v \in Version, versions' = Append(versions, v)
    PROVE  /\ Len(versions') = Len(versions) + 1
           /\ \A i \in 1..Len(versions) : versions'[i] = versions[i]
           /\ versions'[Len(versions) + 1] = v
           /\ Numbers' = Numbers \cup {v.number}
<1>1. versions \in Seq(Version) /\ Len(versions) \in Nat /\ DOMAIN versions = 1..Len(versions)
      BY DEF TypeOK
<1>2. /\ Len(versions') = Len(versions) + 1
      /\ \A i \in 1..Len(versions) : versions'[i] = versions[i]
      /\ versions'[Len(versions) + 1] = v
      BY <1>1
<1>3. DOMAIN versions' = 1..(Len(versions) + 1)
      BY <1>1
<1>4. DOMAIN versions' = DOMAIN versions \cup {Len(versions) + 1}
      BY <1>1, <1>3
<1>5. QED  BY <1>1, <1>2, <1>4 DEF Numbers

-----------------------------------------------------------------------------
(* Type correctness, which rests on the numbering.                         *)

LEMMA NoConfigType == NoConfig \in Configs /\ NoConfig \in Seen /\ Idle \in Pending
<1>1. NoConfig \in [{} -> Conf] /\ NoConfig \in [{} -> Conf \cup {Absent}]
      BY DEF NoConfig
<1>2. {} \in SUBSET Names
      OBVIOUS
<1>3. NoConfig \in Configs /\ NoConfig \in Seen
      BY <1>1, <1>2 DEF Configs, Seen
<1>4. QED  BY <1>3, Constant DEF Idle, Pending

LEMMA ExportedType == ASSUME TypeOK, NEW b \in BOOLEAN PROVE Exported(b) \in Configs
<1>1. \A n \in Live : [rows[n].conf EXCEPT !.secret = @ /\ b] \in Conf
  <2> TAKE n \in Live
  <2>1. rows[n].conf \in Conf
        BY DEF TypeOK, Live, Row
  <2>2. QED  BY <2>1 DEF Conf
<1>2. Live \in SUBSET Names
      BY DEF Live
<1>3. Exported(b) \in [Live -> Conf]
      BY <1>1 DEF Exported
<1>4. QED  BY <1>2, <1>3 DEF Configs

LEMMA ResolvedType == ASSUME TypeOK, NEW v PROVE Resolved(v) \in Configs
<1>1. CASE Cardinality(Found(v)) = 1
  <2>1. Found(v) # {}
        BY <1>1, FS_EmptySet
  <2>2. PICK i \in Found(v) : Resolved(v) = versions[i].config
        BY <1>1, <2>1 DEF Resolved
  <2>3. versions[i] \in Version
        BY <2>2 DEF Found, TypeOK
  <2>4. QED  BY <2>2, <2>3 DEF Version
<1>2. CASE Cardinality(Found(v)) # 1
      BY <1>2, NoConfigType DEF Resolved
<1>3. QED  BY <1>1, <1>2

LEMMA WrittenType ==
    ASSUME TypeOK, NEW config \in Configs, NEW seen \in Seen, NEW skipped,
           DOMAIN seen = DOMAIN config,
           \A n \in DOMAIN config : seen[n] # Absent => rows[n] # Absent
    PROVE  Written(config, seen, skipped) \in [Names -> Row \cup {Absent}]
<1> SUFFICES ASSUME NEW n \in Names
             PROVE  Written(config, seen, skipped)[n] \in Row \cup {Absent}
    BY DEF Written
<1>1. rows[n] \in Row \cup {Absent}
      BY DEF TypeOK
<1>2. ASSUME n \in DOMAIN config PROVE config[n] \in Conf
      BY <1>2 DEF Configs
<1>3. CASE n \notin DOMAIN config \ skipped
      BY <1>1, <1>3 DEF Written
<1>4. CASE n \in DOMAIN config \ skipped /\ seen[n] = Absent
      BY <1>2, <1>4 DEF Written, Row
<1>5. CASE n \in DOMAIN config \ skipped /\ seen[n] # Absent
  <2>1. rows[n] \in Row
        BY <1>1, <1>5
  <2>2. [rows[n] EXCEPT !.conf = config[n]] \in Row
        BY <1>2, <1>5, <2>1 DEF Row
  <2>3. QED  BY <1>5, <2>1, <2>2 DEF Written
<1>6. QED  BY <1>3, <1>4, <1>5

LEMMA WrittenStay ==
    ASSUME TypeOK, NEW config \in Configs, NEW seen \in Seen, NEW skipped,
           NEW n \in Names, rows[n] # Absent
    PROVE  Written(config, seen, skipped)[n] # Absent
<1>1. rows[n] \in Row
      BY DEF TypeOK
<1>2. ASSUME n \in DOMAIN config PROVE config[n] \in Conf
      BY <1>2 DEF Configs
<1>3. ASSUME n \in DOMAIN config
      PROVE  [conf |-> config[n], deleted |-> FALSE] \in Row /\ [rows[n] EXCEPT !.conf = config[n]] \in Row
      BY <1>1, <1>2, <1>3 DEF Row
<1>4. Written(config, seen, skipped)[n] \in Row
      BY <1>1, <1>3 DEF Written
<1>5. QED  BY <1>4, Constant

(* A row that was found is never removed.                                  *)
SeenStay ==
    \A r \in Requests : \A n \in DOMAIN request[r].seen :
        /\ n \in DOMAIN request[r].config
        /\ request[r].seen[n] # Absent => rows[n] # Absent

(* The number is read last.                                                *)
NumberedLast ==
    \A r \in Requests : request[r].number # 0 => DOMAIN request[r].seen = DOMAIN request[r].config

Inv == TypeOK /\ Numbering /\ SeenStay /\ NumberedLast

LEMMA InvInit == Init => Inv
<1> SUFFICES ASSUME Init PROVE Inv
    OBVIOUS
<1>1. Numbers = {}
      BY DEF Init, Numbers
<1>2. TypeOK
      BY NoConfigType DEF Init, TypeOK, Pending
<1>3. Numbering
  <2>1. Len(versions) = 0
        BY DEF Init
  <2>2. Upto(0)
        BY <1>1, <2>1 DEF Init, Upto, Idle
  <2>3. AboveKnown
        BY <2>1 DEF Init, AboveKnown, Idle
  <2>4. QED  BY <2>1, <2>2, <2>3, Constant DEF Numbering
<1>4. SeenStay /\ NumberedLast
      BY DEF Init, SeenStay, NumberedLast, Idle, NoConfig
<1>5. QED  BY <1>2, <1>3, <1>4 DEF Inv

(* A step that changes one request only.                                   *)
LEMMA RequestStep ==
    ASSUME Inv, NEW r \in Requests, NEW q \in Pending, UNCHANGED <<rows, versions>>,
           request' = [request EXCEPT ![r] = q],
           \A n \in DOMAIN q.seen :
               n \in DOMAIN q.config /\ (q.seen[n] # Absent => rows[n] # Absent),
           \/ q.number = 0 /\ q.known <= Len(versions)
           \/ /\ DOMAIN q.seen = DOMAIN q.config
              /\ q.number = NextNumber
              /\ q.known = Len(versions)
    PROVE  Inv'
<1> USE DEF Inv
<1>1. Numbers' = Numbers
      BY DEF Numbers
<1>2. \A x \in Requests : request'[x] = IF x = r THEN q ELSE request[x]
      BY DEF TypeOK
<1>3. TypeOK'
      BY DEF TypeOK, Pending
<1>4. PICK k \in Nat : Upto(k)
      BY DEF Numbering
<1>5. NextNumber = k + 1
      BY <1>4, NextIs DEF Upto
<1>6. Upto(k)'
      BY <1>1, <1>2, <1>4, <1>5 DEF Upto
<1>7. Len(versions) \in Nat /\ \A i \in 1..Len(versions) : versions[i].number \in Numbers
      BY DEF TypeOK, Numbers
<1>8. \A i \in 1..Len(versions) : versions[i].number < k + 1
      BY <1>4, <1>7 DEF Upto
<1>9. AboveKnown'
      BY <1>2, <1>5, <1>7, <1>8 DEF Numbering, AboveKnown
<1>10. SeenStay'
      BY <1>2 DEF SeenStay
<1>11. NumberedLast'
      BY <1>2 DEF NumberedLast
<1>12. QED  BY <1>3, <1>6, <1>9, <1>10, <1>11 DEF Numbering

LEMMA BeginStep ==
    ASSUME Inv, NEW r \in Requests, NEW config \in Configs, Begin(r, config)
    PROVE  Inv'
<1> DEFINE q == [Idle EXCEPT !.config = config]
<1>1. q \in Pending /\ q.seen = NoConfig /\ q.number = 0 /\ q.known = 0
      BY NoConfigType DEF Pending, Idle
<1>2. \A n \in DOMAIN q.seen : FALSE
      BY <1>1 DEF NoConfig
<1>3. request' = [request EXCEPT ![r] = q] /\ UNCHANGED <<rows, versions>>
      BY DEF Begin
<1>4. q.number = 0 /\ q.known <= Len(versions)
      BY <1>1 DEF Inv, TypeOK
<1> HIDE DEF q
<1>5. QED  BY <1>1, <1>2, <1>3, <1>4, RequestStep

LEMMA LookedStep ==
    ASSUME Inv, NEW r \in Requests, NEW n \in Names, NEW found, NEW skipped \in SUBSET Names,
           Looked(r, n, found, skipped), found \in Conf \cup {Absent},
           found # Absent => rows[n] # Absent
    PROVE  Inv'
<1> DEFINE p == request[r]
           q == [p EXCEPT !.seen = Extended(@, n, found), !.skipped = @ \cup skipped]
<1>1. p \in Pending
      BY DEF Inv, TypeOK, Pending
<1>2. found \in Conf \cup {Absent}
      OBVIOUS
<1>3. n \in DOMAIN p.config /\ n \notin DOMAIN p.seen
      BY DEF Looked
<1>4. p.number = 0 /\ p.known <= Len(versions)
      BY <1>3 DEF Inv, NumberedLast, Numbering, AboveKnown
<1>5. /\ q.config = p.config /\ q.number = p.number /\ q.known = p.known
      /\ q.seen = Extended(p.seen, n, found) /\ q.skipped = p.skipped \cup skipped
      BY <1>1 DEF Pending
<1>6. /\ DOMAIN q.seen = DOMAIN p.seen \cup {n}
      /\ \A m \in DOMAIN q.seen : q.seen[m] = IF m = n THEN found ELSE p.seen[m]
      BY <1>5 DEF Extended
<1>7. q.seen \in Seen
  <2>1. DOMAIN p.seen \in SUBSET Names /\ p.seen \in [DOMAIN p.seen -> Conf \cup {Absent}]
        BY <1>1 DEF Pending, Seen
  <2>2. q.seen \in [DOMAIN p.seen \cup {n} -> Conf \cup {Absent}]
        BY <1>2, <1>5, <2>1 DEF Extended
  <2>3. DOMAIN p.seen \cup {n} \in SUBSET Names
        BY <2>1
  <2>4. QED  BY <2>2, <2>3 DEF Seen
<1>8. q \in Pending
      BY <1>1, <1>5, <1>7 DEF Pending
<1>9. \A m \in DOMAIN q.seen :
          m \in DOMAIN q.config /\ (q.seen[m] # Absent => rows[m] # Absent)
      BY <1>3, <1>5, <1>6 DEF Inv, SeenStay
<1>10. request' = [request EXCEPT ![r] = q] /\ UNCHANGED <<rows, versions>>
      BY DEF Looked
<1>11. q.number = 0 /\ q.known <= Len(versions)
      BY <1>4, <1>5
<1> HIDE DEF p, q
<1>12. QED  BY <1>8, <1>9, <1>10, <1>11, RequestStep

LEMMA LookStep ==
    ASSUME Inv, NEW r \in Requests, NEW n \in Names, Look(r, n) \/ LookRaises(r, n)
    PROVE  Inv'
<1> DEFINE found == IF rows[n] = Absent THEN Absent ELSE rows[n].conf
<1>1. found \in Conf \cup {Absent} /\ (found # Absent => rows[n] # Absent)
      BY DEF Inv, TypeOK, Row
<1>2. Looked(r, n, found, {}) \/ Looked(r, n, Absent, {n})
      BY DEF Look, LookRaises
<1> HIDE DEF found
<1>3. QED  BY <1>1, <1>2, LookedStep

LEMMA PendingExcept ==
    ASSUME NEW p \in Pending, NEW n \in 0..MaxVersions + 1, NEW k \in 0..MaxVersions
    PROVE  [p EXCEPT !.number = n, !.known = k] \in Pending
BY DEF Pending

LEMMA NumberStep ==
    ASSUME Inv, NEW r \in Requests, Number(r)
    PROVE  Inv'
<1> DEFINE p == request[r]
           q == [p EXCEPT !.number = NextNumber, !.known = Len(versions)]
<1>1. p \in Pending
      BY DEF Inv, TypeOK, Pending
<1>2. PICK k \in Nat : Upto(k)
      BY DEF Inv, Numbering
<1>3. NextNumber = k + 1
      BY <1>2, NextIs DEF Upto
<1>4. k <= Len(versions) /\ Len(versions) <= MaxVersions /\ Len(versions) \in Nat
      BY <1>2 DEF Upto, Inv, Numbering, TypeOK
<1>5. /\ q.config = p.config /\ q.seen = p.seen
      /\ q.number = NextNumber /\ q.known = Len(versions)
      BY <1>1 DEF Pending
<1>6. q \in Pending
  <2>1. q.number \in 0..MaxVersions + 1 /\ q.known \in 0..MaxVersions
        BY <1>3, <1>4, <1>5, Constant
  <2>2. QED  BY <1>1, <1>5, <2>1, PendingExcept
<1>7. DOMAIN q.seen = DOMAIN q.config
      BY <1>5 DEF Number, Read
<1>8. \A m \in DOMAIN q.seen :
          m \in DOMAIN q.config /\ (q.seen[m] # Absent => rows[m] # Absent)
      BY <1>5 DEF Inv, SeenStay
<1>9. request' = [request EXCEPT ![r] = q] /\ UNCHANGED <<rows, versions>>
      BY DEF Number
<1> HIDE DEF p, q
<1>10. QED  BY <1>5, <1>6, <1>7, <1>8, <1>9, RequestStep

LEMMA EndStep ==
    ASSUME Inv, NEW r \in Requests, UNCHANGED <<rows, versions>>,
           request' = [request EXCEPT ![r] = Idle]
    PROVE  Inv'
<1>1. Idle \in Pending /\ Idle.number = 0 /\ Idle.known = 0 /\ DOMAIN Idle.seen = {}
      BY NoConfigType DEF Idle, NoConfig
<1>2. Idle.known <= Len(versions)
      BY <1>1 DEF Inv, TypeOK
<1>3. QED  BY <1>1, <1>2, RequestStep

(* A commit that succeeds.                                                 *)
LEMMA CommitStep ==
    ASSUME Inv, NEW r \in Requests, Commit(r), ~Clash(request[r].seen, request[r].skipped)
    PROVE  Inv'
<1> DEFINE q == request[r]
           v == [number |-> q.number, config |-> q.config, known |-> q.known]
<1>1. q \in Pending /\ q.number # 0
      BY DEF Inv, TypeOK, Pending, Commit
<1>2. PICK k \in Nat : Upto(k)
      BY DEF Inv, Numbering
<1>3. k <= Len(versions) /\ Len(versions) < MaxVersions /\ Len(versions) \in Nat
      BY <1>2 DEF Upto, Inv, TypeOK, Commit
<1>4. q.number \in 1..k + 1
      BY <1>1, <1>2 DEF Upto, Pending
<1>5. v \in Version
      BY <1>1, <1>3, <1>4, Constant DEF Version, Pending
<1>6. versions' = Append(versions, v) /\ rows' = Written(q.config, q.seen, q.skipped)
      BY DEF Commit
<1>7. \A x \in Requests : request'[x] = IF x = r THEN Idle ELSE request[x]
      BY DEF Commit, Inv, TypeOK
<1>8. /\ Len(versions') = Len(versions) + 1
      /\ \A i \in 1..Len(versions) : versions'[i] = versions[i]
      /\ versions'[Len(versions) + 1] = v
      /\ Numbers' = Numbers \cup {v.number}
      BY <1>5, <1>6, Appended DEF Inv
<1>9. DOMAIN q.seen = DOMAIN q.config
      BY <1>1 DEF Inv, NumberedLast
<1>10. \A n \in DOMAIN q.config : q.seen[n] # Absent => rows[n] # Absent
      BY <1>9 DEF Inv, SeenStay
<1>11. TypeOK'
  <2>1. rows' \in [Names -> Row \cup {Absent}]
        BY <1>1, <1>6, <1>9, <1>10, WrittenType DEF Inv, Pending
  <2>2. versions' \in Seq(Version)
        BY <1>5, <1>6 DEF Inv, TypeOK
  <2>3. request' \in [Requests -> Pending]
        BY NoConfigType DEF Commit, Inv, TypeOK, Pending
  <2>4. QED  BY <2>1, <2>2, <2>3 DEF TypeOK, Pending
<1>12. v.number = q.number /\ v.known = q.known
      OBVIOUS
<1>13. AboveKnown'
  <2>1. \A x \in Requests : request'[x].known <= Len(versions')
    <3> TAKE x \in Requests
    <3>1. request[x].known <= Len(versions) /\ request[x].known \in Nat
          BY DEF Inv, Numbering, AboveKnown, TypeOK
    <3>2. QED  BY <1>3, <1>7, <1>8, <3>1 DEF Idle
  <2>2. ASSUME NEW x \in Requests, request'[x].number # 0, NEW i \in 1..request'[x].known
        PROVE  versions'[i].number < request'[x].number
    <3>1. request'[x] = request[x]
          BY <1>7, <2>2 DEF Idle
    <3>2. request[x].known <= Len(versions) /\ request[x].known \in Nat
          BY DEF Inv, Numbering, AboveKnown, TypeOK
    <3>3. i \in 1..Len(versions) /\ i \in 1..request[x].known
          BY <1>3, <2>2, <3>1, <3>2
    <3>4. versions[i].number < request[x].number
          BY <2>2, <3>1, <3>3 DEF Inv, Numbering, AboveKnown
    <3>5. QED  BY <1>8, <3>1, <3>3, <3>4
  <2>3. ASSUME NEW j \in 1..Len(versions'), NEW i \in 1..Len(versions'),
               i < j, i <= versions'[j].known
        PROVE  versions'[i].number < versions'[j].number
    <3>1. i \in 1..Len(versions) /\ versions'[i] = versions[i]
          BY <1>3, <1>8, <2>3
    <3>2. CASE j \in 1..Len(versions)
      <4>1. versions'[j] = versions[j]
            BY <1>8, <3>2
      <4>2. QED  BY <2>3, <3>1, <3>2, <4>1 DEF Inv, Numbering, AboveKnown
    <3>3. CASE j = Len(versions) + 1
      <4>1. versions'[j] = v
            BY <1>8, <3>3
      <4>2. i \in 1..q.known
            BY <1>1, <1>12, <2>3, <4>1 DEF Pending
      <4>3. versions[i].number < q.number
            BY <1>1, <4>2 DEF Inv, Numbering, AboveKnown
      <4>4. QED  BY <1>12, <3>1, <4>1, <4>3
    <3>4. QED  BY <1>3, <1>8, <3>2, <3>3
  <2>4. QED  BY <2>1, <2>2, <2>3 DEF AboveKnown
<1>14. Numbering'
  <2>1. Len(versions)' <= MaxVersions
        BY <1>3, <1>8, Constant
  <2>2. CASE q.number = k + 1
    <3>1. Numbers' = 1..(k + 1)
          BY <1>2, <1>8, <1>12, <2>2 DEF Upto
    <3>2. \A x \in Requests : request'[x].number <= k + 1 + 1
      <4> TAKE x \in Requests
      <4>1. request[x].number <= k + 1 /\ request[x].number \in Nat
            BY <1>2 DEF Upto, Inv, TypeOK
      <4>2. QED  BY <1>7, <4>1 DEF Idle
    <3>3. Upto(k + 1)'
          BY <1>3, <1>8, <3>1, <3>2 DEF Upto
    <3>4. QED  BY <2>1, <3>3, <1>13 DEF Numbering
  <2>3. CASE q.number # k + 1
    <3>1. Numbers' = 1..k
          BY <1>2, <1>4, <1>8, <1>12, <2>3 DEF Upto
    <3>2. Upto(k)'
      <4> SUFFICES ASSUME NEW x \in Requests PROVE request'[x].number <= k + 1
          BY <1>3, <1>8, <3>1 DEF Upto
      <4>1. request[x].number <= k + 1
            BY <1>2 DEF Upto
      <4>2. QED  BY <1>7, <4>1 DEF Idle
    <3>3. QED  BY <2>1, <3>2, <1>13 DEF Numbering
  <2>4. QED  BY <2>2, <2>3
<1>15. SeenStay'
  <2> SUFFICES ASSUME NEW x \in Requests, NEW n \in DOMAIN request'[x].seen
               PROVE  /\ n \in DOMAIN request'[x].config
                      /\ request'[x].seen[n] # Absent => rows'[n] # Absent
      BY DEF SeenStay
  <2>1. request'[x] = request[x]
        BY <1>7 DEF Idle, NoConfig
  <2>2. n \in DOMAIN request[x].config /\ (request[x].seen[n] # Absent => rows[n] # Absent)
        BY <2>1 DEF Inv, SeenStay
  <2>3. n \in Names
        BY <2>2 DEF Inv, TypeOK, Configs
  <2>4. rows[n] # Absent => rows'[n] # Absent
        BY <1>1, <1>6, <1>10, <2>3, WrittenStay DEF Inv, Pending
  <2>5. QED  BY <2>1, <2>2, <2>4
<1>16. NumberedLast'
      BY <1>7 DEF Inv, NumberedLast, Idle
<1>17. QED  BY <1>11, <1>14, <1>15, <1>16 DEF Inv

(* The sensor API: no row goes away.                                       *)
LEMMA SensorStep ==
    ASSUME Inv, NEW n \in Names, CreateSensor(n) \/ UpdateSensor(n) \/ DeleteSensor(n)
    PROVE  Inv'
<1>1. rows \in [Names -> Row \cup {Absent}] /\ UNCHANGED <<versions, request>>
      BY DEF Inv, TypeOK, CreateSensor, UpdateSensor, DeleteSensor
<1>2. PICK w \in Row : rows' = [rows EXCEPT ![n] = w]
  <2>1. ASSUME CreateSensor(n) PROVE \E w \in Row : rows' = [rows EXCEPT ![n] = w]
        BY <2>1 DEF CreateSensor, Row
  <2>2. ASSUME n \in Live PROVE rows[n] \in Row
        BY <1>1, <2>2 DEF Live
  <2>3. ASSUME UpdateSensor(n) PROVE \E w \in Row : rows' = [rows EXCEPT ![n] = w]
    <3>1. PICK c \in Conf : rows' = [rows EXCEPT ![n] = [rows[n] EXCEPT !.conf = c]]
          BY <1>1, <2>3 DEF UpdateSensor, Live
    <3>2. [rows[n] EXCEPT !.conf = c] \in Row
          BY <2>2, <2>3 DEF UpdateSensor, Row
    <3>3. QED  BY <3>1, <3>2
  <2>4. ASSUME DeleteSensor(n) PROVE \E w \in Row : rows' = [rows EXCEPT ![n] = w]
    <3>1. rows' = [rows EXCEPT ![n] = [rows[n] EXCEPT !.deleted = TRUE]]
          BY <1>1, <2>4 DEF DeleteSensor, Live
    <3>2. [rows[n] EXCEPT !.deleted = TRUE] \in Row
          BY <2>2, <2>4 DEF DeleteSensor, Row
    <3>3. QED  BY <3>1, <3>2
  <2>5. QED  BY <2>1, <2>3, <2>4
<1>3. TypeOK'
      BY <1>1, <1>2 DEF Inv, TypeOK
<1>4. Numbers' = Numbers
      BY <1>1 DEF Numbers
<1>5. Numbering'
      BY <1>1, <1>4 DEF Inv, Numbering, Upto, AboveKnown
<1>6. w # Absent
      BY <1>2, Constant
<1>7. \A m : rows[m] # Absent /\ m \in Names => rows'[m] # Absent
      BY <1>1, <1>2, <1>6
<1>8. SeenStay'
  <2> SUFFICES ASSUME NEW x \in Requests, NEW m \in DOMAIN request[x].seen
               PROVE  /\ m \in DOMAIN request[x].config
                      /\ request[x].seen[m] # Absent => rows'[m] # Absent
      BY <1>1 DEF SeenStay
  <2>1. m \in DOMAIN request[x].config /\ (request[x].seen[m] # Absent => rows[m] # Absent)
        BY DEF Inv, SeenStay
  <2>2. m \in Names
        BY <2>1 DEF Inv, TypeOK, Configs
  <2>3. QED  BY <1>7, <2>1, <2>2
<1>9. NumberedLast'
      BY <1>1 DEF Inv, NumberedLast
<1>10. QED  BY <1>3, <1>5, <1>8, <1>9 DEF Inv

LEMMA InvNext == Inv /\ [Next]_vars => Inv'
<1> SUFFICES ASSUME Inv, [Next]_vars PROVE Inv'
    OBVIOUS
<1>1. ASSUME NEW r \in Requests, Import(r) PROVE Inv'
  <2>1. PICK config \in Files \cup {Exported(TRUE), Exported(FALSE)} : Begin(r, config)
        BY <1>1 DEF Import
  <2>2. config \in Configs
        BY ExportedType, Constant DEF Inv
  <2>3. QED  BY <2>1, <2>2, BeginStep
<1>2. ASSUME NEW r \in Requests, Rollback(r) PROVE Inv'
  <2>1. PICK v \in Numbers : Begin(r, Resolved(v))
        BY <1>2 DEF Rollback
  <2>2. QED  BY <2>1, ResolvedType, BeginStep DEF Inv
<1>3. ASSUME NEW r \in Requests, Commit(r) PROVE Inv'
  <2>1. CASE Clash(request[r].seen, request[r].skipped)
        BY <1>3, <2>1, EndStep DEF Commit
  <2>2. CASE ~Clash(request[r].seen, request[r].skipped)
        BY <1>3, <2>2, CommitStep
  <2>3. QED  BY <2>1, <2>2
<1>4. ASSUME NEW r \in Requests, Abort(r) PROVE Inv'
      BY <1>4, EndStep DEF Abort
<1>5. CASE UNCHANGED vars
  <2>1. Numbers' = Numbers
        BY <1>5 DEF vars, Numbers
  <2>2. QED  BY <1>5, <2>1
             DEF vars, Inv, TypeOK, Numbering, Upto, AboveKnown, SeenStay, NumberedLast
<1>6. QED
  BY <1>1, <1>2, <1>3, <1>4, <1>5, LookStep, NumberStep, SensorStep DEF Next

LEMMA Invariant == Spec => []Inv
BY InvInit, InvNext, PTL DEF Spec

-----------------------------------------------------------------------------
(* The theorems.                                                           *)

(* Every variable keeps its type; no number goes beyond that of the last   *)
(* version there is room for.                                              *)
THEOREM TypeCorrect == Spec => []TypeOK
<1>1. Inv => TypeOK
      BY DEF Inv
<1>2. QED  BY <1>1, Invariant, PTL

(* However imports and rollbacks overlap and fail, the numbers in use are  *)
(* 1, 2, ... without a gap.                                                *)
THEOREM Gapless == Spec => []NumbersGapless
<1>1. ASSUME Inv PROVE NumbersGapless
  <2>1. PICK k \in Nat : Numbers = 1..k
        BY <1>1 DEF Inv, Numbering, Upto
  <2>2. Cardinality(1..k) = k
        BY <2>1, FS_Interval
  <2>3. QED  BY <2>1, <2>2 DEF NumbersGapless
<1>2. QED  BY <1>1, Invariant, PTL

(* A number is given twice only to imports that overlapped.                *)
THEOREM Twins == Spec => []TwinsOverlapped
<1>1. ASSUME Inv PROVE TwinsOverlapped
  <2>1. SUFFICES ASSUME NEW i \in DOMAIN versions, NEW j \in DOMAIN versions,
                        i < j, versions[i].number = versions[j].number
                 PROVE  versions[j].known < i
        BY DEF TwinsOverlapped
  <2>2. DOMAIN versions = 1..Len(versions) /\ versions[j] \in Version /\ versions[i] \in Version
        BY <1>1 DEF Inv, TypeOK
  <2>3. versions[j].known \in Nat /\ versions[i].number \in Nat
        BY <2>2 DEF Version
  <2>4. ~(i <= versions[j].known)
        BY <1>1, <2>1, <2>2, <2>3 DEF Inv, Numbering, AboveKnown
  <2>5. QED  BY <2>2, <2>3, <2>4
<1>2. QED  BY <1>1, Invariant, PTL

(* A number never comes to stand for another configuration.                *)
THEOREM Meaning == Spec => VersionsKeepMeaning
<1> DEFINE Keeps == \A v \in 1..MaxVersions :
                        Resolved(v) # NoConfig => Resolved(v)' \in {Resolved(v), NoConfig}
<1>1. ASSUME Inv, Inv', [Next]_vars PROVE [Keeps]_vars
  <2> SUFFICES ASSUME NEW v \in 1..MaxVersions, Resolved(v) # NoConfig
               PROVE  Resolved(v)' \in {Resolved(v), NoConfig}
      OBVIOUS
  <2>1. CASE UNCHANGED versions
        BY <2>1 DEF Resolved, Found
  <2>2. ASSUME NEW u \in Version, versions' = Append(versions, u)
        PROVE  Resolved(v)' \in {Resolved(v), NoConfig}
    <3>1. Cardinality(Found(v)) = 1 /\ Resolved(v) # NoConfig
          BY DEF Resolved
    <3>2. DOMAIN versions = 1..Len(versions) /\ Len(versions) \in Nat
          BY <1>1 DEF Inv, TypeOK
    <3>3. IsFiniteSet(Found(v))
      <4>1. Found(v) \in SUBSET (1..Len(versions))
            BY <3>2 DEF Found
      <4>2. IsFiniteSet(1..Len(versions))
            BY <3>2, FS_Interval
      <4>3. QED  BY <4>1, <4>2, FS_Subset
    <3>4. PICK i : Found(v) = {i}
          BY <3>1, <3>3, FS_Singleton
    <3>5. i \in 1..Len(versions) /\ versions[i].number = v
          BY <3>2, <3>4 DEF Found
    <3>6. Resolved(v) = versions[i].config
          BY <3>1, <3>4 DEF Resolved
    <3>7. /\ Len(versions') = Len(versions) + 1
          /\ \A x \in 1..Len(versions) : versions'[x] = versions[x]
          /\ versions'[Len(versions) + 1] = u
          BY <1>1, <2>2, Appended DEF Inv
    <3>8. DOMAIN versions' = 1..Len(versions) + 1
          BY <1>1, <3>7 DEF Inv, TypeOK
    <3>9. Found(v)' \subseteq {i, Len(versions) + 1} /\ i \in Found(v)'
          BY <3>2, <3>4, <3>5, <3>7, <3>8 DEF Found
    <3>10. CASE Found(v)' = {i}
      <4>1. Resolved(v)' \in {versions'[i].config, NoConfig'}
            BY <3>10 DEF Resolved
      <4>2. QED  BY <3>5, <3>6, <3>7, <4>1 DEF NoConfig
    <3>11. CASE Found(v)' # {i}
      <4>1. Found(v)' = {i, Len(versions) + 1} /\ i # Len(versions) + 1
            BY <3>2, <3>5, <3>9, <3>11
      <4>2. Found(v)' = {i} \cup {Len(versions) + 1} /\ Len(versions) + 1 \notin {i}
            BY <4>1
      <4>3. IsFiniteSet({i}) /\ Cardinality({i}) = 1
            BY FS_Singleton
      <4>4. Cardinality(Found(v)') = Cardinality({i}) + 1
            BY <4>2, <4>3, FS_AddElement
      <4>5. Cardinality(Found(v)') # 1
            BY <4>3, <4>4
      <4>6. QED  BY <4>5 DEF Resolved, NoConfig
    <3>12. QED  BY <3>10, <3>11
  <2>3. ASSUME NEW r \in Requests, Commit(r), ~Clash(request[r].seen, request[r].skipped)
        PROVE  \E u \in Version : versions' = Append(versions, u)
    <3>1. /\ versions' = Append(versions, [number |-> request[r].number,
                                           config |-> request[r].config,
                                           known |-> request[r].known])
          /\ versions' \in Seq(Version)
          BY <1>1, <2>3 DEF Commit, Inv, TypeOK
    <3> DEFINE u == [number |-> request[r].number, config |-> request[r].config,
                     known |-> request[r].known]
    <3>2. versions \in Seq(Version) /\ Len(versions) \in Nat
          BY <1>1 DEF Inv, TypeOK
    <3> HIDE DEF u
    <3>3. versions' = Append(versions, u)
          BY <3>1 DEF u
    <3>4. Len(versions') = Len(versions) + 1 /\ versions'[Len(versions) + 1] = u
          BY <3>2, <3>3
    <3>5. u \in Version
          BY <3>1, <3>2, <3>4
    <3>6. QED  BY <3>3, <3>5
  <2>4. UNCHANGED versions \/ \E r \in Requests : Commit(r) /\ ~Clash(request[r].seen, request[r].skipped)
        BY <1>1 DEF Next, vars, Import, Rollback, Begin, Look, LookRaises, Looked, Number, Commit, Abort,
           CreateSensor, UpdateSensor, DeleteSensor
  <2>5. QED  BY <2>1, <2>2, <2>3, <2>4
<1>2. QED  BY <1>1, Invariant, PTL DEF Spec, VersionsKeepMeaning

(* The step of a commit that takes effect, and what it leaves in the row   *)
(* of a sensor the import names.                                           *)
LEMMA CommitWrites ==
    ASSUME Inv, NEW r \in Requests, Commit(r), ~Clash(request[r].seen, request[r].skipped),
           NEW n \in DOMAIN request[r].config \ request[r].skipped
    PROVE  \/ rows'[n].conf = request[r].config[n]
           \/ rows[n].conf # request[r].seen[n]
<1> DEFINE config == request[r].config
           seen == request[r].seen
           skipped == request[r].skipped
<1>1. config \in Configs /\ rows \in [Names -> Row \cup {Absent}]
      BY DEF Inv, TypeOK
<1>2. n \in Names /\ config[n] \in Conf
      BY <1>1 DEF Configs
<1>3. n \in DOMAIN seen
      BY DEF Inv, NumberedLast, Commit
<1>4. rows' = Written(config, seen, skipped)
      BY DEF Commit
<1>5. CASE seen[n] = Absent
  <2>1. rows'[n] = [conf |-> config[n], deleted |-> FALSE]
        BY <1>2, <1>4, <1>5 DEF Written
  <2>2. QED  BY <2>1
<1>6. CASE seen[n] # Absent
  <2>1. rows[n] \in Row
        BY <1>1, <1>2, <1>3, <1>6 DEF Inv, SeenStay
  <2>2. CASE config[n] = seen[n]
    <3>1. rows'[n] = rows[n]
          BY <1>2, <1>4, <1>6, <2>2 DEF Written
    <3>2. QED  BY <2>2, <3>1
  <2>3. CASE config[n] # seen[n]
    <3>1. rows'[n] = [rows[n] EXCEPT !.conf = config[n]]
          BY <1>2, <1>4, <1>6, <2>3 DEF Written
    <3>2. rows'[n].conf = config[n]
          BY <2>1, <3>1 DEF Row
    <3>3. QED  BY <3>2
  <2>4. QED  BY <2>2, <2>3
<1>7. QED  BY <1>5, <1>6

(* An import that is answered with success has configured every sensor it  *)
(* names and has not skipped for an error, or somebody else changed the    *)
(* sensor while the import was under way.                                  *)
THEOREM Applied == Spec => ImportApplied
<1> DEFINE Applies ==
        \A r \in Requests : versions' # versions /\ Active(r) /\ ~Active(r)' =>
            \A n \in DOMAIN request[r].config \ request[r].skipped :
                \/ rows'[n].conf = request[r].config[n]
                \/ rows[n].conf # request[r].seen[n]
<1>1. ASSUME Inv, [Next]_vars PROVE [Applies]_vars
  <2> SUFFICES ASSUME NEW r \in Requests, versions' # versions, Active(r), ~Active(r)',
                      NEW n \in DOMAIN request[r].config \ request[r].skipped
               PROVE  \/ rows'[n].conf = request[r].config[n]
                      \/ rows[n].conf # request[r].seen[n]
      OBVIOUS
  <2>1. PICK x \in Requests : Commit(x) /\ ~Clash(request[x].seen, request[x].skipped)
        BY <1>1 DEF Next, vars, Import, Rollback, Begin, Look, LookRaises, Looked, Number, Commit, Abort,
           CreateSensor, UpdateSensor, DeleteSensor
  <2>2. request' = [request EXCEPT ![x] = Idle]
        BY <2>1 DEF Commit
  <2>3. x = r
        BY <1>1, <2>2 DEF Active, Inv, TypeOK
  <2>4. QED  BY <1>1, <2>1, <2>3, CommitWrites
<1>2. QED  BY <1>1, Invariant, PTL DEF Spec, ImportApplied
=============================================================================

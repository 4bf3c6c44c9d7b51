---------------------------- MODULE ConfigVersions ----------------------------
(***************************************************************************)
(* Export, import and rollback of the configuration                        *)
(* (backend/app/api/routes/config.py), on the tables sensors and           *)
(* config_versions, beside the requests that create, change and delete     *)
(* sensors (backend/app/api/routes/sensors.py).                            *)
(*                                                                         *)
(* An import reads the row of each sensor it names, then the highest       *)
(* version number, and writes everything when it commits.  Its session     *)
(* does not flush before (db/session.py:29), and SQLite locks nothing for  *)
(* a SELECT: other requests commit in between.  Of a row it has read, the  *)
(* session writes the columns whose value is not the one it read.  conf    *)
(* stands for one column, connection_params.  An entry that raises, or has *)
(* no name, is noted in the errors of the answer, and the import goes on:  *)
(* without it, or with what was set before it raised.                      *)
(***************************************************************************)
EXTENDS Naturals, Sequences, FiniteSets, FiniteSetsExt

CONSTANTS
    Names,         \* names of sensors
    Params,        \* what a sensor is configured to do
    Absent,        \* no row
    Requests,      \* imports and rollbacks that may overlap
    Files,         \* configurations an administrator may import
    MaxVersions    \* bound: versions that are committed

Conf == [params : Params, secret : BOOLEAN]   \* with its password or without

Row == [conf : Conf, deleted : BOOLEAN]

Configs == UNION {[S -> Conf] : S \in SUBSET Names}

ASSUME ConfigAssumption ==
    /\ IsFiniteSet(Names)
    /\ Files \subseteq Configs
    /\ Absent \notin Conf \cup Row
    /\ MaxVersions \in Nat

VARIABLES
    rows,          \* the table sensors: name -> conf and deleted_at
    versions,      \* the table config_versions, in the order of commits
    request        \* what each request is about

vars == <<rows, versions, request>>

(* known: the versions there were when the number was read.                *)
Version == [number : 1..MaxVersions, config : Configs, known : 0..MaxVersions]

NoConfig == [n \in {} |-> Absent]

Idle == [config |-> NoConfig, seen |-> NoConfig, skipped |-> {}, number |-> 0, known |-> 0]

(* What a request has read so far: the conf of a sensor, or that there is  *)
(* none.                                                                   *)
Seen == UNION {[S -> Conf \cup {Absent}] : S \in SUBSET Names}

TypeOK ==
    /\ rows \in [Names -> Row \cup {Absent}]
    /\ versions \in Seq(Version)
    /\ request \in [Requests -> [config : Configs, seen : Seen, skipped : SUBSET Names,
                                 number : 0..MaxVersions + 1, known : 0..MaxVersions]]

Init ==
    /\ rows = [n \in Names |-> Absent]
    /\ versions = <<>>
    /\ request = [r \in Requests |-> Idle]

-----------------------------------------------------------------------------
(* GET /config/export.                                                     *)

Live == {n \in Names : rows[n] # Absent /\ ~rows[n].deleted}

(* Without credentials, the password is not in the file.                   *)
Exported(credentials) ==
    [n \in Live |-> [rows[n].conf EXCEPT !.secret = @ /\ credentials]]

-----------------------------------------------------------------------------
(* POST /config/import, in steps that end with an await.                   *)

Active(r) == request[r] # Idle

Begin(r, config) ==
    /\ ~Active(r)
    /\ config # NoConfig
    /\ Len(versions) < MaxVersions
    /\ request' = [request EXCEPT ![r] = [Idle EXCEPT !.config = config]]
    /\ UNCHANGED <<rows, versions>>

(* The administrator imports a file of his own or an exported one.         *)
Import(r) ==
    \E config \in Files \cup {Exported(TRUE), Exported(FALSE)} : Begin(r, config)

Extended(f, x, y) == [z \in DOMAIN f \cup {x} |-> IF z = x THEN y ELSE f[z]]

(* An entry has been dealt with, and this is known of its row.             *)
Looked(r, n, found, skipped) ==
    /\ Active(r)
    /\ n \in DOMAIN request[r].config \ DOMAIN request[r].seen
    /\ request' = [request EXCEPT ![r].seen = Extended(@, n, found),
                                  ![r].skipped = @ \cup skipped]
    /\ UNCHANGED <<rows, versions>>

(* select(Sensor).where(name == ...): a deleted row is found as well.  The *)
(* conf is set on the row's object, or a new object is added; a setattr()  *)
(* of a later key may still raise.                                         *)
Look(r, n) == Looked(r, n, IF rows[n] = Absent THEN Absent ELSE rows[n].conf, {})

(* The SELECT, Sensor() or a setattr() before that of the conf raises: the *)
(* session has nothing to write for it.                                    *)
LookRaises(r, n) == Looked(r, n, Absent, {n})

Numbers == {versions[i].number : i \in DOMAIN versions}

(* Mutant: numbers that other requests have read count as used.            *)
NextNumberBurned == Max(Numbers \cup {request[r].number : r \in Requests}) + 1

(* Mutant: the highest number itself.                                      *)
NextNumberSame == Max(Numbers \cup {1})

NextNumber == Max(Numbers \cup {0}) + 1

Read(r) == DOMAIN request[r].seen = DOMAIN request[r].config

Number(r) ==
    /\ Active(r)
    /\ Read(r)
    /\ request[r].number = 0
    /\ request' = [request EXCEPT ![r].number = NextNumber, ![r].known = Len(versions)]
    /\ UNCHANGED <<rows, versions>>

(* A sensor the import adds is there by now: the name is unique.           *)
Clash(seen, skipped) ==
    \E n \in DOMAIN seen \ skipped : seen[n] = Absent /\ rows[n] # Absent

(* Mutant: rows of deleted sensors are left alone.                         *)
WrittenLive(config, seen, skipped) ==
    [n \in Names |->
        IF n \notin DOMAIN config \ skipped THEN rows[n]
        ELSE IF seen[n] = Absent THEN [conf |-> config[n], deleted |-> FALSE]
        ELSE IF config[n] = seen[n] \/ rows[n].deleted THEN rows[n]
        ELSE [rows[n] EXCEPT !.conf = config[n]]]

(* The rows as they are, with an import of config written to them.         *)
Written(config, seen, skipped) ==
    [n \in Names |->
        IF n \notin DOMAIN config \ skipped THEN rows[n]
        ELSE IF seen[n] = Absent THEN [conf |-> config[n], deleted |-> FALSE]
        ELSE IF config[n] = seen[n] THEN rows[n]
        ELSE [rows[n] EXCEPT !.conf = config[n]]]

(* A commit that fails rolls everything back.  One that does not keeps the *)
(* whole file as the version, the skipped sensors with the others.         *)
Commit(r) ==
    LET q == request[r] IN
    /\ q.number # 0
    /\ Len(versions) < MaxVersions
    /\ IF Clash(q.seen, q.skipped)
       THEN UNCHANGED <<rows, versions>>
       ELSE /\ rows' = Written(q.config, q.seen, q.skipped)
            /\ versions' = Append(versions, [number |-> q.number, config |-> q.config,
                                             known |-> q.known])
    /\ request' = [request EXCEPT ![r] = Idle]

(* The client leaves, or an exception: the session is rolled back.         *)
Abort(r) ==
    /\ Active(r)
    /\ request' = [request EXCEPT ![r] = Idle]
    /\ UNCHANGED <<rows, versions>>

-----------------------------------------------------------------------------
(* POST /config/rollback/{version}.                                        *)

(* Mutant: the latest of them is taken.                                    *)
FoundLast(v) ==
    LET S == {i \in DOMAIN versions : versions[i].number = v}
    IN  IF S = {} THEN {} ELSE {Max(S)}

(* The versions that go by a number; scalar_one_or_none() takes one only,  *)
(* answers 404 for none and raises for several.                            *)
Found(v) == {i \in DOMAIN versions : versions[i].number = v}

(* The configuration it rolls back to, if it does.                         *)
Resolved(v) ==
    IF Cardinality(Found(v)) = 1
    THEN LET i == CHOOSE i \in Found(v) : TRUE IN versions[i].config
    ELSE NoConfig

Rollback(r) == \E v \in Numbers : Begin(r, Resolved(v))

-----------------------------------------------------------------------------
(* The sensor API, each request at its commit.                             *)

CreateSensor(n) ==
    /\ rows[n] = Absent
    /\ \E c \in Conf : rows' = [rows EXCEPT ![n] = [conf |-> c, deleted |-> FALSE]]
    /\ UNCHANGED <<versions, request>>

UpdateSensor(n) ==
    /\ n \in Live
    /\ \E c \in Conf : rows' = [rows EXCEPT ![n].conf = c]
    /\ UNCHANGED <<versions, request>>

DeleteSensor(n) ==
    /\ n \in Live
    /\ rows' = [rows EXCEPT ![n].deleted = TRUE]
    /\ UNCHANGED <<versions, request>>

Next ==
    \/ \E r \in Requests :
           \/ Import(r) \/ Rollback(r) \/ Number(r) \/ Commit(r) \/ Abort(r)
           \/ \E n \in Names : Look(r, n) \/ LookRaises(r, n)
    \/ \E n \in Names : CreateSensor(n) \/ UpdateSensor(n) \/ DeleteSensor(n)

Spec == Init /\ [][Next]_vars

-----------------------------------------------------------------------------
(* Properties.                                                             *)

(* The numbers in use are 1, 2, ... without a gap, however imports overlap *)
(* and fail: a number that was read is used by the next commit, or by      *)
(* several.                                                                *)
NumbersGapless == Numbers = 1..Cardinality(Numbers)

(* Two versions have the same number only if the later one was numbered    *)
(* before the earlier one was committed; the column is not unique          *)
(* (audit.py:75), and then neither can be rolled back to.                  *)
TwinsOverlapped ==
    \A i, j \in DOMAIN versions :
        i < j /\ versions[i].number = versions[j].number => versions[j].known < i

(* What a number stands for never changes: a rollback imports what was     *)
(* committed under the number first, or nothing at all.                    *)
VersionsKeepMeaning ==
    [][\A v \in 1..MaxVersions :
           Resolved(v) # NoConfig => Resolved(v)' \in {Resolved(v), NoConfig}]_vars

(* Once an import is answered with success, every sensor it names and has  *)
(* not skipped, which its errors then tell, is configured as the file      *)
(* says, or somebody changed it while the import was under way, whatever   *)
(* became of the others: an import that finds the value it brings writes   *)
(* nothing and loses to a change in between, any other wins over it.       *)
ImportApplied ==
    [][\A r \in Requests : versions' # versions /\ Active(r) /\ ~Active(r)' =>
           \A n \in DOMAIN request[r].config \ request[r].skipped :
               \/ rows'[n].conf = request[r].config[n]
               \/ rows[n].conf # request[r].seen[n]]_vars
=============================================================================

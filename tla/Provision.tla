------------------------------ MODULE Provision ------------------------------
(* Underboss._provision, run by every process that starts on one database.   *)
(* The install script is cut to the statements that differ: CREATE TYPE,     *)
(* which alone is not idempotent; the version table, by which later starts   *)
(* take the schema for installed; all other tables, indexes and functions;   *)
(* and the version row, which is last.                                       *)
EXTENDS Naturals, Sequences, SequencesExt

CONSTANTS
  Node,           \* processes that start
  SCHEMA_VERSION, \* the version all of them are built for
  OtherVersion    \* a version an earlier install may have left

ASSUME VersionsAssumption == SCHEMA_VERSION # OtherVersion

VARIABLES
  transactional,  \* DDL of this database is transactional (PostgreSQL) or not (CockroachDB)
  objects,        \* what has been created, by statement
  versions,       \* the rows of the version table
  prov,           \* prov[n]: where _provision of n is
  at,             \* at[n]: the statement of the script n runs next
  blind           \* history: nodes that accepted a version table without a row

provVars == <<transactional, objects, versions, prov, at, blind>>

BuildSchema == <<"type", "version", "tables", "row">>

Everything == ToSet(BuildSchema)

Installing == {"install", "again"}

ProvisionTypeOK ==
  /\ transactional \in BOOLEAN
  /\ objects \subseteq Everything
  /\ versions \subseteq {SCHEMA_VERSION, OtherVersion}
  /\ prov \in [Node -> {"down", "check", "verify", "ok", "failed"} \cup Installing]
  /\ at \in [Node -> 1 .. Len(BuildSchema)]
  /\ blind \subseteq Node

\* A fresh database, or one that another version is installed in.
ProvisionInit ==
  /\ transactional \in BOOLEAN
  /\ \/ objects = {} /\ versions = {}
     \/ objects = Everything /\ versions = {OtherVersion}
  /\ prov = [n \in Node |-> "down"]
  /\ at = [n \in Node |-> 1]
  /\ blind = {}

Goto(n, p) == prov' = [prov EXCEPT ![n] = p] /\ at' = [at EXCEPT ![n] = 1]

Begin(n) ==
  /\ prov[n] \in {"down", "ok", "failed"}
  /\ Goto(n, "check")
  /\ UNCHANGED <<transactional, objects, versions, blind>>

\* version_table_exists
Check(n) ==
  /\ prov[n] = "check"
  /\ Goto(n, IF "version" \in objects THEN "verify" ELSE "install")
  /\ UNCHANGED <<transactional, objects, versions, blind>>

\* DuplicateObjectError of CREATE TYPE: run the script again without it.  A
\* mutant: the error is taken to mean that another node has installed it all.
DuplicateMeansInstalled(n) ==
  /\ Goto(n, "ok") /\ UNCHANGED <<transactional, objects, versions, blind>>

DuplicateObject(n) ==
  /\ prov' = [prov EXCEPT ![n] = "again"] /\ at' = [at EXCEPT ![n] = 2]
  /\ UNCHANGED <<transactional, objects, versions, blind>>

TypeExists(n) == prov[n] = "install" /\ at[n] = 1 /\ "type" \in objects

\* A statement that is already done is a no-op; a row of another version would
\* not keep this one out, the version being the primary key.
Execute(statements) ==
  /\ objects' = objects \cup statements
  /\ versions' = versions \cup (IF "row" \in statements THEN {SCHEMA_VERSION} ELSE {})

\* run_script, statement by statement.
RunStatement(n) ==
  /\ prov[n] \in Installing /\ ~transactional
  /\ IF TypeExists(n) THEN DuplicateObject(n)
     ELSE /\ Execute({BuildSchema[at[n]]})
          /\ IF at[n] = Len(BuildSchema) THEN Goto(n, "ok")
             ELSE at' = [at EXCEPT ![n] = @ + 1] /\ UNCHANGED prov
          /\ UNCHANGED <<transactional, blind>>

\* run_script as the transaction it is on PostgreSQL.
RunScript(n) ==
  /\ prov[n] \in Installing /\ transactional
  /\ IF TypeExists(n) THEN DuplicateObject(n)
     ELSE /\ Execute(Everything) /\ Goto(n, "ok")
          /\ UNCHANGED <<transactional, blind>>

\* get_version, MigrationRequiredError.
Verify(n) ==
  /\ prov[n] = "verify"
  /\ \/ versions = {} /\ Goto(n, "ok") /\ blind' = blind \cup {n}
     \/ \E v \in versions : /\ Goto(n, IF v = SCHEMA_VERSION THEN "ok" ELSE "failed")
                            /\ UNCHANGED blind
  /\ UNCHANGED <<transactional, objects, versions>>

\* Any other error of a statement (two CREATEs that collide are one), or the end
\* of the process: start() raises.  A script on PostgreSQL leaves nothing behind.
Fail(n) ==
  /\ prov[n] \in {"check", "verify"} \cup Installing
  /\ Goto(n, "failed")
  /\ UNCHANGED <<transactional, objects, versions, blind>>

Provisioning(n) == Check(n) \/ RunStatement(n) \/ RunScript(n) \/ Verify(n) \/ Fail(n)

ProvisionNext == \E n \in Node : Begin(n) \/ Provisioning(n)

ProvisionSpec == ProvisionInit /\ [][ProvisionNext]_provVars

\* A start that got through provisioning has the whole schema of its version,
\* whoever installed it, in how many attempts, and whatever two nodes did at
\* once (_provision, "a retry must complete the install").  The exception is
\* a version table without its row, which is taken for an install; on a
\* database with transactional DDL nobody ever sees one.
ProvisionedComplete ==
  /\ \A n \in Node \ blind :
       prov[n] = "ok" => objects = Everything /\ SCHEMA_VERSION \in versions
  /\ transactional => blind = {}
=============================================================================

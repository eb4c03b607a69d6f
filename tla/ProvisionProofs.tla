-------------------------- MODULE ProvisionProofs --------------------------
(***************************************************************************)
(* Who gets through _provision has the schema, for any number of processes *)
(* that start, fail and start again, on either kind of database.           *)
(***************************************************************************)
EXTENDS Provision, TLAPS

Complete == objects = Everything /\ SCHEMA_VERSION \in versions

\* A script under way has done what comes before its next statement.
ScriptsInOrder ==
  \A n \in Node : prov[n] \in Installing =>
    \A k \in 1 .. 4 : k < at[n] => BuildSchema[k] \in objects

\* The version row is the last thing to appear; with transactional DDL it appears
\* together with all the rest.
RowIsLast ==
  /\ versions # {} => objects = Everything
  /\ "row" \in objects => versions # {}
  /\ transactional => objects = {} \/ versions # {}

VersionSeen == \A n \in Node : prov[n] = "verify" => "version" \in objects

ProvisionInv ==
  ProvisionTypeOK /\ ScriptsInOrder /\ RowIsLast /\ VersionSeen /\ ProvisionedComplete

-----------------------------------------------------------------------------
\* The install script, spelled out.
LEMMA ScriptFacts ==
  /\ Len(BuildSchema) = 4
  /\ BuildSchema[1] = "type" /\ BuildSchema[2] = "version"
  /\ BuildSchema[3] = "tables" /\ BuildSchema[4] = "row"
  /\ Everything = {"type", "version", "tables", "row"}
<1>1. /\ Len(BuildSchema) = 4
      /\ BuildSchema[1] = "type" /\ BuildSchema[2] = "version"
      /\ BuildSchema[3] = "tables" /\ BuildSchema[4] = "row"
  BY DEF BuildSchema
<1>2. DOMAIN BuildSchema = 1 .. 4
  BY DEF BuildSchema
<1>3. Everything = {BuildSchema[i] : i \in 1 .. 4}
  BY <1>2 DEF Everything, ToSet
<1>4. 1 .. 4 = {1, 2, 3, 4}
  OBVIOUS
<1> QED
  BY <1>1, <1>3, <1>4

LEMMA ProvisionInitOK == ProvisionInit => ProvisionInv
<1> SUFFICES ASSUME ProvisionInit PROVE ProvisionInv
  OBVIOUS
<1>1. ProvisionTypeOK /\ ScriptsInOrder /\ VersionSeen
  BY ScriptFacts DEF ProvisionInit, ProvisionTypeOK, ScriptsInOrder, VersionSeen, Installing
<1>2. RowIsLast /\ ProvisionedComplete
  BY ScriptFacts DEF ProvisionInit, RowIsLast, ProvisionedComplete
<1> QED
  BY <1>1, <1>2 DEF ProvisionInv

\* A step that leaves the tables alone and takes no node to the end of
\* provisioning, or past a statement, keeps what is known.
LEMMA MoveOK ==
  ASSUME ProvisionInv, NEW n \in Node, NEW p, Goto(n, p),
         UNCHANGED <<transactional, objects, versions>>,
         p \in {"check", "verify", "install", "failed"}, blind' = blind,
         p = "verify" => "version" \in objects
  PROVE  ProvisionInv'
<1>1. ProvisionTypeOK'
  BY ScriptFacts DEF ProvisionInv, ProvisionTypeOK, Goto, Installing
<1>2. ScriptsInOrder'
  BY DEF ProvisionInv, ProvisionTypeOK, ScriptsInOrder, Goto
<1>3. RowIsLast' /\ VersionSeen'
  BY DEF ProvisionInv, ProvisionTypeOK, RowIsLast, VersionSeen, Goto
<1>4. ProvisionedComplete'
  BY DEF ProvisionInv, ProvisionTypeOK, ProvisionedComplete, Goto
<1> QED
  BY <1>1, <1>2, <1>3, <1>4 DEF ProvisionInv

\* CREATE TYPE found its type: the second script starts after it.
LEMMA DuplicateOK ==
  ASSUME ProvisionInv, NEW n \in Node, TypeExists(n), DuplicateObject(n)
  PROVE  ProvisionInv'
<1>1. ProvisionTypeOK'
  BY ScriptFacts DEF ProvisionInv, ProvisionTypeOK, DuplicateObject, Installing
<1>2. ScriptsInOrder'
  <2> SUFFICES ASSUME NEW m \in Node, prov'[m] \in Installing,
                      NEW k \in 1 .. 4, k < at'[m]
               PROVE  BuildSchema[k] \in objects'
    BY DEF ScriptsInOrder
  <2>1. CASE m = n
    <3>1. k = 1
      BY <2>1 DEF DuplicateObject, ProvisionInv, ProvisionTypeOK
    <3> QED
      BY <3>1, ScriptFacts DEF TypeExists, DuplicateObject
  <2>2. CASE m # n
    BY <2>2 DEF ProvisionInv, ProvisionTypeOK, ScriptsInOrder, DuplicateObject
  <2> QED
    BY <2>1, <2>2
<1>3. RowIsLast' /\ VersionSeen' /\ ProvisionedComplete'
  BY DEF ProvisionInv, ProvisionTypeOK, RowIsLast, VersionSeen, ProvisionedComplete,
         DuplicateObject
<1> QED
  BY <1>1, <1>2, <1>3 DEF ProvisionInv

\* One statement of the script: the last finds everything else done.
LEMMA StatementOK ==
  ASSUME ProvisionInv, NEW n \in Node, RunStatement(n)
  PROVE  ProvisionInv'
<1>1. CASE TypeExists(n)
  BY <1>1, DuplicateOK DEF RunStatement
<1>2. CASE ~TypeExists(n)
  <2> DEFINE s == BuildSchema[at[n]]
  <2>1. /\ at[n] \in 1 .. 4 /\ prov[n] \in Installing /\ ~transactional
        /\ objects' = objects \cup {s}
        /\ versions' = versions \cup (IF s = "row" THEN {SCHEMA_VERSION} ELSE {})
        /\ blind' = blind /\ transactional' = transactional
    BY <1>2, ScriptFacts DEF RunStatement, Execute, ProvisionInv, ProvisionTypeOK
  <2>2. s \in Everything /\ (s = "row" <=> at[n] = 4)
    BY <2>1, ScriptFacts
  <2>3. at[n] = 4 => objects' = Everything
    <3> SUFFICES ASSUME at[n] = 4 PROVE objects' = Everything
      OBVIOUS
    <3>1. \A k \in 1 .. 3 : BuildSchema[k] \in objects
      BY <2>1 DEF ProvisionInv, ScriptsInOrder
    <3>2. {"type", "version", "tables"} \subseteq objects
      BY <3>1, ScriptFacts
    <3> QED
      BY <2>1, <2>2, <3>2, ScriptFacts DEF ProvisionInv, ProvisionTypeOK
  <2>4. \/ at[n] = 4 /\ prov' = [prov EXCEPT ![n] = "ok"] /\ at' = [at EXCEPT ![n] = 1]
        \/ at[n] < 4 /\ prov' = prov /\ at' = [at EXCEPT ![n] = @ + 1]
    BY <1>2, <2>1, ScriptFacts DEF RunStatement, Goto
  <2> HIDE DEF s
  <2>5. ProvisionTypeOK'
    BY <2>1, <2>2, <2>4, ScriptFacts DEF ProvisionInv, ProvisionTypeOK
  <2>6. ScriptsInOrder'
    <3> SUFFICES ASSUME NEW m \in Node, prov'[m] \in Installing,
                        NEW k \in 1 .. 4, k < at'[m]
                 PROVE  BuildSchema[k] \in objects'
      BY DEF ScriptsInOrder
    <3>1. CASE m = n
      <4>1. prov'[n] = prov[n] /\ at'[n] = at[n] + 1
        BY <2>1, <2>4, <3>1 DEF ProvisionInv, ProvisionTypeOK, Installing
      <4>2. CASE k < at[n]
        BY <2>1, <4>2 DEF ProvisionInv, ScriptsInOrder
      <4>3. CASE k = at[n]
        BY <2>1, <4>3 DEF s
      <4> QED
        BY <2>1, <3>1, <4>1, <4>2, <4>3
    <3>2. CASE m # n
      BY <2>1, <2>4, <3>2 DEF ProvisionInv, ProvisionTypeOK, ScriptsInOrder
    <3> QED
      BY <3>1, <3>2
  <2>7. RowIsLast'
    BY <2>1, <2>2, <2>3, ScriptFacts DEF ProvisionInv, ProvisionTypeOK, RowIsLast
  <2>8. VersionSeen'
    BY <2>1, <2>4 DEF ProvisionInv, ProvisionTypeOK, VersionSeen
  <2>9. ProvisionedComplete'
    <3>1. ASSUME NEW m \in Node \ blind', prov'[m] = "ok"
          PROVE  objects' = Everything /\ SCHEMA_VERSION \in versions'
      <4>1. CASE at[n] = 4
        BY <2>1, <2>2, <2>3, <4>1
      <4>2. CASE at[n] < 4
        BY <2>1, <2>2, <2>4, <3>1, <4>2 DEF ProvisionInv, ProvisionedComplete, ProvisionTypeOK
      <4> QED
        BY <2>1, <4>1, <4>2
    <3> QED
      BY <2>1, <3>1 DEF ProvisionedComplete
  <2> QED
    BY <2>5, <2>6, <2>7, <2>8, <2>9 DEF ProvisionInv
<1> QED
  BY <1>1, <1>2

\* The script as one transaction.
LEMMA ScriptOK ==
  ASSUME ProvisionInv, NEW n \in Node, RunScript(n)
  PROVE  ProvisionInv'
<1>1. CASE TypeExists(n)
  BY <1>1, DuplicateOK DEF RunScript
<1>2. CASE ~TypeExists(n)
  <2>1. /\ objects' = Everything /\ versions' = versions \cup {SCHEMA_VERSION}
        /\ blind' = blind /\ transactional' = transactional
        /\ prov' = [prov EXCEPT ![n] = "ok"] /\ at' = [at EXCEPT ![n] = 1]
    BY <1>2, ScriptFacts DEF RunScript, Execute, Goto, ProvisionInv, ProvisionTypeOK
  <2>2. ProvisionTypeOK' /\ RowIsLast' /\ VersionSeen'
    BY <2>1, ScriptFacts DEF ProvisionInv, ProvisionTypeOK, RowIsLast, VersionSeen
  <2>3. ScriptsInOrder'
    BY <2>1, ScriptFacts DEF ScriptsInOrder
  <2>4. ProvisionedComplete'
    BY <2>1 DEF ProvisionInv, ProvisionTypeOK, ProvisionedComplete
  <2> QED
    BY <2>2, <2>3, <2>4 DEF ProvisionInv
<1> QED
  BY <1>1, <1>2

\* A version table without a row is accepted, and remembered in blind.
LEMMA VerifyOK ==
  ASSUME ProvisionInv, NEW n \in Node, Verify(n)
  PROVE  ProvisionInv'
<1>1. UNCHANGED <<transactional, objects, versions>> /\ prov[n] = "verify"
  BY DEF Verify
<1>2. CASE versions = {} /\ Goto(n, "ok") /\ blind' = blind \cup {n}
  <2>1. ~transactional
    BY <1>1, <1>2 DEF ProvisionInv, VersionSeen, RowIsLast
  <2>2. ProvisionTypeOK' /\ RowIsLast' /\ VersionSeen' /\ ScriptsInOrder'
    BY <1>1, <1>2, ScriptFacts
       DEF ProvisionInv, ProvisionTypeOK, RowIsLast, VersionSeen, ScriptsInOrder, Goto,
           Installing
  <2>3. ProvisionedComplete'
    BY <1>1, <1>2, <2>1 DEF ProvisionInv, ProvisionTypeOK, ProvisionedComplete, Goto
  <2> QED
    BY <2>2, <2>3 DEF ProvisionInv
<1>3. CASE \E v \in versions : /\ Goto(n, IF v = SCHEMA_VERSION THEN "ok" ELSE "failed")
                               /\ blind' = blind
  <2>1. PICK v \in versions : /\ Goto(n, IF v = SCHEMA_VERSION THEN "ok" ELSE "failed")
                              /\ blind' = blind
    BY <1>3
  <2>2. CASE v # SCHEMA_VERSION
    BY <1>1, <2>1, <2>2, MoveOK
  <2>3. CASE v = SCHEMA_VERSION
    <3>1. Goto(n, "ok") /\ objects = Everything
      BY <2>1, <2>3 DEF ProvisionInv, RowIsLast
    <3>2. ProvisionTypeOK' /\ RowIsLast' /\ VersionSeen' /\ ScriptsInOrder'
      BY <1>1, <2>1, <3>1, ScriptFacts
         DEF ProvisionInv, ProvisionTypeOK, RowIsLast, VersionSeen, ScriptsInOrder, Goto,
             Installing
    <3>3. ProvisionedComplete'
      BY <1>1, <2>1, <2>3, <3>1
         DEF ProvisionInv, ProvisionTypeOK, ProvisionedComplete, Goto
    <3> QED
      BY <3>2, <3>3 DEF ProvisionInv
  <2> QED
    BY <2>2, <2>3
<1> QED
  BY <1>2, <1>3 DEF Verify

LEMMA ProvisionStepOK ==
  ASSUME ProvisionInv, [ProvisionNext]_provVars
  PROVE  ProvisionInv'
<1>1. ASSUME NEW n \in Node, Begin(n) PROVE ProvisionInv'
  BY <1>1, MoveOK DEF Begin
<1>2. ASSUME NEW n \in Node, Check(n) PROVE ProvisionInv'
  BY <1>2, MoveOK DEF Check
<1>3. ASSUME NEW n \in Node, RunStatement(n) PROVE ProvisionInv'
  BY <1>3, StatementOK
<1>4. ASSUME NEW n \in Node, RunScript(n) PROVE ProvisionInv'
  BY <1>4, ScriptOK
<1>5. ASSUME NEW n \in Node, Verify(n) PROVE ProvisionInv'
  BY <1>5, VerifyOK
<1>6. ASSUME NEW n \in Node, Fail(n) PROVE ProvisionInv'
  BY <1>6, MoveOK DEF Fail
<1>7. ASSUME UNCHANGED provVars PROVE ProvisionInv'
  BY <1>7 DEF provVars, ProvisionInv, ProvisionTypeOK, ScriptsInOrder, RowIsLast,
              VersionSeen, ProvisionedComplete
<1> QED
  BY <1>1, <1>2, <1>3, <1>4, <1>5, <1>6, <1>7 DEF ProvisionNext, Provisioning

LEMMA ProvisionInvariant == ProvisionSpec => []ProvisionInv
<1>1. ProvisionInit => ProvisionInv
  BY ProvisionInitOK
<1>2. ProvisionInv /\ [ProvisionNext]_provVars => ProvisionInv'
  BY ProvisionStepOK
<1> QED
  BY <1>1, <1>2, PTL DEF ProvisionSpec

\* A start that got through provisioning without being blind has the whole schema
\* of its version, and with transactional DDL no start is blind.
THEOREM ProvisioningCompletes == ProvisionSpec => []ProvisionedComplete
<1>1. ProvisionInv => ProvisionedComplete
  BY DEF ProvisionInv
<1> QED
  BY <1>1, ProvisionInvariant, PTL
=============================================================================

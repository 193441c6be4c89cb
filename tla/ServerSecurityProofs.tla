------------------------ MODULE ServerSecurityProofs ------------------------
(***************************************************************************)
(* Proofs about ServerSecurity, for every number of generations.  The      *)
(* inductive invariant has five parts: what is known of the database alone *)
(* (DatabaseInv), how the API depends on it (UpInv), of the pair of files  *)
(* (PairInv), of a runtime that reads it (ReadInv), and of the policies on *)
(* their way from the row to the endpoints (PolicyInv).                    *)
(***************************************************************************)
EXTENDS ServerSecurity, TLAPS

(***************************************************************************)
(* The tables are those of the version, except after a first start that    *)
(* was cut; what a later migration builds on is there in any case.         *)
(***************************************************************************)
SchemaInv ==
  /\ version = -1 => schema = {}
  /\ version >= 2 => "object_nodes" \in schema
  /\ version >= 4 => "connections" \in schema
  /\ version = 0 => cutShort
  /\ ~cutShort /\ version \in 1 .. 3 => schema = SchemaOf(version)
  /\ legacy # "lost"
  /\ legacy = "s7" => version \in 1 .. 3 /\ "s7" \in schema

DatabaseInv == DatabaseTypeOK /\ SchemaInv /\ CachedIsCurrent

(* The steps of the database, whoever makes them. *)
DatabaseNext ==
  \/ Create \/ Migrate \/ CreateCut \/ Trouble
  \/ \E columns \in {"all", "certificate"} : readWithCache(columns)
  \/ \E row \in Row : Update(row)

UpInv ==
  /\ api = "up" => version >= FreshVersion
  /\ api = "refused" => cutShort

(* Somebody has been told to use the generated pair. *)
OwnPair == "own" \in {table.paths, config.paths, served.paths}

(* The key is the last one generated, or no whole key; no certificate is   *)
(* of a later generation.                                                  *)
NoneIsLater ==
  /\ certFile \in Generation => certFile <= generated
  /\ keyFile \in Generation => keyFile = generated

PairInv ==
  /\ generating # "idle" => api = "up"
  /\ generating \in {"chmod", "certificate"} => keyFile = generated /\ generated \in Generation
  /\ generating = "record" /\ ~damaged => certFile # Missing
  /\ ~damaged => certFile # Part
  /\ ~damaged /\ generating \in {"idle", "record"} => keyFile = certFile
  /\ ~damaged /\ OwnPair => certFile # Missing
  /\ NoneIsLater

ReadInv ==
  /\ runtime # "none" => api = "up"
  /\ runtime \in {"starting", "halfway"} /\ ~doubtful => generating \in {"idle", "record"}
  /\ runtime = "halfway" /\ ~doubtful =>
       ~damaged /\ holds.cert = certFile /\ certFile \in Generation
  /\ runtime = "halfway" =>
       holds.cert # Missing /\ (holds.cert \in Generation => holds.cert <= generated)

PolicyInv ==
  /\ table.mode # "None" => table.paths # "none"
  /\ restarting => api = "up"
  /\ ~unserved /\ dirs =>
       /\ restarting => config.mode = table.mode
       /\ ~restarting /\ runtime \in {"starting", "halfway", "running"} =>
            served.mode = table.mode

SecurityInv ==
  /\ TypeOK /\ DatabaseInv /\ UpInv
  /\ PairInv /\ ReadInv /\ PairInForce /\ PolicyInv

-----------------------------------------------------------------------------
(* What each migration does, spelled out. *)
LEMMA Migrations ==
  /\ Migration(2) = Migration2 /\ Migration(3) = Migration3
  /\ Migration(4) = Migration4 /\ Migration(5) = Migration5
BY SMT DEF Migration

(* The rows of a partial or failed query are none of those of Rows. *)
LEMMA NoRowsInRows == NoRows \notin Rows /\ Miss \notin Rows
<1>1. \A entry \in Rows : entry.columns \in {"all", "certificate"}
  BY DEF Rows
<1>2. NoRows.columns = "noRows" /\ Miss.columns = "miss"
  BY DEF NoRows, Miss
<1> QED
  BY <1>1, <1>2

(* A record of all or some columns of a row is one of Rows. *)
LEMMA RowsOf ==
  ASSUME NEW columns \in {"all", "certificate"}, NEW row \in Row
  PROVE  [columns |-> columns, row |-> row] \in Rows
BY DEF Rows

(***************************************************************************)
(* The pending migrations, whatever the version they begin at: they end    *)
(* with the tables of today, and the rows of old releases find theirs.     *)
(***************************************************************************)
LEMMA Upgraded ==
  ASSUME DatabaseTypeOK, SchemaInv, version # -1
  PROVE  /\ {"object_nodes", "connections"} \subseteq After5 /\ After5 \subseteq Feature
         /\ legacy = "s7" => 4 \in Pending /\ "s7" \in After3
<1> USE Migrations DEF Migrated, Pending, CurrentVersion, Feature
<1>1. version \in 0 .. 5 /\ schema \subseteq Feature
  BY DEF DatabaseTypeOK
<1>2. "object_nodes" \in After2 /\ After2 \subseteq Feature /\ ("s7" \in schema => "s7" \in After2)
  <2>1. CASE 2 \in Pending
    <3>1. After2 = (schema \cup Migration2.adds) \ Migration2.drops
      BY <2>1, Zenon DEF After2
    <3> QED
      BY <1>1, <3>1 DEF Migration2
  <2>2. CASE 2 \notin Pending
    <3>1. After2 = schema /\ version >= 2
      BY <1>1, <2>2, SMT DEF After2
    <3> QED
      BY <1>1, <3>1 DEF SchemaInv
  <2> QED
    BY <2>1, <2>2
<1>3. "object_nodes" \in After3 /\ After3 \subseteq Feature /\ ("s7" \in After2 => "s7" \in After3)
  <2>1. After3 = After2 \/ After3 = (After2 \cup Migration3.adds) \ Migration3.drops
    BY Zenon DEF After3
  <2> QED
    BY <1>2, <2>1 DEF Migration3
<1>4. version >= 4 => "connections" \in After3
  BY <1>1, SMT DEF After2, After3, SchemaInv
<1>5. {"object_nodes", "connections"} \subseteq After4 /\ After4 \subseteq Feature
  <2>1. CASE 4 \in Pending
    <3>1. After4 = (After3 \cup Migration4.adds) \ Migration4.drops
      BY <2>1, Zenon DEF After4
    <3> QED
      BY <1>3, <3>1 DEF Migration4
  <2>2. CASE 4 \notin Pending
    <3>1. After4 = After3 /\ version >= 4
      BY <1>1, <2>2, SMT DEF After4
    <3> QED
      BY <1>3, <1>4, <3>1
  <2> QED
    BY <2>1, <2>2
<1>6. {"object_nodes", "connections"} \subseteq After5 /\ After5 \subseteq Feature
  <2>1. After5 = After4 \/ After5 = (After4 \cup Migration5.adds) \ Migration5.drops
    BY Zenon DEF After5
  <2> QED
    BY <1>5, <2>1 DEF Migration5
<1>7. legacy = "s7" => 4 \in Pending /\ "s7" \in After3
  BY <1>1, <1>2, <1>3, SMT DEF SchemaInv
<1> QED
  BY <1>6, <1>7

(***************************************************************************)
(* A file that no first start was cut on goes through all its migrations.  *)
(***************************************************************************)
LEMMA UncutOpens ==
  ASSUME DatabaseTypeOK, SchemaInv, version # -1, ~cutShort
  PROVE  Opens
<1> USE Migrations DEF Migrated, Pending, CurrentVersion
<1>1. version \in 1 .. 5 /\ (version \in 1 .. 3 => schema = SchemaOf(version))
  BY SMT DEF DatabaseTypeOK, SchemaInv
<1>2. "connections" \in Before(5)
  <2>1. CASE version >= 4
    BY <1>1, <2>1, SMT DEF SchemaInv, Before, After4, After3, After2
  <2>2. CASE version < 4
    BY <1>1, <2>2, SMT DEF Before, After4, Migration4
  <2> QED
    BY <1>1, <2>1, <2>2, SMT
<1>3. CASE version = 1
  <2>1. schema = {"folders", "s7"}
    BY <1>1, <1>3 DEF SchemaOf
  <2>2. Applies(2)
    BY <1>3, <2>1, SMT DEF Applies, Before, Migration2
  <2>3. After2 = {"object_nodes", "s7"}
    BY <1>3, <2>1, SMT DEF After2, Migration2
  <2>4. Applies(3)
    BY <1>3, <2>3, SMT DEF Applies, Before, Migration3
  <2> QED
    BY <1>2, <1>3, <2>2, <2>4, SMT DEF Opens, Applies, Migration4, Migration5
<1>4. CASE version = 2
  <2>1. After2 = {"object_nodes", "s7"}
    BY <1>1, <1>4, SMT DEF SchemaOf, After2
  <2>2. Applies(3)
    BY <1>4, <2>1, SMT DEF Applies, Before, Migration3
  <2> QED
    BY <1>2, <1>4, <2>2, SMT DEF Opens, Applies, Migration4, Migration5
<1>5. CASE version \in 3 .. 5
  BY <1>2, <1>5, SMT DEF Opens, Applies, Migration4, Migration5
<1> QED
  BY <1>1, <1>3, <1>4, <1>5, SMT

(* What the database keeps, step by step. *)
LEMMA DatabaseStep ==
  ASSUME DatabaseInv, DatabaseNext \/ UNCHANGED databaseVars
  PROVE  DatabaseInv'
<1> USE DEF DatabaseInv, CurrentVersion, FreshVersion
<1>1. CASE Create
  <2>1. schema' = {"object_nodes", "s7", "description", "connections", "uniqueNode"}
    <3>1. CreatedUpTo(5) = {Created[1], Created[2], Created[3], Created[4], Created[5]}
      BY SMT DEF CreatedUpTo
    <3> QED
      BY <1>1, <3>1, SMT DEF Create, Created
  <2>2. DatabaseTypeOK'
    BY <1>1, <2>1, SMT DEF Create, DatabaseTypeOK, Feature
  <2>3. SchemaInv'
    BY <1>1, <2>1, SMT DEF Create, SchemaInv
  <2> QED
    BY <1>1, <2>2, <2>3, NoRowsInRows DEF Create, CachedIsCurrent
<1>2. CASE Migrate
  <2>1. version # -1
    BY <1>2 DEF Migrate, Opens
  <2>2. DatabaseTypeOK'
    <3>1. legacy' \in {"none", "s7", "lost"}
      BY <1>2, SMT DEF Migrate, DatabaseTypeOK, Moved
    <3>2. schema' \subseteq Feature
      BY <1>2, <2>1, Upgraded DEF Migrate
    <3>3. version' \in -1 .. CurrentVersion
      BY <1>2, SMT DEF Migrate
    <3> QED
      BY <1>2, <3>1, <3>2, <3>3, Zenon DEF Migrate, DatabaseTypeOK
  <2>3. SchemaInv'
    BY <1>2, <2>1, Upgraded, SMT DEF Migrate, SchemaInv, Moved, DatabaseTypeOK
  <2> QED
    BY <1>2, <2>2, <2>3, NoRowsInRows DEF Migrate, CachedIsCurrent
<1>3. CASE CreateCut
  <2>1. \A k \in 0 .. 5 : CreatedUpTo(k) \subseteq Feature /\ (k = 5 => "object_nodes" \in CreatedUpTo(k))
    BY SMT DEF CreatedUpTo, Created, Feature
  <2>2. DatabaseTypeOK'
    BY <1>3, <2>1, SMT DEF CreateCut, DatabaseTypeOK
  <2>3. version' \in 0 .. 3 /\ cutShort' /\ legacy' # "s7" /\ legacy' # "lost"
    BY <1>3, SMT DEF CreateCut, SchemaInv
  <2>4. version' # 0 => schema' = CreatedUpTo(5)
    BY <1>3, SMT DEF CreateCut
  <2>5. SchemaInv'
    BY <2>1, <2>3, <2>4, SMT DEF SchemaInv
  <2> QED
    BY <1>3, <2>2, <2>5 DEF CreateCut, CachedIsCurrent
<1>4. CASE Trouble
  BY <1>4 DEF Trouble, DatabaseTypeOK, SchemaInv, CachedIsCurrent
<1>5. CASE \E columns \in {"all", "certificate"} : readWithCache(columns)
  <2>1. PICK columns \in {"all", "certificate"} : readWithCache(columns)
    BY <1>5
  <2>2. [columns |-> columns, row |-> table] \in Rows
    BY RowsOf DEF DatabaseTypeOK
  <2> QED
    BY <2>1, <2>2 DEF readWithCache, ReadWithCache, DatabaseTypeOK, SchemaInv, CachedIsCurrent
<1>6. CASE \E row \in Row : Update(row)
  <2>1. PICK row \in Row : Update(row)
    BY <1>6
  <2>2. [columns |-> "all", row |-> row] \in Rows
    BY RowsOf
  <2> QED
    BY <2>1, <2>2, NoRowsInRows DEF Update, DatabaseTypeOK, SchemaInv, CachedIsCurrent
<1>7. CASE UNCHANGED databaseVars
  BY <1>7 DEF databaseVars, DatabaseTypeOK, SchemaInv, CachedIsCurrent
<1> QED
  BY <1>1, <1>2, <1>3, <1>4, <1>5, <1>6, <1>7 DEF DatabaseNext

(* An open database stays at a version of today. *)
LEMMA VersionStays ==
  ASSUME DatabaseNext \/ UNCHANGED databaseVars, version >= FreshVersion
  PROVE  version' >= FreshVersion
BY SMT DEF DatabaseNext, databaseVars, Create, Migrate, CreateCut, Trouble, readWithCache,
           Update, FreshVersion, CurrentVersion

-----------------------------------------------------------------------------
(* The row with a new mode or other paths is a row. *)
LEMMA RowUpdates ==
  ASSUME table \in Row
  PROVE  /\ \A mode \in Mode : [table EXCEPT !.mode = mode] \in Row
         /\ \A paths \in {"none", "own", "other"} : [table EXCEPT !.paths = paths] \in Row
BY DEF Row

(* Each action makes one step of the database, or none. *)
LEMMA DatabaseSteps ==
  ASSUME TypeOK, [Next]_vars
  PROVE  DatabaseNext \/ UNCHANGED databaseVars
<1> USE DEF DatabaseNext
<1>0. table \in Row
  BY DEF TypeOK, DatabaseTypeOK
<1>1. CASE Boot
  BY <1>1 DEF Boot
<1>2. CASE BootRefused \/ ApiEnds \/ StartRuntime \/ RuntimeEnds \/ Restart \/ Chmod
  BY <1>2 DEF BootRefused, ApiEnds, StartRuntime, RuntimeEnds, Restart, Chmod
<1>3. CASE BootCut
  BY <1>3 DEF BootCut
<1>4. CASE Trouble /\ UNCHANGED <<files, apiVars, process>>
  BY <1>4
<1>5. CASE GetConfig \/ Download
  BY <1>5 DEF GetConfig, Download, get, getCertificatePath
<1>6. CASE PostCertificate
  BY <1>0, <1>6, RowUpdates DEF PostCertificate, updateCertificate
<1>7. CASE \E mode \in Mode : PutPolicy(mode)
  <2>1. PICK mode \in Mode : updatePolicy(mode)
    BY <1>7 DEF PutPolicy
  <2> QED
    BY <1>0, <2>1, RowUpdates DEF updatePolicy
<1>8. CASE \E force \in BOOLEAN : PostGenerate(force)
  BY <1>8 DEF PostGenerate
<1>9. CASE WriteCertificate \/ WriteCertificateFails
  BY <1>9 DEF WriteCertificate, WriteCertificateFails
<1>10. CASE Record
  BY <1>0, <1>10, RowUpdates DEF Record, updateCertificate
<1>11. CASE ReadCertificate \/ ReadKey \/ ServeOther \/ StartFails
  BY <1>11 DEF ReadCertificate, ReadKey, ServeOther, StartFails
<1>12. CASE UNCHANGED vars
  BY <1>12 DEF vars
<1> QED
  BY <1>1, <1>2, <1>3, <1>4, <1>5, <1>6, <1>7, <1>8, <1>9, <1>10, <1>11, <1>12 DEF Next

(* What the runtime is told is a row, of the mode of the row if it has one. *)
LEMMA ConfigOfRow ==
  ASSUME NEW row \in Row, NEW pki \in BOOLEAN
  PROVE  /\ ConfigOf(row, pki) \in Row
         /\ ConfigOf(row, pki).paths = "own" => row.paths = "own"
         /\ pki /\ (row.mode # "None" => row.paths # "none") => ConfigOf(row, pki) = row
<1>1. NoSecurity \in Row /\ NoSecurity.paths = "none"
  BY DEF NoSecurity, Row, Mode
<1> QED
  BY <1>1 DEF ConfigOf

(* The process that Spawn leaves. *)
LEMMA Spawned ==
  ASSUME NEW row \in Row, NEW pki \in BOOLEAN, Spawn(row, pki)
  PROVE  /\ config' = ConfigOf(row, pki) /\ served' = ConfigOf(row, pki) /\ config' \in Row
         /\ runtime' = "starting" /\ holds' = Nothing /\ doubtful' = FALSE
BY ConfigOfRow DEF Spawn

LEMMA Contents ==
  /\ Missing \in Content /\ Part \in Content /\ Generation \subseteq Content
  /\ Nothing \in [cert : Content, key : Content]
  /\ Missing \notin Generation /\ Part \notin Generation /\ Missing # Part
BY GenerationsAssumption, SMT DEF Missing, Part, Generation, Content, Nothing

(* A new pair is the work of a generation. *)
LEMMA NewPairIsNew ==
  ASSUME generated \in 0 .. MaxGenerations, generated < MaxGenerations
  PROVE  NewPair \in Generation /\ NewPair \in 0 .. MaxGenerations
BY GenerationsAssumption, SMT DEF NewPair, Generation

(* It is later than all there were. *)
LEMMA NewPairIsLater ==
  ASSUME generated \in 0 .. MaxGenerations, NEW g \in Generation, g <= generated
  PROVE  g <= NewPair
BY GenerationsAssumption, SMT DEF NewPair, Generation

(* Every variable keeps its type. *)
LEMMA TypeStep ==
  ASSUME TypeOK, [Next]_vars, DatabaseTypeOK'
  PROVE  TypeOK'
<1> USE Contents
<1>0. table \in Row /\ table' \in Row /\ NoSecurity \in Row
  BY DEF TypeOK, DatabaseTypeOK, NoSecurity, Row, Mode
<1>1. CASE Boot
  <2>1. config' \in Row /\ served' \in Row /\ doubtful' \in BOOLEAN
        /\ runtime' \in {"none", "starting", "halfway", "running", "failed"}
        /\ holds' \in [cert : Content, key : Content]
    BY <1>0, <1>1, Spawned DEF Boot, TypeOK, process
  <2>2. api' = "up" /\ unserved' = FALSE /\ dirs' \in BOOLEAN
    BY <1>1 DEF Boot, TypeOK
  <2>3. UNCHANGED <<generated, certFile, keyFile, readOnly, damaged, root, generating, restarting>>
    BY <1>1 DEF Boot, files, pair
  <2> QED
    BY <2>1, <2>2, <2>3, Zenon DEF TypeOK
<1>2. CASE BootRefused
  BY <1>2 DEF BootRefused, TypeOK, files, pair, process
<1>3. CASE BootCut
  BY <1>3 DEF BootCut, TypeOK, files, pair, apiVars, process
<1>4. CASE ApiEnds
  BY <1>0, <1>4 DEF ApiEnds, NoRuntime, TypeOK, pair
<1>5. CASE Trouble /\ UNCHANGED <<files, apiVars, process>>
  BY <1>5 DEF TypeOK, files, pair, apiVars, process
<1>6. CASE StartRuntime
  <2>1. config' \in Row /\ served' \in Row /\ doubtful' \in BOOLEAN
        /\ runtime' \in {"none", "starting", "halfway", "running", "failed"}
        /\ holds' \in [cert : Content, key : Content]
    BY <1>0, <1>6, Spawned DEF StartRuntime, TypeOK
  <2> QED
    BY <1>6, <2>1 DEF StartRuntime, TypeOK, files, pair
<1>7. CASE RuntimeEnds
  BY <1>0, <1>7 DEF RuntimeEnds, NoRuntime, TypeOK, files, pair, apiVars
<1>8. CASE Restart
  BY <1>8 DEF Restart, TypeOK, files, pair
<1>9. CASE GetConfig \/ Download
  BY <1>9 DEF GetConfig, Download, TypeOK, files, pair, apiVars, process
<1>10. CASE PostCertificate
  BY <1>10 DEF PostCertificate, TypeOK, files, pair, apiVars, process
<1>11. CASE \E mode \in Mode : PutPolicy(mode)
  <2>1. PICK mode \in Mode : PutPolicy(mode)
    BY <1>11
  <2>2. config' \in Row /\ restarting' \in BOOLEAN /\ unserved' \in BOOLEAN
    BY <1>0, <2>1, ConfigOfRow DEF PutPolicy, TypeOK
  <2> QED
    BY <2>1, <2>2 DEF PutPolicy, TypeOK, files, pair, process
<1>12. CASE \E force \in BOOLEAN : PostGenerate(force)
  <2>1. PICK force \in BOOLEAN : PostGenerate(force)
    BY <1>12
  <2>2. generated' = NewPair /\ NewPair \in Content /\ NewPair \in 0 .. MaxGenerations
    BY <2>1, NewPairIsNew DEF PostGenerate, TypeOK
  <2>3. keyFile' \in Content /\ damaged' \in BOOLEAN /\ doubtful' \in BOOLEAN
        /\ generating' \in {"idle", "chmod", "certificate", "record"}
    BY <2>1, <2>2 DEF PostGenerate, Touched, TypeOK
  <2> QED
    BY <2>1, <2>2, <2>3 DEF PostGenerate, TypeOK
<1>13. CASE Chmod
  BY <1>13 DEF Chmod, TypeOK, process
<1>14. CASE WriteCertificate
  <2>1. generated \in Content
    BY SMT DEF TypeOK, Content, Generation, Missing
  <2> QED
    BY <1>14, <2>1 DEF WriteCertificate, Touched, TypeOK
<1>15. CASE WriteCertificateFails
  BY <1>15 DEF WriteCertificateFails, Touched, TypeOK
<1>16. CASE Record
  BY <1>16 DEF Record, TypeOK, files, pair, process
<1>17. CASE ReadCertificate
  BY <1>17 DEF ReadCertificate, TypeOK, files, pair, apiVars
<1>18. CASE ReadKey
  BY <1>18 DEF ReadKey, TypeOK, files, pair, apiVars
<1>19. CASE ServeOther \/ StartFails
  BY <1>19 DEF ServeOther, StartFails, TypeOK, files, pair, apiVars
<1>20. CASE UNCHANGED vars
  BY <1>20 DEF vars, TypeOK, files, pair, apiVars, process
<1> QED
  BY <1>1, <1>2, <1>3, <1>4, <1>5, <1>6, <1>7, <1>8, <1>9, <1>10, <1>11, <1>12, <1>13, <1>14,
     <1>15, <1>16, <1>17, <1>18, <1>19, <1>20 DEF Next

-----------------------------------------------------------------------------
(* The version under an API that is up, and why another one would not start. *)
LEMMA UpStep ==
  ASSUME TypeOK, DatabaseInv, UpInv, [Next]_vars
  PROVE  UpInv'
<1>0. DatabaseNext \/ UNCHANGED databaseVars
  BY DatabaseSteps
<1>1. version >= FreshVersion => version' >= FreshVersion
  BY <1>0, VersionStays
<1>2. CASE Boot
  <2>1. version' >= FreshVersion
    BY <1>2, SMT DEF Boot, Create, Migrate, FreshVersion, CurrentVersion
  <2> QED
    BY <1>2, <2>1 DEF Boot, UpInv
<1>3. CASE BootRefused
  <2>1. cutShort
    BY <1>3, UncutOpens DEF BootRefused, DatabaseInv
  <2> QED
    BY <1>3, <2>1 DEF BootRefused, UpInv, databaseVars
<1>4. CASE ~Boot /\ ~BootRefused
  <2>1. api' = api \/ api' = "down"
    BY <1>4 DEF Next, vars, apiVars, BootCut, ApiEnds, StartRuntime, RuntimeEnds, Restart,
                GetConfig, Download, PostCertificate, PutPolicy, PostGenerate, Chmod,
                WriteCertificate, WriteCertificateFails, Record, ReadCertificate, ReadKey,
                ServeOther, StartFails
  <2>2. cutShort => cutShort'
    BY <1>4 DEF Next, vars, databaseVars, BootCut, CreateCut, ApiEnds, Trouble, StartRuntime,
                RuntimeEnds, Restart, GetConfig, get, Download, getCertificatePath, readWithCache,
                PostCertificate, updateCertificate, PutPolicy, updatePolicy, Update, PostGenerate,
                Chmod, WriteCertificate, WriteCertificateFails, Record, ReadCertificate, ReadKey,
                ServeOther, StartFails
  <2> QED
    BY <1>1, <2>1, <2>2 DEF UpInv
<1> QED
  BY <1>2, <1>3, <1>4

-----------------------------------------------------------------------------
(* A step that leaves the files alone, and tells nobody to use them. *)
LEMMA PairStays ==
  ASSUME PairInv, UNCHANGED <<files, api, generating>>, OwnPair' => OwnPair
  PROVE  PairInv'
BY DEF PairInv, NoneIsLater, files, pair

(* A write of the row that does not make it the generated pair. *)
LEMMA RowWritten ==
  ASSUME TypeOK, NEW mode \in Mode
  PROVE  /\ updatePolicy(mode) => table'.paths = table.paths /\ table'.mode = mode
         /\ updateCertificate("other") => table'.paths = "other" /\ table'.mode = table.mode
         /\ updateCertificate("own") => table'.paths = "own" /\ table'.mode = table.mode
BY DEF updatePolicy, updateCertificate, Update, TypeOK, DatabaseTypeOK, Row

(* The pair of files, through generations that end anywhere. *)
LEMMA PairStep ==
  ASSUME TypeOK, PairInv, [Next]_vars
  PROVE  PairInv'
<1> USE Contents
<1>0. table \in Row /\ "None" \in Mode
  BY DEF TypeOK, DatabaseTypeOK, Mode
<1>1. CASE Boot
  <2>1. UNCHANGED table
    BY <1>1 DEF Boot, Create, Migrate
  <2>2. OwnPair' => OwnPair
    BY <1>0, <1>1, <2>1, Spawned, ConfigOfRow DEF Boot, OwnPair, process
  <2>3. generating = "idle" /\ api' = "up"
    BY <1>1 DEF Boot, PairInv, NoneIsLater
  <2> QED
    BY <1>1, <2>2, <2>3 DEF Boot, PairInv, NoneIsLater, files, pair
<1>2. CASE BootRefused
  <2>1. generating = "idle" /\ OwnPair' = OwnPair
    BY <1>2 DEF BootRefused, PairInv, OwnPair, databaseVars, process
  <2> QED
    BY <1>2, <2>1 DEF BootRefused, PairInv, NoneIsLater, files, pair
<1>3. CASE BootCut
  BY <1>3, PairStays DEF BootCut, CreateCut, OwnPair, apiVars, process
<1>4. CASE ApiEnds
  <2>1. OwnPair' => OwnPair
    BY <1>4 DEF ApiEnds, NoRuntime, NoSecurity, OwnPair, databaseVars
  <2>2. generating \in {"idle", "chmod", "certificate", "record"}
    BY DEF TypeOK
  <2> QED
    BY <1>4, <2>1, <2>2 DEF ApiEnds, PairInv, NoneIsLater, pair
<1>5. CASE Trouble /\ UNCHANGED <<files, apiVars, process>>
  BY <1>5, PairStays DEF Trouble, OwnPair, apiVars, process
<1>6. CASE StartRuntime
  <2>1. dirs \in BOOLEAN /\ UNCHANGED table /\ Spawn(table, dirs)
    BY <1>6 DEF TypeOK, StartRuntime, databaseVars
  <2>2. config' = ConfigOf(table, dirs) /\ served' = ConfigOf(table, dirs)
    BY <1>0, <2>1, Spawned
  <2>3. ConfigOf(table, dirs).paths = "own" => table.paths = "own"
    BY <1>0, <2>1, ConfigOfRow
  <2>4. OwnPair' => OwnPair
    BY <2>1, <2>2, <2>3 DEF OwnPair
  <2> QED
    BY <1>6, <2>4, PairStays DEF StartRuntime
<1>7. CASE RuntimeEnds
  <2>1. OwnPair' => OwnPair
    BY <1>7 DEF RuntimeEnds, NoRuntime, NoSecurity, OwnPair, databaseVars, apiVars
  <2> QED
    BY <1>7, <2>1, PairStays DEF RuntimeEnds, apiVars
<1>8. CASE Restart
  <2>1. OwnPair' => OwnPair
    BY <1>8 DEF Restart, OwnPair, databaseVars
  <2> QED
    BY <1>8, <2>1, PairStays DEF Restart
<1>9. CASE GetConfig \/ Download
  <2>1. OwnPair' = OwnPair
    BY <1>9 DEF GetConfig, Download, get, getCertificatePath, readWithCache, OwnPair, apiVars,
                process
  <2> QED
    BY <1>9, <2>1, PairStays DEF GetConfig, Download, apiVars
<1>10. CASE PostCertificate
  <2>1. OwnPair' => OwnPair
    BY <1>0, <1>10, RowWritten DEF PostCertificate, OwnPair, apiVars, process
  <2> QED
    BY <1>10, <2>1, PairStays DEF PostCertificate, apiVars
<1>11. CASE \E mode \in Mode : PutPolicy(mode)
  <2>1. PICK mode \in Mode : PutPolicy(mode)
    BY <1>11
  <2>2. table'.paths = table.paths /\ table' \in Row
    BY <1>0, <2>1, RowWritten, RowUpdates DEF PutPolicy, updatePolicy, Update
  <2>3. dirs \in BOOLEAN /\ UNCHANGED served
    BY <2>1 DEF TypeOK, PutPolicy, process
  <2>4. ConfigOf(table', dirs).paths = "own" => table'.paths = "own"
    BY <2>2, <2>3, ConfigOfRow
  <2>5. config' = config \/ config' = ConfigOf(table', dirs)
    BY <2>1 DEF PutPolicy
  <2>6. OwnPair' => OwnPair
    BY <2>2, <2>3, <2>4, <2>5 DEF OwnPair
  <2> QED
    BY <2>1, <2>6, PairStays DEF PutPolicy
<1>12. CASE \E force \in BOOLEAN : PostGenerate(force)
  <2>1. PICK force \in BOOLEAN : PostGenerate(force)
    BY <1>12
  <2>2. generated' = NewPair /\ NewPair \in Generation
    BY <2>1, NewPairIsNew DEF PostGenerate, TypeOK
  <2>3. OwnPair' = OwnPair
    BY <2>1 DEF PostGenerate, OwnPair, databaseVars
  <2>4. NoneIsLater'
    BY <2>1, <2>2, NewPairIsLater DEF PostGenerate, PairInv, NoneIsLater, TypeOK
  <2> QED
    BY <2>1, <2>2, <2>3, <2>4 DEF PostGenerate, Serving, PairInv
<1>13. CASE Chmod
  <2>1. OwnPair' = OwnPair
    BY <1>13 DEF Chmod, OwnPair, databaseVars, process
  <2> QED
    BY <1>13, <2>1 DEF Chmod, PairInv, NoneIsLater
<1>14. CASE WriteCertificate
  <2>1. generated <= generated
    BY DEF TypeOK
  <2> QED
    BY <1>14, <2>1 DEF WriteCertificate, PairInv, NoneIsLater
<1>15. CASE WriteCertificateFails
  BY <1>15 DEF WriteCertificateFails, PairInv, NoneIsLater
<1>16. CASE Record
  <2>1. ~damaged => certFile # Missing
    BY <1>16 DEF Record, PairInv, NoneIsLater
  <2> QED
    BY <1>16, <2>1 DEF Record, PairInv, NoneIsLater, files, pair
<1>17. CASE ReadCertificate \/ ReadKey \/ ServeOther \/ StartFails
  <2>1. OwnPair' = OwnPair
    BY <1>17 DEF ReadCertificate, ReadKey, ServeOther, StartFails, OwnPair, databaseVars, apiVars
  <2> QED
    BY <1>17, <2>1, PairStays DEF ReadCertificate, ReadKey, ServeOther, StartFails, apiVars
<1>18. CASE UNCHANGED vars
  BY <1>18, PairStays DEF vars, OwnPair, databaseVars, apiVars, process
<1> QED
  BY <1>1, <1>2, <1>3, <1>4, <1>5, <1>6, <1>7, <1>8, <1>9, <1>10, <1>11, <1>12, <1>13, <1>14,
     <1>15, <1>16, <1>17, <1>18 DEF Next

(* A step that leaves the runtime, the files and the generation alone. *)
LEMMA ReadStays ==
  ASSUME ReadInv, PairInForce, UNCHANGED <<process, files, api, generating>>
  PROVE  ReadInv' /\ PairInForce'
BY DEF ReadInv, PairInForce, process, files, pair

(* A runtime that has just been spawned has read nothing. *)
LEMMA ReadStarts ==
  ASSUME runtime' = "starting", api' = "up", generating' = "idle"
  PROVE  ReadInv' /\ PairInForce'
BY DEF ReadInv, PairInForce

(* And none reads anything. *)
LEMMA ReadEnds ==
  ASSUME NoRuntime
  PROVE  ReadInv' /\ PairInForce'
BY DEF NoRuntime, NoSecurity, ReadInv, PairInForce

(* The runtime that reads the pair, while it is replaced. *)
LEMMA ReadStep ==
  ASSUME TypeOK, PairInv, ReadInv, PairInForce, [Next]_vars
  PROVE  ReadInv' /\ PairInForce'
<1> USE Contents
<1>0. table \in Row
  BY DEF TypeOK, DatabaseTypeOK
<1>1. CASE Boot
  <2>1. generating' = "idle" /\ api' = "up"
    BY <1>1 DEF Boot, PairInv, NoneIsLater
  <2>2. CASE Spawn(table, TRUE)
    BY <1>0, <2>1, <2>2, Spawned, ReadStarts
  <2>3. CASE UNCHANGED process
    <3>1. runtime = "none"
      BY <1>1 DEF Boot, ReadInv
    <3> QED
      BY <1>1, <2>3, <3>1 DEF ReadInv, PairInForce, process
  <2> QED
    BY <1>1, <2>2, <2>3 DEF Boot
<1>2. CASE BootRefused
  <2>1. runtime = "none"
    BY <1>2 DEF BootRefused, ReadInv
  <2> QED
    BY <1>2, <2>1 DEF BootRefused, ReadInv, PairInForce, process
<1>3. CASE BootCut
  BY <1>3, ReadStays DEF BootCut, files, pair, apiVars
<1>4. CASE ApiEnds
  BY <1>4, ReadEnds DEF ApiEnds
<1>5. CASE Trouble /\ UNCHANGED <<files, apiVars, process>>
  BY <1>5, ReadStays DEF files, pair, apiVars
<1>6. CASE StartRuntime
  BY <1>0, <1>6, Spawned, ReadStarts DEF StartRuntime, Serving, TypeOK
<1>7. CASE RuntimeEnds
  BY <1>7, ReadEnds DEF RuntimeEnds
<1>8. CASE Restart
  BY <1>8, ReadStarts DEF Restart
<1>9. CASE GetConfig \/ Download \/ PostCertificate
  BY <1>9, ReadStays DEF GetConfig, Download, PostCertificate, files, pair, apiVars
<1>10. CASE \E mode \in Mode : PutPolicy(mode)
  BY <1>10, ReadStays DEF PutPolicy, files, pair
<1>11. CASE \E force \in BOOLEAN : PostGenerate(force)
  <2>1. PICK force \in BOOLEAN : PostGenerate(force)
    BY <1>11
  <2>2. generated' = NewPair
    BY <2>1 DEF PostGenerate
  <2>3. holds.cert \in Generation /\ holds.cert <= generated => holds.cert <= generated'
    BY <2>2, NewPairIsLater DEF TypeOK
  <2> QED
    BY <2>1, <2>3 DEF PostGenerate, Touched, Serving, ReadInv, PairInForce
<1>12. CASE Chmod
  BY <1>12 DEF Chmod, ReadInv, PairInForce, process
<1>13. CASE WriteCertificate
  BY <1>13 DEF WriteCertificate, Touched, ReadInv, PairInForce
<1>14. CASE WriteCertificateFails
  BY <1>14 DEF WriteCertificateFails, Touched, ReadInv, PairInForce
<1>15. CASE Record
  BY <1>15 DEF Record, ReadInv, PairInForce, files, pair, process
<1>16. CASE ReadCertificate
  <2>1. ~doubtful' => ~damaged /\ ~doubtful
    BY <1>16 DEF ReadCertificate
  <2>2. ~doubtful' => certFile \in Generation /\ certFile' = certFile /\ ~damaged'
    BY <1>16, <2>1 DEF ReadCertificate, ReadInv, PairInv, TypeOK, Content, files, pair
  <2>3. holds'.cert = certFile
    BY <1>16 DEF ReadCertificate, TypeOK
  <2>4. certFile # Missing /\ (certFile \in Generation => certFile <= generated)
    BY <1>16 DEF ReadCertificate, PairInv, NoneIsLater
  <2> QED
    BY <1>16, <2>1, <2>2, <2>3, <2>4 DEF ReadCertificate, ReadInv, PairInForce, apiVars, files
<1>17. CASE ReadKey
  <2>1. ~doubtful' => holds.cert = keyFile /\ holds.cert \in Generation
    BY <1>17 DEF ReadKey, ReadInv, PairInv
  <2>2. holds'.cert = holds.cert /\ holds'.key = keyFile
    BY <1>17 DEF ReadKey, TypeOK
  <2>3. keyFile \in Generation /\ holds.cert \in Generation
    BY <1>17 DEF ReadKey, ReadInv, TypeOK, Content
  <2>4. holds.cert <= keyFile
    BY <1>17, <2>3 DEF ReadKey, ReadInv, PairInv, NoneIsLater
  <2> QED
    BY <1>17, <2>1, <2>2, <2>3, <2>4 DEF ReadKey, ReadInv, PairInForce, apiVars
<1>18. CASE ServeOther
  BY <1>18 DEF ServeOther, ReadInv, PairInForce, apiVars
<1>19. CASE StartFails
  <2>1. served.mode # "None" /\ served.paths = "own" => doubtful'
    BY <1>19 DEF StartFails, ReadInv, PairInv, OwnPair
  <2> QED
    BY <1>19, <2>1 DEF StartFails, ReadInv, PairInForce, apiVars
<1>20. CASE UNCHANGED vars
  BY <1>20, ReadStays DEF vars, files, pair, apiVars
<1> QED
  BY <1>1, <1>2, <1>3, <1>4, <1>5, <1>6, <1>7, <1>8, <1>9, <1>10, <1>11, <1>12, <1>13, <1>14,
     <1>15, <1>16, <1>17, <1>18, <1>19, <1>20 DEF Next

-----------------------------------------------------------------------------
(* A step that leaves the policies, and whoever serves them, alone. *)
LEMMA PolicyStays ==
  ASSUME PolicyInv, UNCHANGED <<table, api, dirs, config, restarting, unserved, runtime, served>>
  PROVE  PolicyInv'
BY DEF PolicyInv

(* The policies, from the row to the endpoints. *)
LEMMA PolicyStep ==
  ASSUME TypeOK, CachedIsCurrent, ReadInv, PolicyInv, [Next]_vars
  PROVE  PolicyInv'
<1>0. table \in Row /\ dirs \in BOOLEAN
  BY DEF TypeOK, DatabaseTypeOK
<1>1. CASE Boot
  <2>1. UNCHANGED table /\ ~restarting /\ ~restarting' /\ unserved' = FALSE /\ runtime = "none"
    BY <1>1 DEF Boot, Create, Migrate, PolicyInv, ReadInv
  <2>2. CASE Spawn(table, TRUE)
    <3>1. served'.mode = table.mode
      BY <1>0, <2>2, Spawned, ConfigOfRow DEF PolicyInv
    <3> QED
      BY <2>1, <3>1 DEF PolicyInv
  <2>3. CASE UNCHANGED process
    BY <2>1, <2>3 DEF PolicyInv, process
  <2> QED
    BY <1>1, <2>2, <2>3 DEF Boot
<1>2. CASE BootRefused
  <2>1. ~restarting
    BY <1>2 DEF BootRefused, PolicyInv
  <2> QED
    BY <1>2, <2>1 DEF BootRefused, PolicyInv, databaseVars, process
<1>3. CASE BootCut
  BY <1>3, PolicyStays DEF BootCut, CreateCut, apiVars, process
<1>4. CASE ApiEnds
  BY <1>4 DEF ApiEnds, NoRuntime, PolicyInv, databaseVars
<1>5. CASE Trouble /\ UNCHANGED <<files, apiVars, process>>
  BY <1>5, PolicyStays DEF Trouble, apiVars, process
<1>6. CASE StartRuntime
  <2>1. dirs => served'.mode = table.mode
    BY <1>0, <1>6, Spawned, ConfigOfRow DEF StartRuntime, PolicyInv
  <2> QED
    BY <1>6, <2>1 DEF StartRuntime, PolicyInv, databaseVars
<1>7. CASE RuntimeEnds
  BY <1>7 DEF RuntimeEnds, NoRuntime, PolicyInv, databaseVars, apiVars
<1>8. CASE Restart
  BY <1>8 DEF Restart, PolicyInv, databaseVars
<1>9. CASE GetConfig \/ Download
  BY <1>9, PolicyStays DEF GetConfig, Download, get, getCertificatePath, readWithCache, apiVars,
                           process
<1>10. CASE PostCertificate
  <2>1. table'.mode = table.mode /\ table'.paths = "other"
    BY <1>10, RowWritten DEF PostCertificate, Mode
  <2> QED
    BY <1>10, <2>1 DEF PostCertificate, PolicyInv, apiVars, process
<1>11. CASE \E mode \in Mode : PutPolicy(mode)
  <2>1. PICK mode \in Mode : PutPolicy(mode)
    BY <1>11
  <2>2. table'.mode = mode /\ table'.paths = table.paths /\ table' \in Row
    BY <1>0, <2>1, RowWritten, RowUpdates DEF PutPolicy, updatePolicy, Update
  <2>3. mode # "None" => table.paths # "none"
    <3>1. SUFFICES ASSUME PairConfigured PROVE table.paths # "none"
      BY <2>1 DEF PutPolicy, Accepted
    <3>2. CASE failing
      <4>1. cached \in Rows
        BY <3>1, <3>2 DEF PairConfigured, ReadWithCache, TypeOK, DatabaseTypeOK, Miss, NoRows
      <4> QED
        BY <3>1, <3>2, <4>1 DEF PairConfigured, ReadWithCache, CachedIsCurrent
    <3>3. CASE ~failing
      BY <3>1, <3>3 DEF PairConfigured, ReadWithCache
    <3> QED
      BY <3>2, <3>3
  <2>4. table'.mode # "None" => table'.paths # "none"
    BY <2>2, <2>3
  <2>5. CASE Off /\ ~restarting
    BY <2>1, <2>4, <2>5 DEF PutPolicy, PolicyInv, Off, process
  <2>6. CASE ~(Off /\ ~restarting) /\ failing'
    BY <2>1, <2>4, <2>6 DEF PutPolicy, PolicyInv, process
  <2>7. CASE ~(Off /\ ~restarting) /\ ~failing'
    <3>1. dirs => config'.mode = table'.mode
      BY <1>0, <2>1, <2>2, <2>4, <2>7, ConfigOfRow DEF PutPolicy
    <3> QED
      BY <2>1, <2>4, <2>7, <3>1 DEF PutPolicy, Serving, PolicyInv
  <2> QED
    BY <2>5, <2>6, <2>7
<1>12. CASE \E force \in BOOLEAN : PostGenerate(force)
  BY <1>12, PolicyStays DEF PostGenerate, databaseVars
<1>13. CASE Chmod
  BY <1>13, PolicyStays DEF Chmod, databaseVars, process
<1>14. CASE WriteCertificate
  BY <1>14, PolicyStays DEF WriteCertificate, databaseVars
<1>15. CASE WriteCertificateFails
  BY <1>15, PolicyStays DEF WriteCertificateFails, databaseVars
<1>16. CASE Record
  <2>1. CASE updateCertificate("own")
    <3>1. table'.mode = table.mode /\ table'.paths = "own"
      BY <2>1, RowWritten DEF Mode
    <3> QED
      BY <1>16, <3>1 DEF Record, PolicyInv, process
  <2>2. CASE UNCHANGED databaseVars
    BY <1>16, <2>2, PolicyStays DEF Record, databaseVars, process
  <2> QED
    BY <1>16, <2>1, <2>2 DEF Record
<1>17. CASE ReadCertificate \/ ReadKey \/ ServeOther \/ StartFails
  BY <1>17 DEF ReadCertificate, ReadKey, ServeOther, StartFails, PolicyInv, databaseVars, apiVars
<1>18. CASE UNCHANGED vars
  BY <1>18, PolicyStays DEF vars, databaseVars, apiVars, process
<1> QED
  BY <1>1, <1>2, <1>3, <1>4, <1>5, <1>6, <1>7, <1>8, <1>9, <1>10, <1>11, <1>12, <1>13, <1>14,
     <1>15, <1>16, <1>17, <1>18 DEF Next

-----------------------------------------------------------------------------
(***************************************************************************)
(* The invariant holds whatever release left the database, whatever is cut *)
(* and damaged on the way, and however many certificates are generated.    *)
(***************************************************************************)
THEOREM SecurityInvariant == Spec => []SecurityInv
<1>1. Init => SecurityInv
  <2> SUFFICES ASSUME Init PROVE SecurityInv
    OBVIOUS
  <2>1. version \in -1 .. 5 /\ version # 0
    BY SMT DEF Init, DatabaseInit, CurrentVersion
  <2>2. /\ schema = SchemaOf(version) /\ schema \subseteq Feature
        /\ version = -1 => schema = {}
        /\ version >= 2 => "object_nodes" \in schema
        /\ version >= 4 => "connections" \in schema
        /\ version \in 1 .. 3 => "s7" \in schema
    BY <2>1, SMT DEF Init, DatabaseInit, SchemaOf, Feature
  <2>3. NoSecurity \in Row /\ NoSecurity.mode = "None" /\ NoSecurity.paths = "none"
    BY DEF NoSecurity, Row, Mode
  <2>4. DatabaseTypeOK
    <3>1. legacy \in {"none", "s7", "lost"} /\ table \in Row
      BY <2>3 DEF Init, DatabaseInit, NoSecurity
    <3> QED
      BY <2>1, <2>2, <3>1 DEF Init, DatabaseInit, DatabaseTypeOK, CurrentVersion
  <2>5. DatabaseInv
    BY <2>1, <2>2, <2>4, NoRowsInRows, SMT DEF DatabaseInv, SchemaInv, CachedIsCurrent, Init,
                                               DatabaseInit
  <2>6. TypeOK
    <3>1. generated \in 0 .. MaxGenerations
      BY GenerationsAssumption, SMT DEF Init
    <3> QED
      BY <2>3, <2>4, <3>1, Contents DEF TypeOK, Init
  <2>7. UpInv /\ ReadInv /\ PairInForce
    BY <2>3 DEF UpInv, ReadInv, PairInForce, Init
  <2>8. PairInv /\ PolicyInv
    BY <2>3, Contents DEF PairInv, NoneIsLater, OwnPair, PolicyInv, Init, DatabaseInit, NoSecurity
  <2> QED
    BY <2>5, <2>6, <2>7, <2>8 DEF SecurityInv
<1>2. SecurityInv /\ [Next]_vars => SecurityInv'
  <2> SUFFICES ASSUME SecurityInv, [Next]_vars PROVE SecurityInv'
    OBVIOUS
  <2> USE DEF SecurityInv
  <2>1. DatabaseInv'
    BY DatabaseSteps, DatabaseStep
  <2>2. TypeOK'
    BY <2>1, TypeStep DEF DatabaseInv
  <2>3. UpInv' /\ PairInv'
    BY UpStep, PairStep
  <2>4. ReadInv' /\ PairInForce'
    BY ReadStep
  <2>5. PolicyInv'
    BY PolicyStep DEF DatabaseInv
  <2> QED
    BY <2>1, <2>2, <2>3, <2>4, <2>5
<1> QED
  BY <1>1, <1>2, PTL DEF Spec

(* Every variable keeps its type. *)
THEOREM SecurityTypeCorrect == Spec => []TypeOK
BY SecurityInvariant, PTL DEF SecurityInv

(* An API that is up finds the tables of today and the rows of old releases. *)
THEOREM DatabaseIsUpgraded == Spec => []UpgradeComplete
<1>1. SecurityInv => UpgradeComplete
  BY SMT DEF SecurityInv, DatabaseInv, DatabaseTypeOK, SchemaInv, UpInv, UpgradeComplete,
             FreshVersion
<1> QED
  BY <1>1, SecurityInvariant, PTL

(* An API that will not start was once cut short at its first start. *)
THEOREM DatabaseOpens == Spec => []OpensUnlessCut
<1>1. SecurityInv => OpensUnlessCut
  BY DEF SecurityInv, UpInv, OpensUnlessCut
<1> QED
  BY <1>1, SecurityInvariant, PTL

(* The cache of the row is never behind it. *)
THEOREM CacheIsCurrent == Spec => []CachedIsCurrent
<1>1. SecurityInv => CachedIsCurrent
  BY DEF SecurityInv, DatabaseInv
<1> QED
  BY <1>1, SecurityInvariant, PTL

(* A runtime comes up with the two halves of one pair, or, where the pair  *)
(* was damaged or written meanwhile, not at all or with a later key.       *)
THEOREM OnePairInForce == Spec => []PairInForce
BY SecurityInvariant, PTL DEF SecurityInv

(* The endpoints are those of the policy stored last. *)
THEOREM StoredPolicyServed == Spec => []PolicyServed
<1>1. SecurityInv => PolicyServed
  <2> SUFFICES ASSUME SecurityInv, api = "up", runtime = "running", ~restarting, ~unserved, dirs
               PROVE  Endpoints(served.mode) = (CASE table.mode = "None" -> {"None"}
                                [] table.mode = "Sign" -> {"None", "Sign"}
                                [] table.mode = "SignAndEncrypt" -> {"Sign", "SignAndEncrypt"})
    BY DEF PolicyServed
  <2>1. served.mode = table.mode /\ table.mode \in Mode
    BY DEF SecurityInv, PolicyInv, TypeOK, DatabaseTypeOK, Row
  <2> QED
    BY <2>1 DEF Endpoints, Mode
<1> QED
  BY <1>1, SecurityInvariant, PTL
=============================================================================

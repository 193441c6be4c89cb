--------------------------- MODULE ServerSecurity ---------------------------
(***************************************************************************)
(* The certificate of the server and the security mode: the routes under   *)
(* /api/security, the pair of files data/certs/server.{key,der}, the row   *)
(* of security_config behind its cache, the security section of the config *)
(* file and the runtime that reads all of it when it starts.               *)
(*                                                                         *)
(* The API is one thread, so a request is one action, except where another *)
(* process or a crash can come between its steps: generateCertificate      *)
(* writes two files while a runtime may be reading them, and PUT /policy   *)
(* waits for the old runtime to end.  A file is missing, a part, or the    *)
(* work of one generation; the pair matches if both are of the same.       *)
(***************************************************************************)
EXTENDS Database

CONSTANT MaxGenerations  \* bound: certificates generated

ASSUME GenerationsAssumption == MaxGenerations \in Nat \ {0}

VARIABLES
  api,         \* the API process
  root,        \* it runs as root; the image runs it as the user opcua
  dirs,        \* the directories of the trust store exist
  generated,   \* certificates generated so far
  certFile,    \* server.der
  keyFile,     \* server.key
  readOnly,    \* server.key has mode 0400
  generating,  \* the next step of POST /generate
  damaged,     \* a generation ended before its end
  config,      \* the security section of the config file
  restarting,  \* PUT /policy waits for the runtime to end
  unserved,    \* the runtime was not restarted with the policy stored last
  runtime,     \* the runtime process
  served,      \* the security section it started from
  holds,       \* the generation of the certificate and key it has read
  doubtful     \* the files changed while it was reading, or were damaged

pair == <<certFile, keyFile, readOnly>>
files == <<pair, generated, damaged>>
apiVars == <<api, root, dirs, generating, restarting, unserved, config>>
process == <<runtime, served, holds, doubtful>>
vars == <<databaseVars, files, apiVars, process>>

Missing == 0
Part == MaxGenerations + 1
Generation == 1 .. MaxGenerations
Content == Generation \cup {Missing, Part}

TypeOK ==
  /\ DatabaseTypeOK
  /\ api \in {"down", "up", "refused"}
  /\ root \in BOOLEAN /\ dirs \in BOOLEAN
  /\ generated \in 0 .. MaxGenerations
  /\ certFile \in Content /\ keyFile \in Content
  /\ readOnly \in BOOLEAN /\ damaged \in BOOLEAN
  /\ generating \in {"idle", "chmod", "certificate", "record"}
  /\ config \in Row /\ served \in Row
  /\ restarting \in BOOLEAN /\ unserved \in BOOLEAN
  /\ runtime \in {"none", "starting", "halfway", "running", "failed"}
  /\ holds \in [cert : Content, key : Content]
  /\ doubtful \in BOOLEAN

NoSecurity == [mode |-> "None", paths |-> "none"]
Nothing == [cert |-> Missing, key |-> Missing]

Init ==
  /\ DatabaseInit
  /\ api = "down" /\ root \in BOOLEAN /\ dirs \in BOOLEAN
  /\ generated = 0 /\ certFile = Missing /\ keyFile = Missing
  /\ readOnly = FALSE /\ damaged = FALSE
  /\ generating = "idle" /\ config = NoSecurity
  /\ restarting = FALSE /\ unserved = FALSE
  /\ runtime = "none" /\ served = NoSecurity /\ holds = Nothing /\ doubtful = FALSE

Off == runtime \in {"none", "failed"}

NoRuntime ==
  /\ runtime' = "none" /\ served' = NoSecurity /\ holds' = Nothing /\ doubtful' = FALSE

(* The API takes requests: no handler is in the middle of its own steps. *)
Serving == api = "up" /\ generating = "idle"

-----------------------------------------------------------------------------
(* buildSecurityConfig: what of the row the runtime is told. *)
ConfigOf(row, pki) ==
  IF row.mode # "None" /\ (row.paths = "none" \/ ~pki) THEN NoSecurity ELSE row

(* The config file is written and the runtime spawned. *)
Spawn(row, pki) ==
  /\ config' = ConfigOf(row, pki) /\ served' = config'
  /\ runtime' = "starting" /\ holds' = Nothing /\ doubtful' = FALSE

(***************************************************************************)
(* main(): the database, the directories, then the first runtime.  What    *)
(* fails after the database is logged, and the runtime waits for a request.*)
(***************************************************************************)
Boot ==
  /\ api = "down" /\ Off
  /\ \/ Create \/ Migrate
  /\ api' = "up" /\ unserved' = FALSE
  /\ \/ dirs' = TRUE /\ Spawn(table, TRUE)
     \/ dirs' \in {dirs, TRUE} /\ UNCHANGED <<config, process>>
  /\ UNCHANGED <<files, root, generating, restarting>>

BootRefused ==
  /\ api = "down" /\ version # -1 /\ ~Opens
  /\ api' = "refused"
  /\ UNCHANGED <<databaseVars, files, root, dirs, generating, restarting, unserved, config, process>>

BootCut ==
  /\ api = "down" /\ CreateCut
  /\ UNCHANGED <<files, apiVars, process>>

(* The API ends, at any point of a generation, and the runtime with it. *)
ApiEnds ==
  /\ api \in {"up", "refused"}
  /\ api' = "down" /\ generating' = "idle" /\ restarting' = FALSE
  /\ damaged' = (damaged \/ generating \in {"chmod", "certificate"})
  /\ unserved' = FALSE
  /\ NoRuntime
  /\ UNCHANGED <<databaseVars, pair, generated, root, dirs, config>>

-----------------------------------------------------------------------------
(* POST /api/server/start and stop, and a runtime that crashes. *)
StartRuntime ==
  /\ Serving /\ Off /\ ~restarting /\ ~failing
  /\ Spawn(table, dirs)
  /\ unserved' = FALSE
  /\ UNCHANGED <<databaseVars, files, api, root, dirs, generating, restarting>>

RuntimeEnds ==
  /\ ~Off
  /\ NoRuntime
  /\ UNCHANGED <<databaseVars, files, apiVars>>

-----------------------------------------------------------------------------
(* The queries of the repository share one entry of the cache, but not     *)
(* their columns.                                                          *)
get == readWithCache("all")
getCertificatePath == readWithCache("certificate")

(* GET / and the download of the certificate, which only fill the cache. *)
GetConfig == Serving /\ get /\ UNCHANGED <<files, apiVars, process>>
Download == Serving /\ getCertificatePath /\ UNCHANGED <<files, apiVars, process>>

updatePolicy(mode) == Update([table EXCEPT !.mode = mode])
updateCertificate(paths) == Update([table EXCEPT !.paths = paths])

(* What get() makes of the rows; without all columns it throws. *)
PairConfigured ==
  LET result == ReadWithCache("all", failing)
  IN result.columns = "all" /\ result.row.paths # "none"

Accepted(mode) == mode = "None" \/ PairConfigured

(***************************************************************************)
(* PUT /policy with a runtime that the process manager takes for running:  *)
(* the config is written and the runtime stopped; start follows when it    *)
(* has ended.  An error on this way is a line in the log.                  *)
(***************************************************************************)
PutPolicy(mode) ==
  /\ Serving /\ Accepted(mode)
  /\ updatePolicy(mode)
  /\ IF Off /\ ~restarting
     THEN UNCHANGED <<config, restarting, unserved>>
     ELSE IF failing'
     THEN unserved' = TRUE /\ UNCHANGED <<config, restarting>>
     ELSE config' = ConfigOf(table', dirs) /\ restarting' = TRUE /\ unserved' = FALSE
  /\ UNCHANGED <<files, api, root, dirs, generating, process>>

(* The exit event of the old runtime: start, from the file as it is. *)
Bug_RestartKeepsOld ==
  /\ api = "up" /\ generating = "idle" /\ restarting /\ Off
  /\ restarting' = FALSE
  /\ runtime' = "starting" /\ holds' = Nothing /\ doubtful' = FALSE
  /\ UNCHANGED <<databaseVars, files, api, root, dirs, generating, unserved, config, served>>
Restart ==
  /\ api = "up" /\ generating = "idle" /\ restarting /\ Off
  /\ restarting' = FALSE
  /\ served' = config
  /\ runtime' = "starting" /\ holds' = Nothing /\ doubtful' = FALSE
  /\ UNCHANGED <<databaseVars, files, api, root, dirs, generating, unserved, config>>

(* POST /certificate with the paths of files from elsewhere. *)
PostCertificate ==
  /\ Serving /\ updateCertificate("other")
  /\ UNCHANGED <<files, apiVars, process>>

-----------------------------------------------------------------------------
(* A runtime that is reading the pair may get some of the old and new.      *)
Touched == doubtful' = (doubtful \/ runtime \in {"starting", "halfway"})

(* generateCertificate makes a key and the certificate that goes with it.  *)
NewPair == generated + 1

(***************************************************************************)
(* POST /generate, its first write.  A key of mode 0400 cannot be opened   *)
(* for writing by anyone but root: the request fails and changes nothing.  *)
(***************************************************************************)
Bug_PostGenerateGoesOnWhenDenied(force) ==
  /\ Serving /\ generated < MaxGenerations
  /\ certFile = Missing \/ force
  /\ generated' = NewPair /\ generating' = "chmod" /\ Touched
  /\ keyFile' = IF keyFile # Missing /\ readOnly /\ ~root THEN keyFile ELSE generated'
  /\ UNCHANGED <<databaseVars, certFile, readOnly, damaged, api, root, dirs, restarting,
                 unserved, config, runtime, served, holds>>

PostGenerate(force) ==
  /\ Serving /\ generated < MaxGenerations
  /\ certFile = Missing \/ force
  /\ ~ (keyFile # Missing /\ readOnly /\ ~root)
  /\ generated' = NewPair /\ Touched
  /\ \/ keyFile' = generated' /\ generating' = "chmod" /\ UNCHANGED damaged
     \/ keyFile' = Part /\ damaged' = TRUE /\ UNCHANGED generating
  /\ UNCHANGED <<databaseVars, certFile, readOnly, api, root, dirs, restarting, unserved, config,
                 runtime, served, holds>>

(* An error of chmod is ignored. *)
Chmod ==
  /\ generating = "chmod" /\ generating' = "certificate"
  /\ readOnly' \in {readOnly, TRUE}
  /\ UNCHANGED <<databaseVars, certFile, keyFile, generated, damaged, api, root, dirs,
                 restarting, unserved, config, process>>

WriteCertificate ==
  /\ generating = "certificate" /\ generating' = "record"
  /\ certFile' = generated /\ damaged' = FALSE /\ Touched
  /\ UNCHANGED <<databaseVars, keyFile, readOnly, generated, api, root, dirs,
                 restarting, unserved, config, runtime, served, holds>>

(* The certificate cannot be written: the key is removed again, if it can. *)
WriteCertificateFails ==
  /\ generating = "certificate" /\ generating' = "idle"
  /\ certFile' \in {certFile, Part} /\ damaged' = TRUE /\ Touched
  /\ \/ keyFile' = Missing /\ readOnly' = FALSE
     \/ UNCHANGED <<keyFile, readOnly>>
  /\ UNCHANGED <<databaseVars, generated, api, root, dirs, restarting, unserved, config,
                 runtime, served, holds>>

(* updateCertificate, the last step; if it throws the new files stay. *)
Record ==
  /\ generating = "record"
  /\ generating' = "idle"
  /\ \/ updateCertificate("own")
     \/ failing /\ UNCHANGED databaseVars
  /\ UNCHANGED <<files, api, root, dirs, restarting, unserved, config, process>>

-----------------------------------------------------------------------------
(***************************************************************************)
(* security_configure of a runtime that has started: the certificate, the  *)
(* key, and the policies made of both.  A missing file ends it, a part of  *)
(* one is refused; of files from elsewhere either may be the case.         *)
(***************************************************************************)
ReadCertificate ==
  /\ runtime = "starting" /\ served.mode # "None" /\ served.paths = "own"
  /\ certFile # Missing
  /\ runtime' = "halfway"
  /\ holds' = [holds EXCEPT !.cert = certFile]
  /\ doubtful' = (doubtful \/ damaged)
  /\ UNCHANGED <<databaseVars, files, apiVars, served>>

ReadKey ==
  /\ runtime = "halfway"
  /\ keyFile # Missing /\ Part \notin {keyFile, holds.cert}
  /\ runtime' = "running"
  /\ holds' = [holds EXCEPT !.key = keyFile]
  /\ doubtful' = (doubtful \/ damaged)
  /\ UNCHANGED <<databaseVars, files, apiVars, served>>

ServeOther ==
  /\ runtime = "starting" /\ (served.mode = "None" \/ served.paths = "other")
  /\ runtime' = "running"
  /\ UNCHANGED <<databaseVars, files, apiVars, served, holds, doubtful>>

StartFails ==
  /\ \/ runtime = "starting" /\ served.mode # "None" /\ (served.paths = "own" => certFile = Missing)
     \/ runtime = "halfway" /\ (keyFile = Missing \/ Part \in {keyFile, holds.cert})
  /\ runtime' = "failed" /\ doubtful' = (doubtful \/ damaged)
  /\ UNCHANGED <<databaseVars, files, apiVars, served, holds>>

(* The endpoints left after security_configure has removed some. *)
Endpoints(mode) ==
  CASE mode = "None" -> {"None"}
    [] mode = "Sign" -> Mode \ {"SignAndEncrypt"}
    [] mode = "SignAndEncrypt" -> Mode \ {"None"}

Next ==
  \/ Boot \/ BootRefused \/ BootCut \/ ApiEnds
  \/ Trouble /\ UNCHANGED <<files, apiVars, process>>
  \/ StartRuntime \/ RuntimeEnds \/ Restart
  \/ GetConfig \/ Download \/ PostCertificate \/ \E mode \in Mode : PutPolicy(mode)
  \/ \E force \in BOOLEAN : PostGenerate(force)
  \/ Chmod \/ WriteCertificate \/ WriteCertificateFails \/ Record
  \/ ReadCertificate \/ ReadKey \/ ServeOther \/ StartFails

Spec == Init /\ [][Next]_vars

-----------------------------------------------------------------------------
(***************************************************************************)
(* Whatever release left the database, and whatever starts were cut short  *)
(* since, an API that came up finds its tables, and in them the            *)
(* connections of the S7-only releases.                                    *)
(***************************************************************************)
UpgradeComplete ==
  /\ api = "up" => {"object_nodes", "connections"} \subseteq schema /\ version >= FreshVersion
  /\ legacy # "lost" /\ (version >= 4 => legacy # "s7")

(* Only a first start that was cut short keeps later ones from starting.   *)
OpensUnlessCut == api = "refused" => cutShort

(* What a cached read of the row returns was never overtaken by a write. *)
CachedIsCurrent == cached \in Rows => cached.row = table

(***************************************************************************)
(* A runtime told to use the generated pair comes up with a certificate    *)
(* and the key that belongs to it, whatever was generated, refused and     *)
(* stored before.  Writes while it reads, and a pair that a generation     *)
(* left damaged, are no exception but for this: it may fail to start, or   *)
(* hold a whole certificate with the whole key of a later generation,      *)
(* never a part of either and never a key older than its certificate.      *)
(***************************************************************************)
PairInForce ==
  served.mode # "None" /\ served.paths = "own" =>
    /\ runtime = "failed" => doubtful
    /\ runtime = "running" =>
         /\ {holds.cert, holds.key} \subseteq Generation
         /\ holds.cert <= holds.key
         /\ holds.cert # holds.key => doubtful

(***************************************************************************)
(* The endpoints are those of the policy stored last: a client is offered  *)
(* no plain connection under SignAndEncrypt.  Except after a restart that  *)
(* could not be made, and without the directories of the trust store.      *)
(***************************************************************************)
PolicyServed ==
  api = "up" /\ runtime = "running" /\ ~restarting /\ ~unserved /\ dirs =>
    Endpoints(served.mode) = (CASE table.mode = "None" -> {"None"}
                                [] table.mode = "Sign" -> {"None", "Sign"}
                                [] table.mode = "SignAndEncrypt" -> {"Sign", "SignAndEncrypt"})
=============================================================================

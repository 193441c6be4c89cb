-------------------------- MODULE RuntimeLifecycle --------------------------
(***************************************************************************)
(* The Control API and the OPC UA runtime process it supervises: the       *)
(* ProcessManager, the routes that start, stop, reload and restart the     *)
(* runtime, the connectors they start and stop around it, and the config   *)
(* file through which the runtime learns what the database holds.          *)
(*                                                                         *)
(* Node runs one event at a time and drains its promise continuations      *)
(* before the next, so an action of the API is one event: a request, the   *)
(* child's exit event with everything that awaited it, a signal.  The      *)
(* runtime is another process and takes its own steps.                     *)
(***************************************************************************)
EXTENDS Naturals

CONSTANTS
  Requests,     \* HTTP requests open at once; an answered one is recycled (bound)
  Runs,         \* runtime processes existing at once; an ended one is recycled (bound)
  NoRun,        \* ProcessManager.process = null
  Modes,        \* security modes
  Contents,     \* address spaces the database can hold
  Paths,        \* where config files are written
  ConfigPath,   \* the path given to the runtime (CONFIG_PATH)
  DefaultPath,  \* the path the routes write
  Faults        \* which operations may fail: "crash", "spawn", "write"

ASSUME LifecycleAssumption ==
  /\ NoRun \notin Runs
  /\ {ConfigPath, DefaultPath} \subseteq Paths
  /\ Faults \subseteq {"crash", "spawn", "write"}

VARIABLES
  node,        \* the Node process
  state,       \* ProcessManager.state
  process,     \* ProcessManager.process
  stopping,    \* ProcessManager.stopping
  connectors,  \* have the connectors been started?
  request,     \* what each open request still waits for
  db,          \* what the database says the runtime should serve
  configFile,  \* the generated config files
  runtime      \* the runtime processes

pm == <<state, process, stopping, runtime>>

vars == <<node, pm, connectors, request, db, configFile>>

Config == [mode : Modes, nodes : Contents]
NoConfig == [mode |-> "none", nodes |-> "none"]

(***************************************************************************)
(* A runtime is created, has built its server from the config, serves with *)
(* its signal handlers installed, reloads, is ending after SIGTERM, and is *)
(* exited until Node has seen its exit.                                    *)
(***************************************************************************)
Runtime ==
  [phase : {"none", "created", "built", "serving", "reloading", "ending", "exited"},
   config : [mode : Modes \cup {"none"}, nodes : Contents \cup {"none"}],
   reload : BOOLEAN]

NoRuntime == [phase |-> "none", config |-> NoConfig, reload |-> FALSE]
Spawned == [phase |-> "created", config |-> NoConfig, reload |-> FALSE]

TypeOK ==
  /\ node \in {"booting", "up", "leaving", "closing", "exited"}
  /\ state \in {"stopped", "running", "error"}
  /\ process \in Runs \cup {NoRun}
  /\ stopping \in BOOLEAN
  /\ connectors \in BOOLEAN
  /\ request \in [Requests -> {"idle", "stop", "policy", "edit"}]
  /\ db \in Config
  /\ configFile \in [Paths -> Config \cup {NoConfig}]
  /\ runtime \in [Runs -> Runtime]

Init ==
  /\ node = "booting"
  /\ state = "stopped"
  /\ process = NoRun
  /\ stopping = FALSE
  /\ connectors = FALSE
  /\ request = [q \in Requests |-> "idle"]
  /\ db \in Config
  /\ configFile = [p \in Paths |-> NoConfig]
  /\ runtime = [r \in Runs |-> NoRuntime]

Live(r) == runtime[r].phase \notin {"none", "exited"}

(* The requests that resume on the child's exit event. *)
Stopping == {q \in Requests : request[q] \in {"stop", "policy"}}
Restarting == {q \in Requests : request[q] = "policy"}

-----------------------------------------------------------------------------
(***************************************************************************)
(* Signals, on the process table rt.  Before main() installs its handlers  *)
(* the default action of both signals ends the process.                    *)
(***************************************************************************)
SIGTERM(rt, r) ==
  CASE rt[r].phase \in {"created", "built"} -> [rt EXCEPT ![r].phase = "exited"]
    [] rt[r].phase \in {"serving", "reloading"} -> [rt EXCEPT ![r].phase = "ending"]
    [] OTHER -> rt

SIGUSR1(rt, r) ==
  CASE rt[r].phase \in {"created", "built"} -> [rt EXCEPT ![r].phase = "exited"]
    [] rt[r].phase \in {"serving", "reloading"} -> [rt EXCEPT ![r].reload = TRUE]
    [] OTHER -> rt

-----------------------------------------------------------------------------
(***************************************************************************)
(* ProcessManager and ConfigGenerator.                                     *)
(***************************************************************************)

(* writeToFile reads the database after the handler's own change to it. *)
writeToFile(path) == configFile' = [configFile EXCEPT ![path] = db']

(* Reading the database or opening the file fails. *)
writeFails == "write" \in Faults /\ UNCHANGED configFile

(***************************************************************************)
(* start() from a process table rt in which no runtime is tracked, then    *)
(* the startAll() that every caller runs next.                             *)
(***************************************************************************)
Free(rt) == {r \in Runs : rt[r].phase = "none"}

startAndConnect(rt) ==
  /\ Free(rt) # {}
  /\ process' = CHOOSE r \in Free(rt) : TRUE
  /\ runtime' = [rt EXCEPT ![process'] = Spawned]
  /\ state' = "running"
  /\ stopping' = FALSE
  /\ connectors' = TRUE

(* spawn gives no pid: start() throws and startAll() is not reached. *)
startFails(rt) ==
  /\ "spawn" \in Faults
  /\ process' = NoRun
  /\ runtime' = rt
  /\ state' = "error"
  /\ stopping' = FALSE
  /\ UNCHANGED connectors

IsRunning == state = "running" /\ process # NoRun

(* stop() that reports the runtime stopped before it has exited. *)
Bug_StopForgetsProcess ==
  /\ state' = "stopped"
  /\ process' = NoRun
  /\ stopping' = TRUE
  /\ runtime' = SIGTERM(runtime, process)

(* stop() on a running runtime: the caller resumes at the exit event. *)
stop ==
  /\ stopping' = TRUE
  /\ runtime' = SIGTERM(runtime, process)
  /\ UNCHANGED <<state, process>>

reload ==
  /\ runtime' = SIGUSR1(runtime, process)
  /\ UNCHANGED <<state, process, stopping>>

-----------------------------------------------------------------------------
(***************************************************************************)
(* The API's events.  A request is taken while the server listens, which   *)
(* it does until a shutdown has stopped the runtime.                       *)
(***************************************************************************)
Accepts(q) == node \in {"up", "leaving"} /\ request[q] = "idle"

(* main() up to the installation of its signal handlers. *)
Boot ==
  /\ node = "booting"
  /\ node' = "up"
  /\ UNCHANGED <<request, db>>
  /\ \/ /\ writeToFile(ConfigPath)
        /\ startAndConnect(runtime) \/ startFails(runtime)
     \/ /\ writeFails
        /\ UNCHANGED <<pm, connectors>>

(* POST /start writes the config before start() can refuse. *)
PostStart(q) ==
  /\ Accepts(q)
  /\ UNCHANGED <<node, request, db>>
  /\ \/ /\ writeToFile(DefaultPath)
        /\ IF IsRunning
           THEN UNCHANGED <<pm, connectors>>
           ELSE startAndConnect(runtime) \/ startFails(runtime)
     \/ /\ writeFails
        /\ UNCHANGED <<pm, connectors>>

(* POST /stop stops the connectors before stop() can refuse. *)
PostStop(q) ==
  /\ Accepts(q)
  /\ connectors' = FALSE
  /\ IF IsRunning
     THEN stop /\ request' = [request EXCEPT ![q] = "stop"]
     ELSE UNCHANGED <<pm, request>>
  /\ UNCHANGED <<node, db, configFile>>

PostReload(q) ==
  /\ Accepts(q)
  /\ UNCHANGED <<node, connectors, request, db>>
  /\ \/ /\ writeToFile(DefaultPath)
        /\ IF IsRunning THEN reload ELSE UNCHANGED pm
     \/ /\ writeFails
        /\ UNCHANGED pm

(* PUT /policy that stores a mode it has not validated. *)
(* PUT /policy that generates the config before it stores the mode. *)
Bug_PolicyWritesFirst(q) ==
  /\ Accepts(q)
  /\ \E m \in Modes : db' = [db EXCEPT !.mode = m]
  /\ \/ /\ IsRunning
        /\ connectors' = FALSE
        /\ configFile' = [configFile EXCEPT ![DefaultPath] = db]
        /\ stop
        /\ request' = [request EXCEPT ![q] = "policy"]
     \/ /\ ~IsRunning
        /\ UNCHANGED <<pm, connectors, request, configFile>>
  /\ UNCHANGED node

(***************************************************************************)
(* PUT /policy.  When the write fails the connectors have been stopped,    *)
(* the error is only logged and the answer is still 200.                   *)
(***************************************************************************)
PutPolicy(q) ==
  /\ Accepts(q)
  /\ \E m \in Modes : db' = [db EXCEPT !.mode = m]
  /\ \/ /\ IsRunning
        /\ connectors' = FALSE
        /\ \/ /\ writeToFile(DefaultPath)
              /\ stop
              /\ request' = [request EXCEPT ![q] = "policy"]
           \/ /\ writeFails
              /\ UNCHANGED <<pm, request>>
     \/ /\ ~IsRunning
        /\ UNCHANGED <<pm, connectors, request, configFile>>
  /\ UNCHANGED node

(* A successful change of the address space; the reload waits for "finish". *)
PostEdit(q) ==
  /\ Accepts(q)
  /\ \E c \in Contents \ {db.nodes} : db' = [db EXCEPT !.nodes = c]
  /\ request' = [request EXCEPT ![q] = "edit"]
  /\ UNCHANGED <<node, pm, connectors, configFile>>

(* res.on('finish') of an edit: failures are ignored. *)
Finish(q) ==
  /\ node # "exited"
  /\ request[q] = "edit"
  /\ request' = [request EXCEPT ![q] = "idle"]
  /\ UNCHANGED <<node, connectors, db>>
  /\ \/ /\ IsRunning
        /\ \/ writeToFile(DefaultPath) /\ reload
           \/ writeFails /\ UNCHANGED pm
     \/ /\ ~IsRunning
        /\ UNCHANGED <<pm, configFile>>

(* SIGTERM or SIGINT to the Control API, once. *)
Shutdown ==
  /\ node = "up"
  /\ connectors' = FALSE
  /\ IF IsRunning
     THEN node' = "leaving" /\ stop
     ELSE node' = "closing" /\ UNCHANGED pm
  /\ UNCHANGED <<request, db, configFile>>

(* The crash handler leaves the connectors running. *)
Bug_CrashKeepsConnectors(r) ==
  LET rt == [runtime EXCEPT ![r] = NoRuntime] IN
  /\ node # "exited"
  /\ runtime[r].phase = "exited"
  /\ ~stopping
  /\ state' = "error"
  /\ process' = NoRun
  /\ runtime' = rt
  /\ UNCHANGED <<node, stopping, connectors, request, db, configFile>>

(* cleanup() that does not reset the stopping flag. *)
Bug_CleanupKeepsStopping(r) ==
  LET rt == [runtime EXCEPT ![r] = NoRuntime] IN
  /\ node # "exited"
  /\ runtime[r].phase = "exited"
  /\ Restarting = {}
  /\ request' = [q \in Requests |-> IF q \in Stopping THEN "idle" ELSE request[q]]
  /\ node' = IF node = "leaving" THEN "closing" ELSE node
  /\ state' = IF stopping THEN "stopped" ELSE "error"
  /\ process' = NoRun
  /\ runtime' = rt
  /\ connectors' = (connectors /\ stopping)
  /\ UNCHANGED <<stopping, db, configFile>>

(***************************************************************************)
(* The child's exit event: first the listener of start(), which reports a  *)
(* crash unless a stop was asked for, then those of the stop() calls, then *)
(* the callers of stop().  Of the policy changes that waited, the first    *)
(* whose start() succeeds restarts the runtime and the others find it      *)
(* running; all of them answer 200.                                        *)
(***************************************************************************)
ExitEvent(r) ==
  LET rt == [runtime EXCEPT ![r] = NoRuntime] IN
  /\ node # "exited"
  /\ runtime[r].phase = "exited"
  /\ request' = [q \in Requests |-> IF q \in Stopping THEN "idle" ELSE request[q]]
  /\ node' = IF node = "leaving" THEN "closing" ELSE node
  /\ \/ /\ Restarting # {}
        /\ startAndConnect(rt) \/ startFails(rt)
     \/ /\ Restarting = {}
        /\ state' = IF stopping THEN "stopped" ELSE "error"
        /\ process' = NoRun
        /\ stopping' = FALSE
        /\ connectors' = (connectors /\ stopping)
        /\ runtime' = rt
  /\ UNCHANGED <<db, configFile>>

(* stop() without its timer. *)
Bug_NoKillTimer == FALSE /\ UNCHANGED vars

(* The SIGKILL timer of stop(). *)
KillTimeout ==
  /\ node # "exited"
  /\ stopping
  /\ process \in Runs /\ Live(process)
  /\ runtime' = [runtime EXCEPT ![process].phase = "exited"]
  /\ UNCHANGED <<node, state, process, stopping, connectors, request, db,
                 configFile>>

(* server.close has let the open requests finish, or ten seconds passed. *)
NodeExits ==
  /\ node = "closing"
  /\ node' = "exited"
  /\ UNCHANGED <<pm, connectors, request, db, configFile>>

-----------------------------------------------------------------------------
(***************************************************************************)
(* The runtime's own steps, and its reading of the config file.            *)
(***************************************************************************)
RuntimeStep(r, s) ==
  /\ runtime' = [runtime EXCEPT ![r] = s]
  /\ UNCHANGED <<node, state, process, stopping, connectors, request, db,
                 configFile>>

(* server_create: without a readable config the runtime gives up. *)
CreateServer(r) ==
  /\ runtime[r].phase = "created"
  /\ LET c == configFile[ConfigPath] IN
     RuntimeStep(r, [runtime[r] EXCEPT !.config = c,
                       !.phase = IF c = NoConfig THEN "exited" ELSE "built"])

InstallHandlers(r) ==
  /\ runtime[r].phase = "built"
  /\ RuntimeStep(r, [runtime[r] EXCEPT !.phase = "serving"])

(***************************************************************************)
(* server_iteration_callback clears the flag, then handle_reload reads the *)
(* config and rebuilds the address space; the mode stays as created.       *)
(***************************************************************************)
BeginReload(r) ==
  /\ runtime[r].phase = "serving"
  /\ runtime[r].reload
  /\ RuntimeStep(r, [runtime[r] EXCEPT !.phase = "reloading", !.reload = FALSE,
                       !.config.nodes = configFile[ConfigPath].nodes])

(* The reload flag is cleared when the reload is done. *)
Bug_FlagClearedLate(r) ==
  /\ runtime[r].phase = "reloading"
  /\ RuntimeStep(r, [runtime[r] EXCEPT !.phase = "serving", !.reload = FALSE])

EndReload(r) ==
  /\ runtime[r].phase = "reloading"
  /\ RuntimeStep(r, [runtime[r] EXCEPT !.phase = "serving"])

(* UA_Server_run returns once g_running is 0. *)
RuntimeEnds(r) ==
  /\ runtime[r].phase = "ending"
  /\ RuntimeStep(r, [runtime[r] EXCEPT !.phase = "exited"])

RuntimeCrashes(r) ==
  /\ "crash" \in Faults
  /\ Live(r)
  /\ RuntimeStep(r, [runtime[r] EXCEPT !.phase = "exited"])

-----------------------------------------------------------------------------
Event(q) ==
  PostStart(q) \/ PostStop(q) \/ PostReload(q) \/ PutPolicy(q) \/ PostEdit(q)

RuntimeProgress(r) ==
  CreateServer(r) \/ InstallHandlers(r) \/ BeginReload(r) \/ EndReload(r)

Next ==
  \/ Boot \/ Shutdown \/ KillTimeout \/ NodeExits
  \/ \E q \in Requests : Event(q) \/ Finish(q)
  \/ \E r \in Runs :
       ExitEvent(r) \/ RuntimeProgress(r) \/ RuntimeEnds(r) \/ RuntimeCrashes(r)

(***************************************************************************)
(* Node delivers its events and timers and the runtime's loop keeps        *)
(* turning; nothing makes a runtime that was told to end do so, which is   *)
(* what the kill timer is for.                                             *)
(***************************************************************************)
Spec ==
  /\ Init /\ [][Next]_vars
  /\ WF_vars(KillTimeout) /\ WF_vars(NodeExits)
  /\ \A q \in Requests : WF_vars(Finish(q))
  /\ \A r \in Runs : WF_vars(ExitEvent(r)) /\ WF_vars(RuntimeProgress(r))

-----------------------------------------------------------------------------
(***************************************************************************)
(* While the API lives, every runtime process that lives is the one        *)
(* ProcessManager tracks and reports as running: there are never two, and  *)
(* none is lost track of by a stop, a crash or a restart.                  *)
(***************************************************************************)
RuntimeIsTracked ==
  node # "exited" => \A r \in Runs : Live(r) => state = "running" /\ process = r

(***************************************************************************)
(* The stopping flag is up exactly while someone awaits the exit: a later  *)
(* crash is never taken for a stop, nor a requested stop for a crash.      *)
(***************************************************************************)
StoppingIsAwaited == stopping <=> Stopping # {} \/ node = "leaving"

(***************************************************************************)
(* Whatever fails, the connectors poll devices only while there is a       *)
(* runtime to take the values and nobody is stopping it.                   *)
(***************************************************************************)
ConnectorsNeedRuntime == connectors => state = "running" /\ ~stopping

(***************************************************************************)
(* The connectors run exactly while the runtime does: they are stopped     *)
(* before a restart and "re-started after".                                *)
(***************************************************************************)
ConnectorsFollowRuntime == connectors <=> state = "running" /\ ~stopping

(***************************************************************************)
(* A runtime that nobody is stopping serves with the security mode the     *)
(* database holds: PUT /policy restarts it whenever the mode changes.      *)
(***************************************************************************)
ModeInForce ==
  \A r \in Runs :
    runtime[r].phase \in {"serving", "reloading"} /\ Stopping = {} =>
      runtime[r].config.mode = db.mode

(***************************************************************************)
(* An edit reaches the running runtime, even when the reload it signals    *)
(* arrives in the middle of another.                                       *)
(***************************************************************************)
EditsReachRuntime ==
  \A c \in Contents :
    (db.nodes = c /\ IsRunning) ~>
      \/ db.nodes # c
      \/ ~IsRunning \/ stopping \/ node = "exited"
      \/ runtime[process].config.nodes = c

(***************************************************************************)
(* Every request and a shutdown come to an end, even if the runtime hangs. *)
(***************************************************************************)
Answered ==
  /\ \A q \in Requests :
       request[q] # "idle" ~> request[q] = "idle" \/ node = "exited"
  /\ node = "leaving" ~> node = "exited"

(***************************************************************************)
(* The runtime does not fail by itself here, so nothing leads to the error *)
(* state: a reload happens "without a full restart".                       *)
(***************************************************************************)
NeverError == state # "error"

(* POST /stop answers "Server stopped successfully" about a stopped server. *)
StopConfirmed ==
  [][\A q \in Requests :
       request[q] = "stop" /\ request'[q] = "idle" => state' # "running"]_vars

(* A graceful shutdown of the API leaves no runtime behind. *)
NoOrphan == node = "exited" => \A r \in Runs : ~Live(r)
=============================================================================

---------------------------- MODULE LiveDashboard ----------------------------
(***************************************************************************)
(* What an open dashboard shows of the runtime, of its OPC UA sessions and *)
(* of the connectors.  The runtime writes its sessions into the status     *)
(* file when they change; a timer of ProcessManager reads the file and     *)
(* announces a list that differs from the one announced last; a timer of   *)
(* ConnectorRegistry does the same for the status of the connections.  The *)
(* hub writes announcements to every browser that holds an event stream,   *)
(* and a new stream begins with a snapshot.                                *)
(*                                                                         *)
(* A stream delivers in order what was written before it broke, so a view  *)
(* changes with the event that writes to it.  Each action of the API is    *)
(* one event of Node.  Values are left to the module of the connectors.    *)
(***************************************************************************)
EXTENDS FiniteSets

CONSTANTS
  Browsers,   \* browsers that may open an event stream
  Sessions,   \* sessions of OPC UA clients with the runtime
  Statuses    \* what the connections can report in total

VARIABLES
  state,      \* ProcessManager.state
  awaited,    \* what follows the exit that stop() waits for
  timer,      \* is ProcessManager.statusTimer set?
  previous,   \* ProcessManager.previousSessionsJson
  runtime,    \* the runtime process
  sessions,   \* its sessions
  written,    \* last_status_json
  file,       \* status.json
  polling,    \* is ConnectorRegistry.statusPollInterval set?
  status,     \* what getAggregatedStatus would return
  snapshot,   \* ConnectorRegistry.lastStatusSnapshot
  stream,     \* the event stream of each browser
  view        \* what each browser was last told

manager == <<state, awaited, timer, previous>>
process == <<runtime, sessions, written, file>>
registry == <<polling, status, snapshot>>

vars == <<manager, process, registry, stream, view>>

State == {"stopped", "running", "error"}

(***************************************************************************)
(* What status.json holds, and what the runtime last wrote: at most one    *)
(* list.  A file that is missing, empty or cut short holds none.           *)
(***************************************************************************)
Contents == {{}} \cup {{S} : S \in SUBSET Sessions}

View == [state : State, sessions : SUBSET Sessions, status : Statuses]

TypeOK ==
  /\ state \in State
  /\ awaited \in {"nothing", "stop", "restart"}
  /\ timer \in BOOLEAN
  /\ previous \in SUBSET Sessions
  /\ runtime \in {"off", "up", "writing", "exited"}
  /\ sessions \in SUBSET Sessions
  /\ written \in Contents /\ file \in Contents
  /\ polling \in BOOLEAN
  /\ status \in Statuses /\ snapshot \in Statuses
  /\ stream \in [Browsers -> {"none", "open", "broken"}]
  /\ view \in [Browsers -> View]

Init ==
  /\ state = "stopped" /\ awaited = "nothing" /\ timer = FALSE /\ previous = {}
  /\ runtime = "off" /\ sessions = {} /\ written = {} /\ file = {}
  /\ polling = FALSE /\ status \in Statuses /\ snapshot = status
  /\ stream = [b \in Browsers |-> "none"]
  /\ view = [b \in Browsers |->
               [state |-> "stopped", sessions |-> {}, status |-> status]]

Open == {b \in Browsers : stream[b] = "open"}

-----------------------------------------------------------------------------
(***************************************************************************)
(* SseHub.broadcast: what a broken stream is told is lost, and it stays    *)
(* registered until the server sees it close.                              *)
(***************************************************************************)
broadcast(v, event, data) ==
  [b \in Browsers |-> IF b \in Open THEN [v[b] EXCEPT ![event] = data] ELSE v[b]]

(* readClientSessions, with validateSessions: what cannot be read is none. *)
readClientSessions ==
  IF state = "running" THEN UNION file ELSE {}

-----------------------------------------------------------------------------
(***************************************************************************)
(* ConnectorRegistry.                                                      *)
(***************************************************************************)

(* The connectors start; their status then is taken for known. *)
startAll ==
  /\ polling' = TRUE
  /\ status' \in Statuses
  /\ snapshot' = IF polling THEN snapshot ELSE status'

(* The connectors stop, and their final status is broadcast. *)
stopAll ==
  /\ polling' = FALSE
  /\ status' \in Statuses
  /\ snapshot' = status'
  /\ view' = broadcast(view, "status", status')

(* The status poll. *)
checkAndBroadcastStatus ==
  /\ polling
  /\ status # snapshot
  /\ snapshot' = status
  /\ view' = broadcast(view, "status", status)
  /\ UNCHANGED <<manager, process, polling, status, stream>>

(* A connection connects or is lost, or is added or removed by a route. *)
StatusChanges ==
  /\ status' \in Statuses \ {status}
  /\ UNCHANGED <<manager, process, polling, snapshot, stream, view>>

-----------------------------------------------------------------------------
(***************************************************************************)
(* ProcessManager and the routes around it.                                *)
(***************************************************************************)

(* start() and startAll(), from the views v. *)
start(v) ==
  /\ state' = "running" /\ timer' = TRUE
  /\ awaited' = "nothing"
  /\ runtime' = "up" /\ sessions' = {} /\ written' = {}
  /\ view' = broadcast(v, "state", "running")
  /\ startAll

(* spawn gives no pid: start() throws before it announces anything. *)
startFails(v) ==
  /\ state' = "error"
  /\ awaited' = "nothing"
  /\ runtime' = "off" /\ sessions' = {} /\ written' = {}
  /\ view' = v
  /\ UNCHANGED registry

(* Boot and POST /start. *)
Start ==
  /\ state # "running"
  /\ \/ start(view)
     \/ startFails(view) /\ timer' = timer
  /\ UNCHANGED <<previous, file, stream>>

(* POST /stop stops the connectors before stop() can refuse. *)
PostStop ==
  /\ awaited' = IF state = "running" /\ awaited = "nothing" THEN "stop" ELSE awaited
  /\ stopAll
  /\ UNCHANGED <<state, timer, previous, process, stream>>

(* A policy change starts the runtime again, if the config can be written. *)
PutPolicy ==
  /\ state = "running"
  /\ awaited' \in {"restart", awaited}
  /\ stopAll
  /\ UNCHANGED <<state, timer, previous, process, stream>>

(* The announcement of POST /reload and of an edit. *)
Reload ==
  /\ state = "running"
  /\ view' = broadcast(view, "state", state)
  /\ UNCHANGED <<manager, process, registry, stream>>

(* The caller of stop() goes on, from the views v. *)
afterStop(v) ==
  \/ awaited = "restart" /\ start(v)
  \/ awaited = "restart" /\ startFails(v) /\ timer' = FALSE
  \/ /\ awaited = "stop"
     /\ state' = "stopped" /\ timer' = FALSE /\ awaited' = "nothing"
     /\ runtime' = "off" /\ sessions' = {} /\ written' = {}
     /\ view' = v
     /\ UNCHANGED registry

Bug_CleanupKeepsPrevious ==
  /\ runtime = "exited" /\ awaited # "nothing"
  /\ afterStop(broadcast(broadcast(view, "state", "stopped"), "sessions", {}))
  /\ UNCHANGED <<previous, file, stream>>

(* The exit that stop() awaits: cleanup(), both announcements, the caller. *)
Stopped ==
  /\ runtime = "exited" /\ awaited # "nothing"
  /\ previous' = {}
  /\ afterStop(broadcast(broadcast(view, "state", "stopped"), "sessions", {}))
  /\ UNCHANGED <<file, stream>>

Bug_CrashStopsTimer ==
  /\ runtime = "exited" /\ awaited = "nothing"
  /\ state' = "error" /\ timer' = FALSE
  /\ runtime' = "off" /\ sessions' = {} /\ written' = {}
  /\ stopAll
  /\ UNCHANGED <<awaited, previous, file, stream>>

(* An exit nobody asked for: the crash handlers, and the timer goes on.    *)
Crashed ==
  /\ runtime = "exited" /\ awaited = "nothing"
  /\ state' = "error"
  /\ runtime' = "off" /\ sessions' = {} /\ written' = {}
  /\ stopAll
  /\ UNCHANGED <<awaited, timer, previous, file, stream>>

(* The status timer. *)
Tick ==
  /\ timer
  /\ previous' = readClientSessions
  /\ LET v == broadcast(view, "state", state) IN
     view' = IF previous' # previous THEN broadcast(v, "sessions", previous') ELSE v
  /\ UNCHANGED <<state, awaited, timer, process, registry, stream>>

(* The API is shut down, with its runtime, which may write status.json     *)
(* once more; the file stays, and the API is started again.                *)
Restart ==
  /\ state' = "stopped" /\ awaited' = "nothing" /\ timer' = FALSE /\ previous' = {}
  /\ runtime' = "off" /\ sessions' = {} /\ written' = {}
  /\ file' \in {file} \cup IF runtime \in {"up", "writing"} THEN {{}, {sessions}} ELSE {}
  /\ polling' = FALSE /\ status' \in Statuses /\ snapshot' = status'
  /\ stream' = [b \in Browsers |-> "none"]
  /\ UNCHANGED view

-----------------------------------------------------------------------------
(***************************************************************************)
(* The event streams.                                                      *)
(***************************************************************************)

(* GET /api/events: addClient and sendInitialState. *)
Connect(b) ==
  /\ stream[b] = "none"
  /\ stream' = [stream EXCEPT ![b] = "open"]
  /\ view' = [view EXCEPT ![b] =
       [state |-> state, sessions |-> readClientSessions, status |-> status]]
  /\ UNCHANGED <<manager, process, registry>>

Break(b) ==
  /\ stream[b] = "open"
  /\ stream' = [stream EXCEPT ![b] = "broken"]
  /\ UNCHANGED <<manager, process, registry, view>>

(* req.on('close'): removeClient. *)
removeClient(b) ==
  /\ stream[b] # "none"
  /\ stream' = [stream EXCEPT ![b] = "none"]
  /\ UNCHANGED <<manager, process, registry, view>>

-----------------------------------------------------------------------------
(***************************************************************************)
(* The runtime.                                                            *)
(***************************************************************************)
SessionsChange ==
  /\ runtime = "up"
  /\ sessions' \in (SUBSET Sessions) \ {sessions}
  /\ UNCHANGED <<manager, runtime, written, file, registry, stream, view>>

Bug_CompareCounts ==
  /\ runtime = "up"
  /\ \A S \in written : Cardinality(sessions) # Cardinality(S)
  /\ runtime' = "writing"
  /\ file' = {}
  /\ UNCHANGED <<manager, sessions, written, registry, stream, view>>

(* status_write_if_changed opens the file, which empties it ... *)
BeginStatusWrite ==
  /\ runtime = "up"
  /\ written # {sessions}
  /\ runtime' = "writing"
  /\ file' = {}
  /\ UNCHANGED <<manager, sessions, written, registry, stream, view>>

(* ... and writes it. *)
EndStatusWrite ==
  /\ runtime = "writing"
  /\ runtime' = "up"
  /\ file' = file \cup {sessions}
  /\ written' = {sessions}
  /\ UNCHANGED <<manager, sessions, registry, stream, view>>

(* It ends after a SIGTERM, is killed, or crashes, even while writing.     *)
RuntimeExits ==
  /\ runtime \in {"up", "writing"}
  /\ runtime' = "exited"
  /\ UNCHANGED <<manager, sessions, written, file, registry, stream, view>>

Next ==
  \/ Start \/ PostStop \/ PutPolicy \/ Reload \/ Stopped \/ Crashed \/ Tick \/ Restart
  \/ checkAndBroadcastStatus \/ StatusChanges
  \/ \E b \in Browsers : Connect(b) \/ Break(b) \/ removeClient(b)
  \/ SessionsChange \/ BeginStatusWrite \/ EndStatusWrite \/ RuntimeExits

(***************************************************************************)
(* The timers of the API fire, and the runtime's loop keeps turning.       *)
(***************************************************************************)
Spec ==
  /\ Init /\ [][Next]_vars
  /\ WF_vars(Tick) /\ WF_vars(checkAndBroadcastStatus)
  /\ WF_vars(BeginStatusWrite) /\ WF_vars(EndStatusWrite)

-----------------------------------------------------------------------------
(***************************************************************************)
(* Where a dashboard shows another state than the manager's, the timer     *)
(* that will correct it is running: a crash is not announced itself, and   *)
(* must not stop it.  (A start that fails after a stop is not announced.)  *)
(***************************************************************************)
StateIsShown ==
  \A b \in Open :
    view[b].state # state =>
      timer \/ (view[b].state = "stopped" /\ state = "error")

(***************************************************************************)
(* When the runtime has been stopped no dashboard shows a session, not     *)
(* even one whose list was not the one announced last.                     *)
(***************************************************************************)
NoSessionsWhenStopped ==
  state # "running" /\ ~timer => \A b \in Open : view[b].sessions = {}

(***************************************************************************)
(* Announcing differences only is sound: a dashboard that shows what was   *)
(* announced last goes on doing so, through stops, crashes and restarts.   *)
(***************************************************************************)
StaysInStep ==
  [][\A b \in Open \cap Open' :
       view[b].sessions = previous => view'[b].sessions = previous']_vars

(***************************************************************************)
(* A dashboard in step comes to show the sessions of the running runtime,  *)
(* although the file may be read while it is written; and, while the       *)
(* registry polls, one that knows the last status of the connectors comes  *)
(* to show the present one.                                                *)
(***************************************************************************)
ChangesArrive ==
  /\ \A b \in Browsers, S \in SUBSET Sessions :
       (b \in Open /\ view[b].sessions = previous /\ runtime = "up" /\ sessions = S)
         ~> \/ view[b].sessions = S
            \/ b \notin Open \/ runtime \notin {"up", "writing"} \/ sessions # S
  /\ \A b \in Browsers, x \in Statuses :
       (b \in Open /\ view[b].status = snapshot /\ polling /\ status = x)
         ~> view[b].status = x \/ b \notin Open \/ ~polling \/ status # x

(***************************************************************************)
(* The clients are announced "whenever the connected client sessions       *)
(* change" (.kiro/specs/sse-real-time-updates/requirements.md:52), so      *)
(* every dashboard comes to show them.  False: one that opens on a list    *)
(* that is not the one announced last may keep it.                         *)
(***************************************************************************)
AllSessionsArrive ==
  \A b \in Browsers, S \in SUBSET Sessions :
    (b \in Open /\ runtime = "up" /\ sessions = S)
      ~> \/ view[b].sessions = S
         \/ b \notin Open \/ runtime \notin {"up", "writing"} \/ sessions # S
=============================================================================

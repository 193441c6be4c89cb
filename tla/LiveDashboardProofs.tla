-------------------------- MODULE LiveDashboardProofs --------------------------
(***************************************************************************)
(* Safety of LiveDashboard, for every set of browsers, sessions and        *)
(* statuses.  The invariant adds that the manager knows of a runtime and   *)
(* the timer runs while there is one, and that the file is empty while it  *)
(* is written.                                                             *)
(***************************************************************************)
EXTENDS LiveDashboard, TLAPS

RuntimeIsWatched ==
  /\ runtime # "off" => state = "running"
  /\ state = "running" => timer
  /\ runtime = "writing" => file = {}

IInv == TypeOK /\ RuntimeIsWatched /\ StateIsShown /\ NoSessionsWhenStopped

-----------------------------------------------------------------------------
(* A broadcast changes one field of the views of the open streams. *)
LEMMA BroadcastState ==
  ASSUME NEW v \in [Browsers -> View], NEW s \in State
  PROVE  LET w == broadcast(v, "state", s) IN
         /\ w \in [Browsers -> View]
         /\ \A b \in Browsers : w[b].sessions = v[b].sessions
         /\ \A b \in Open : w[b].state = s
BY DEF broadcast, View, Open

LEMMA BroadcastClients ==
  ASSUME NEW v \in [Browsers -> View], NEW S \in SUBSET Sessions
  PROVE  LET w == broadcast(v, "sessions", S) IN
         /\ w \in [Browsers -> View]
         /\ \A b \in Browsers : w[b].state = v[b].state
         /\ \A b \in Open : w[b].sessions = S
BY DEF broadcast, View, Open

LEMMA BroadcastStatus ==
  ASSUME NEW v \in [Browsers -> View], NEW x \in Statuses
  PROVE  LET w == broadcast(v, "status", x) IN
         /\ w \in [Browsers -> View]
         /\ \A b \in Browsers : w[b].state = v[b].state
         /\ \A b \in Browsers : w[b].sessions = v[b].sessions
BY DEF broadcast, View

(* Whatever the file holds, what is read from it is a list of sessions. *)
LEMMA ReadIsAList ==
  ASSUME TypeOK
  PROVE  /\ readClientSessions \in SUBSET Sessions
         /\ state # "running" => readClientSessions = {}
<1>1. UNION file \in SUBSET Sessions
  BY DEF TypeOK, Contents
<1> QED BY <1>1 DEF readClientSessions

-----------------------------------------------------------------------------
(***************************************************************************)
(* stop() tells every dashboard that the state is stopped and that no      *)
(* session is left; a start that follows tells it that it runs.            *)
(***************************************************************************)
LEMMA StopInvariant ==
  ASSUME IInv, Stopped
  PROVE  IInv' /\ \A b \in Open : view'[b].sessions = previous'
<1> DEFINE u == broadcast(view, "state", "stopped")
           v == broadcast(u, "sessions", {})
           w == broadcast(v, "state", "running")
<1> USE DEF IInv
<1>t. view \in [Browsers -> View]
  BY DEF TypeOK
<1>1. u \in [Browsers -> View] /\ \A b \in Open : u[b].state = "stopped"
  BY <1>t, BroadcastState DEF State
<1>2. /\ v \in [Browsers -> View]
      /\ \A b \in Open : v[b].state = "stopped" /\ v[b].sessions = {}
  <2> HIDE DEF u
  <2>1. {} \in SUBSET Sessions /\ Open \subseteq Browsers BY DEF Open
  <2> QED BY <1>1, <2>1, BroadcastClients
<1>3. /\ w \in [Browsers -> View]
      /\ \A b \in Open : w[b].state = "running" /\ w[b].sessions = {}
  <2> HIDE DEF v
  <2>1. "running" \in State /\ Open \subseteq Browsers BY DEF State, Open
  <2> QED BY <1>2, <2>1, BroadcastState
<1>4. Open' = Open /\ previous' = {}
  BY DEF Stopped, Open
<1>5. CASE awaited = "restart" /\ start(v)
  <2>1. view' = w BY <1>5 DEF start
  <2> HIDE DEF u, v, w
  <2>2. TypeOK'
    BY <1>5, <2>1, <1>3 DEF TypeOK, Stopped, start, startAll, State, Contents
  <2> QED
    BY <1>5, <2>1, <2>2, <1>3, <1>4
    DEF start, RuntimeIsWatched, StateIsShown, NoSessionsWhenStopped
<1>6. CASE awaited = "restart" /\ startFails(v) /\ timer' = FALSE
  <2> HIDE DEF u, v, w
  <2>1. TypeOK'
    BY <1>6, <1>2 DEF TypeOK, Stopped, startFails, State, Contents, registry
  <2> QED
    BY <1>6, <2>1, <1>2, <1>4
    DEF startFails, RuntimeIsWatched, StateIsShown, NoSessionsWhenStopped
<1>7. CASE awaited = "stop" /\ state' = "stopped" /\ timer' = FALSE
           /\ awaited' = "nothing" /\ runtime' = "off" /\ sessions' = {}
           /\ written' = {} /\ view' = v /\ UNCHANGED registry
  <2> HIDE DEF u, v, w
  <2>1. TypeOK'
    BY <1>7, <1>2 DEF TypeOK, Stopped, State, Contents, registry
  <2> QED
    BY <1>7, <2>1, <1>2, <1>4
    DEF RuntimeIsWatched, StateIsShown, NoSessionsWhenStopped
<1>8. afterStop(v)
  BY DEF Stopped
<1> HIDE DEF v, u, w
<1> QED BY <1>5, <1>6, <1>7, <1>8 DEF afterStop

(***************************************************************************)
(* stopAll changes what the dashboards know of the connections only.       *)
(***************************************************************************)
LEMMA StopAllKeepsViews ==
  ASSUME IInv, stopAll
  PROVE  /\ polling' \in BOOLEAN /\ status' \in Statuses /\ snapshot' \in Statuses
         /\ view' \in [Browsers -> View]
         /\ \A b \in Browsers : /\ view'[b].state = view[b].state
                                /\ view'[b].sessions = view[b].sessions
<1> DEFINE w == broadcast(view, "status", status')
<1>1. view \in [Browsers -> View] /\ status' \in Statuses
  BY DEF IInv, TypeOK, stopAll
<1>2. /\ w \in [Browsers -> View]
      /\ \A b \in Browsers : w[b].state = view[b].state
      /\ \A b \in Browsers : w[b].sessions = view[b].sessions
  BY <1>1, BroadcastStatus
<1>3. view' = w /\ polling' = FALSE /\ snapshot' = status'
  BY DEF stopAll
<1> HIDE DEF w
<1> QED BY <1>1, <1>2, <1>3

(***************************************************************************)
(* A tick corrects the state of every dashboard, and the sessions if they  *)
(* differ from those announced last.                                       *)
(***************************************************************************)
LEMMA TickInvariant ==
  ASSUME IInv, Tick
  PROVE  /\ IInv'
         /\ \A b \in Open : view[b].sessions = previous => view'[b].sessions = previous'
<1> DEFINE u == broadcast(view, "state", state)
<1> USE DEF IInv
<1>1. /\ u \in [Browsers -> View]
      /\ \A b \in Browsers : u[b].sessions = view[b].sessions
      /\ \A b \in Open : u[b].state = state
  BY BroadcastState DEF TypeOK
<1>2. previous' \in SUBSET Sessions
  BY ReadIsAList DEF Tick
<1>3. view' = IF previous' # previous THEN broadcast(u, "sessions", previous') ELSE u
  BY DEF Tick
<1> HIDE DEF u
<1>4. /\ view' \in [Browsers -> View]
      /\ \A b \in Open : view'[b].state = state
      /\ \A b \in Open : view[b].sessions = previous => view'[b].sessions = previous'
  <2>1. Open \subseteq Browsers BY DEF Open
  <2>2. CASE previous' = previous BY <1>1, <1>3, <2>1, <2>2
  <2>3. CASE previous' # previous BY <1>1, <1>2, <1>3, <2>1, <2>3, BroadcastClients
  <2> QED BY <2>2, <2>3
<1>5. Open' = Open BY DEF Tick, Open
<1>6. TypeOK' BY <1>2, <1>4 DEF TypeOK, Tick, process, registry
<1> QED BY <1>4, <1>5, <1>6
     DEF Tick, process, RuntimeIsWatched, StateIsShown, NoSessionsWhenStopped

-----------------------------------------------------------------------------
LEMMA InvariantInit ==
  Init => IInv
<1> SUFFICES ASSUME Init PROVE IInv
  OBVIOUS
<1>1. view \in [Browsers -> View]
  BY DEF Init, View, State
<1>2. TypeOK
  BY <1>1 DEF Init, TypeOK, Contents, State
<1>3. Open = {}
  BY DEF Init, Open
<1> QED
  BY <1>2, <1>3 DEF Init, IInv, RuntimeIsWatched, StateIsShown, NoSessionsWhenStopped

(* The part of StaysInStep that one step has to keep. *)
InStep ==
  \A b \in Open \cap Open' :
    view[b].sessions = previous => view'[b].sessions = previous'

(***************************************************************************)
(* Only a stop, a restart and a tick change what was announced last; an    *)
(* exit leaves the timer running, a new stream begins in the right state.  *)
(***************************************************************************)
LEMMA InvariantNext ==
  ASSUME IInv, [Next]_vars
  PROVE  IInv' /\ InStep
<1> USE DEF IInv
<1> SUFFICES ASSUME Next \/ UNCHANGED vars PROVE IInv' /\ InStep
  OBVIOUS
<1>1. CASE Start
  <2>1. /\ broadcast(view, "state", "running") \in [Browsers -> View]
        /\ \A b \in Browsers :
             broadcast(view, "state", "running")[b].sessions = view[b].sessions
        /\ \A b \in Open : broadcast(view, "state", "running")[b].state = "running"
    BY BroadcastState DEF TypeOK, State
  <2>2. CASE start(view)
    <3>1. TypeOK'
      BY <1>1, <2>1, <2>2 DEF TypeOK, Start, start, startAll, State, Contents
    <3> QED
      BY <1>1, <2>1, <2>2, <3>1
      DEF Start, start, Open, InStep, RuntimeIsWatched, StateIsShown, NoSessionsWhenStopped
  <2>3. CASE startFails(view) /\ timer' = timer
    <3>1. TypeOK'
      BY <1>1, <2>3 DEF TypeOK, Start, startFails, registry, State, Contents
    <3> QED
      BY <1>1, <2>3, <3>1
      DEF TypeOK, State, Start, startFails, Open, InStep, RuntimeIsWatched,
          StateIsShown, NoSessionsWhenStopped
  <2> QED BY <1>1, <2>2, <2>3 DEF Start
<1>2. CASE PostStop
  <2>1. TypeOK'
    BY <1>2, StopAllKeepsViews DEF TypeOK, PostStop, process
  <2> QED
    BY <1>2, <2>1, StopAllKeepsViews
    DEF PostStop, process, Open, InStep, RuntimeIsWatched, StateIsShown, NoSessionsWhenStopped
<1>3. CASE PutPolicy
  <2>1. TypeOK'
    BY <1>3, StopAllKeepsViews DEF TypeOK, PutPolicy, process
  <2> QED
    BY <1>3, <2>1, StopAllKeepsViews
    DEF PutPolicy, process, Open, InStep, RuntimeIsWatched, StateIsShown, NoSessionsWhenStopped
<1>4. CASE Reload
  <2>1. /\ view' \in [Browsers -> View]
        /\ \A b \in Browsers : view'[b].sessions = view[b].sessions
        /\ \A b \in Open : view'[b].state = state
    BY <1>4, BroadcastState DEF TypeOK, Reload
  <2>2. TypeOK'
    BY <1>4, <2>1 DEF TypeOK, Reload, manager, process, registry
  <2> QED
    BY <1>4, <2>1, <2>2
    DEF Reload, manager, process, Open, InStep, RuntimeIsWatched, StateIsShown,
        NoSessionsWhenStopped
<1>5. CASE Stopped
  <2>1. Open' = Open BY <1>5 DEF Stopped, Open
  <2> QED BY <1>5, <2>1, StopInvariant DEF InStep
<1>6. CASE Crashed
  <2>1. TypeOK'
    BY <1>6, StopAllKeepsViews DEF TypeOK, Crashed, State, Contents
  <2> QED
    BY <1>6, <2>1, StopAllKeepsViews
    DEF Crashed, Open, InStep, RuntimeIsWatched, StateIsShown, NoSessionsWhenStopped
<1>7. CASE Tick
  <2>1. Open' = Open BY <1>7 DEF Tick, Open
  <2> QED BY <1>7, <2>1, TickInvariant DEF InStep
<1>8. CASE Restart
  <2>1. TypeOK'
    BY <1>8 DEF TypeOK, Restart, State, Contents
  <2>2. Open' = {}
    BY <1>8 DEF Restart, Open
  <2> QED
    BY <1>8, <2>1, <2>2
    DEF Restart, InStep, RuntimeIsWatched, StateIsShown, NoSessionsWhenStopped
<1>9. CASE checkAndBroadcastStatus
  <2>1. /\ view' \in [Browsers -> View]
        /\ \A b \in Browsers : /\ view'[b].state = view[b].state
                               /\ view'[b].sessions = view[b].sessions
    BY <1>9, BroadcastStatus DEF TypeOK, checkAndBroadcastStatus
  <2>2. TypeOK'
    BY <1>9, <2>1 DEF TypeOK, checkAndBroadcastStatus, manager, process
  <2> QED
    BY <1>9, <2>1, <2>2
    DEF checkAndBroadcastStatus, manager, process, Open, InStep, RuntimeIsWatched,
        StateIsShown, NoSessionsWhenStopped
<1>10. ASSUME NEW b \in Browsers, Connect(b) PROVE IInv' /\ InStep
  <2>1. TypeOK'
    BY <1>10, ReadIsAList DEF TypeOK, Connect, View, manager, process, registry
  <2>2. Open' = Open \cup {b} /\ b \notin Open
    BY <1>10 DEF TypeOK, Connect, Open
  <2>3. /\ view'[b].state = state
        /\ state # "running" => view'[b].sessions = {}
        /\ \A c \in Browsers \ {b} : view'[c] = view[c]
    BY <1>10, ReadIsAList DEF TypeOK, Connect
  <2>4. Open \subseteq Browsers BY DEF Open
  <2> QED
    BY <1>10, <2>1, <2>2, <2>3, <2>4
    DEF Connect, manager, process, InStep, RuntimeIsWatched, StateIsShown,
        NoSessionsWhenStopped
<1>11. ASSUME NEW b \in Browsers, Break(b) \/ removeClient(b) PROVE IInv' /\ InStep
  <2>1. TypeOK'
    BY <1>11 DEF TypeOK, Break, removeClient, manager, process, registry
  <2>2. Open' \subseteq Open
    BY <1>11 DEF TypeOK, Break, removeClient, Open
  <2> QED
    BY <1>11, <2>1, <2>2
    DEF Break, removeClient, manager, process, InStep, RuntimeIsWatched, StateIsShown,
        NoSessionsWhenStopped
<1>12. CASE StatusChanges \/ SessionsChange \/ BeginStatusWrite \/ EndStatusWrite
            \/ RuntimeExits
  <2>a. EndStatusWrite => file' = {sessions}
    BY DEF EndStatusWrite, RuntimeIsWatched
  <2>1. TypeOK'
    BY <1>12, <2>a
    DEF TypeOK, StatusChanges, SessionsChange, BeginStatusWrite, EndStatusWrite,
        RuntimeExits, manager, process, registry, Contents
  <2> QED
    BY <1>12, <2>1
    DEF StatusChanges, SessionsChange, BeginStatusWrite, EndStatusWrite, RuntimeExits,
        manager, process, registry, Open, InStep, RuntimeIsWatched, StateIsShown,
        NoSessionsWhenStopped
<1>13. CASE UNCHANGED vars
  BY <1>13
  DEF vars, manager, process, registry, TypeOK, Open, InStep, RuntimeIsWatched,
      StateIsShown, NoSessionsWhenStopped
<1> HIDE DEF IInv
<1> QED
  BY <1>1, <1>2, <1>3, <1>4, <1>5, <1>6, <1>7, <1>8, <1>9, <1>10, <1>11, <1>12, <1>13
  DEF Next

LEMMA Invariant ==
  Spec => []IInv
<1>1. IInv /\ [Next]_vars => IInv'
  BY InvariantNext
<1> QED BY <1>1, InvariantInit, PTL DEF Spec

-----------------------------------------------------------------------------
(* Every variable keeps its type; status.json holds one list at most. *)
THEOREM TypeCorrect ==
  Spec => []TypeOK
<1>1. IInv => TypeOK BY DEF IInv
<1> QED BY <1>1, Invariant, PTL

(***************************************************************************)
(* Where a dashboard shows a state that is not the manager's, the status   *)
(* timer runs, or a start has failed after a stop.                         *)
(***************************************************************************)
THEOREM TheStateIsShown ==
  Spec => []StateIsShown
<1>1. IInv => StateIsShown BY DEF IInv
<1> QED BY <1>1, Invariant, PTL

(* Once stop() has ended, no dashboard shows a session. *)
THEOREM NoSessionOutlivesTheRuntime ==
  Spec => []NoSessionsWhenStopped
<1>1. IInv => NoSessionsWhenStopped BY DEF IInv
<1> QED BY <1>1, Invariant, PTL

(* A dashboard that shows the list announced last goes on doing so. *)
THEOREM DashboardsStayInStep ==
  Spec => StaysInStep
<1>1. IInv /\ [Next]_vars => [InStep]_vars
  BY InvariantNext
<1>2. [][InStep]_vars => StaysInStep
  BY DEF StaysInStep, InStep
<1> QED BY <1>1, <1>2, Invariant, PTL DEF Spec
=============================================================================

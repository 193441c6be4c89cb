----------------------- MODULE RuntimeLifecycleProofs -----------------------
(***************************************************************************)
(* RuntimeLifecycle's safety properties for every set of requests, runtime *)
(* processes and faults.                                                   *)
(***************************************************************************)
EXTENDS RuntimeLifecycle, TLAPS

(***************************************************************************)
(* The inductive invariant.  A process that exists, even one whose exit    *)
(* Node has not seen, is the tracked one; that is what makes the exit      *)
(* event it causes the one every stop() awaits.                            *)
(***************************************************************************)
OnlyTheTrackedExists == \A r \in Runs : runtime[r].phase # "none" => process = r

RunningHasProcess == state = "running" <=> process # NoRun

StoppingIsRunning == stopping => state = "running"

BootingIsStopped == node = "booting" => state # "running"

IInv ==
  /\ TypeOK
  /\ OnlyTheTrackedExists
  /\ RunningHasProcess
  /\ StoppingIsRunning
  /\ BootingIsStopped
  /\ StoppingIsAwaited
  /\ ConnectorsNeedRuntime

-----------------------------------------------------------------------------
(***************************************************************************)
(* A signal changes a process's phase or flag, and neither creates a       *)
(* process nor makes one disappear.                                        *)
(***************************************************************************)
LEMMA SignalsKeepProcesses ==
  ASSUME NEW rt \in [Runs -> Runtime], NEW r \in Runs
  PROVE  /\ SIGTERM(rt, r) \in [Runs -> Runtime]
         /\ SIGUSR1(rt, r) \in [Runs -> Runtime]
         /\ \A x \in Runs : SIGTERM(rt, r)[x].phase = "none" <=> rt[x].phase = "none"
         /\ \A x \in Runs : SIGUSR1(rt, r)[x].phase = "none" <=> rt[x].phase = "none"
<1>1. rt[r] \in Runtime
  OBVIOUS
<1>2. /\ SIGTERM(rt, r) \in [Runs -> Runtime]
        /\ \A x \in Runs : SIGTERM(rt, r)[x].phase = "none" <=> rt[x].phase = "none"
  <2>1. CASE rt[r].phase \in {"created", "built"}
    BY <1>1, <2>1 DEF SIGTERM, Runtime
  <2>2. CASE rt[r].phase \in {"serving", "reloading"}
    BY <1>1, <2>2 DEF SIGTERM, Runtime
  <2>3. CASE rt[r].phase \notin {"created", "built", "serving", "reloading"}
    BY <2>3 DEF SIGTERM
  <2> QED BY <2>1, <2>2, <2>3
<1>3. /\ SIGUSR1(rt, r) \in [Runs -> Runtime]
        /\ \A x \in Runs : SIGUSR1(rt, r)[x].phase = "none" <=> rt[x].phase = "none"
  <2>1. CASE rt[r].phase \in {"created", "built"}
    BY <1>1, <2>1 DEF SIGUSR1, Runtime
  <2>2. CASE rt[r].phase \in {"serving", "reloading"}
    BY <1>1, <2>2 DEF SIGUSR1, Runtime
  <2>3. CASE rt[r].phase \notin {"created", "built", "serving", "reloading"}
    BY <2>3 DEF SIGUSR1
  <2> QED BY <2>1, <2>2, <2>3
<1> QED BY <1>2, <1>3

(* A write leaves every file with a config. *)
LEMMA WritesAreTyped ==
  ASSUME TypeOK, db' \in Config, NEW p \in Paths, writeToFile(p) \/ writeFails
  PROVE  configFile' \in [Paths -> Config \cup {NoConfig}]
  BY DEF TypeOK, writeToFile, writeFails

(***************************************************************************)
(* start() from a table without processes tracks the one it creates.       *)
(***************************************************************************)
LEMMA StartTracks ==
  ASSUME NEW rt \in [Runs -> Runtime], \A x \in Runs : rt[x].phase = "none",
         NoRun \notin Runs, startAndConnect(rt) \/ startFails(rt)
  PROVE  /\ process' \in Runs \cup {NoRun}
         /\ runtime' \in [Runs -> Runtime]
         /\ \A x \in Runs : runtime'[x].phase # "none" => process' = x
         /\ state' \in {"running", "error"}
         /\ state' = "running" <=> process' # NoRun
         /\ stopping' = FALSE
         /\ connectors' \in {TRUE, connectors}
         /\ connectors' # connectors => state' = "running"
<1>1. CASE startAndConnect(rt)
  <2>1. process' \in Free(rt)
    BY <1>1 DEF startAndConnect
  <2>2. process' \in Runs
    BY <2>1 DEF Free
  <2>3. Spawned \in Runtime /\ Spawned.phase = "created"
    BY DEF Spawned, NoConfig, Runtime
  <2> QED BY <1>1, <2>2, <2>3 DEF startAndConnect
<1>2. CASE startFails(rt)
  BY <1>2 DEF startFails
<1> QED BY <1>1, <1>2

-----------------------------------------------------------------------------
(***************************************************************************)
(* Events that leave ProcessManager and the runtime alone.                 *)
(***************************************************************************)
LEMMA NoProcessEvent ==
  ASSUME IInv, UNCHANGED <<pm, connectors, request>>, db' \in Config,
         configFile' \in [Paths -> Config \cup {NoConfig}],
         \/ node' = node
         \/ node = "booting" /\ node' = "up"
         \/ node = "closing" /\ node' = "exited"
  PROVE  IInv'
BY DEF IInv, TypeOK, OnlyTheTrackedExists, RunningHasProcess, StoppingIsRunning,
       BootingIsStopped, StoppingIsAwaited, ConnectorsNeedRuntime, Stopping, pm

(***************************************************************************)
(* Steps of the runtime: a process that exists changes.                    *)
(***************************************************************************)
LEMMA RuntimeStepPreserves ==
  ASSUME IInv, NEW r \in Runs, NEW s \in Runtime, runtime[r].phase # "none",
         RuntimeStep(r, s)
  PROVE  IInv'
<1>1. runtime' \in [Runs -> Runtime]
  BY DEF RuntimeStep, IInv, TypeOK
<1>2. OnlyTheTrackedExists'
  BY DEF RuntimeStep, IInv, TypeOK, OnlyTheTrackedExists
<1>3. QED
  BY <1>1, <1>2
  DEF RuntimeStep, IInv, TypeOK, RunningHasProcess, StoppingIsRunning,
      BootingIsStopped, StoppingIsAwaited, ConnectorsNeedRuntime, Stopping

(***************************************************************************)
(* stop(): whoever calls it awaits the exit and has stopped the connectors.*)
(***************************************************************************)
LEMMA StopPreserves ==
  ASSUME IInv, IsRunning, stop, connectors' = FALSE, db' \in Config,
         configFile' \in [Paths -> Config \cup {NoConfig}],
         node \in {"up", "leaving"},
         \/ /\ node' = "leaving" /\ request' = request
         \/ /\ node' = node
            /\ \E q \in Requests, w \in {"stop", "policy"} :
                 request' = [request EXCEPT ![q] = w]
  PROVE  IInv'
<1>1. process \in Runs /\ runtime \in [Runs -> Runtime]
  BY DEF IInv, TypeOK, IsRunning
<1>2. /\ runtime' \in [Runs -> Runtime]
      /\ \A x \in Runs : runtime'[x].phase = "none" <=> runtime[x].phase = "none"
  BY <1>1, SignalsKeepProcesses DEF stop
<1>3. StoppingIsAwaited'
  <2>1. CASE node' = "leaving" /\ request' = request
    BY <2>1 DEF stop, StoppingIsAwaited
  <2>2. CASE \E q \in Requests, w \in {"stop", "policy"} :
               request' = [request EXCEPT ![q] = w]
    BY <2>2 DEF stop, StoppingIsAwaited, Stopping, IInv, TypeOK
  <2>3. QED
    BY <2>1, <2>2
<1>4. TypeOK'
  BY <1>2 DEF stop, IInv, TypeOK
<1>5. QED
  BY <1>2, <1>3, <1>4
  DEF stop, IsRunning, IInv, OnlyTheTrackedExists, RunningHasProcess,
      StoppingIsRunning, BootingIsStopped, ConnectorsNeedRuntime

(***************************************************************************)
(* reload(): SIGUSR1 may end the process, which then still exists.         *)
(***************************************************************************)
LEMMA ReloadPreserves ==
  ASSUME IInv, IsRunning, reload, UNCHANGED <<node, connectors, db>>,
         configFile' \in [Paths -> Config \cup {NoConfig}],
         request' \in [Requests -> {"idle", "stop", "policy", "edit"}],
         Stopping' = Stopping
  PROVE  IInv'
<1>1. process \in Runs /\ runtime \in [Runs -> Runtime]
  BY DEF IInv, TypeOK, IsRunning
<1>2. /\ runtime' \in [Runs -> Runtime]
      /\ \A x \in Runs : runtime'[x].phase = "none" <=> runtime[x].phase = "none"
  BY <1>1, SignalsKeepProcesses DEF reload
<1>3. TypeOK'
  BY <1>2 DEF reload, IInv, TypeOK
<1>4. QED
  BY <1>2, <1>3
  DEF reload, IInv, OnlyTheTrackedExists, RunningHasProcess, StoppingIsRunning,
      BootingIsStopped, ConnectorsNeedRuntime, StoppingIsAwaited

(***************************************************************************)
(* A start() while no process exists and nobody awaits an exit.            *)
(***************************************************************************)
LEMMA StartPreserves ==
  ASSUME IInv, NEW rt \in [Runs -> Runtime], \A x \in Runs : rt[x].phase = "none",
         startAndConnect(rt) \/ startFails(rt), ~connectors,
         db' \in Config, configFile' \in [Paths -> Config \cup {NoConfig}],
         request' \in [Requests -> {"idle", "stop", "policy", "edit"}],
         node' \in {"up", "leaving", "closing"},
         Stopping' = {}, node' # "leaving"
  PROVE  IInv'
<1>1. NoRun \notin Runs
  BY LifecycleAssumption
<1>2. /\ process' \in Runs \cup {NoRun}
      /\ runtime' \in [Runs -> Runtime]
      /\ \A x \in Runs : runtime'[x].phase # "none" => process' = x
      /\ state' \in {"running", "error"}
      /\ state' = "running" <=> process' # NoRun
      /\ stopping' = FALSE
      /\ connectors' \in {TRUE, connectors}
      /\ connectors' # connectors => state' = "running"
  BY <1>1, StartTracks
<1>3. TypeOK'
  BY <1>2 DEF IInv, TypeOK
<1>4. ConnectorsNeedRuntime'
  BY <1>2 DEF ConnectorsNeedRuntime, IInv, TypeOK
<1>5. StoppingIsAwaited' /\ StoppingIsRunning' /\ BootingIsStopped'
  BY <1>2 DEF StoppingIsAwaited, StoppingIsRunning, BootingIsStopped
<1>6. QED
  BY <1>2, <1>3, <1>4, <1>5 DEF IInv, OnlyTheTrackedExists, RunningHasProcess

(* Between an idle ProcessManager and a start nothing exists.              *)
LEMMA NothingExistsWhenStopped ==
  ASSUME IInv, ~IsRunning
  PROVE  /\ state # "running" /\ process = NoRun /\ ~stopping /\ ~connectors
         /\ runtime \in [Runs -> Runtime]
         /\ \A x \in Runs : runtime[x].phase = "none"
         /\ Stopping = {} /\ node # "leaving"
<1>1. NoRun \notin Runs
  BY LifecycleAssumption
<1>2. state # "running" /\ process = NoRun
  BY DEF IInv, RunningHasProcess, IsRunning
<1>3. QED
  BY <1>1, <1>2
  DEF IInv, TypeOK, OnlyTheTrackedExists, StoppingIsRunning, StoppingIsAwaited,
      ConnectorsNeedRuntime

(***************************************************************************)
(* The exit event: what exited is the tracked process, so nothing is left  *)
(* when the awaiting callers resume.                                       *)
(***************************************************************************)
LEMMA ExitPreserves ==
  ASSUME IInv, NEW r \in Runs, ExitEvent(r)
  PROVE  IInv'
<1> DEFINE rt == [runtime EXCEPT ![r] = NoRuntime]
<1>1. NoRun \notin Runs
  BY LifecycleAssumption
<1>2. process = r /\ state = "running"
  BY <1>1 DEF ExitEvent, IInv, OnlyTheTrackedExists, RunningHasProcess
<1>3. NoRuntime \in Runtime /\ NoRuntime.phase = "none"
  BY DEF NoRuntime, NoConfig, Runtime
<1>4. rt \in [Runs -> Runtime] /\ \A x \in Runs : rt[x].phase = "none"
  BY <1>2, <1>3 DEF IInv, TypeOK, OnlyTheTrackedExists
<1>5. node' \in {"up", "leaving", "closing"} /\ node' # "leaving"
  BY <1>2 DEF ExitEvent, IInv, TypeOK, BootingIsStopped
<1>6. /\ request' \in [Requests -> {"idle", "stop", "policy", "edit"}]
      /\ Stopping' = {}
  BY DEF ExitEvent, IInv, TypeOK, Stopping
<1>7. db' \in Config /\ configFile' \in [Paths -> Config \cup {NoConfig}]
  BY DEF ExitEvent, IInv, TypeOK
<1>8. CASE Restarting # {}
  <2>1. stopping /\ ~connectors
    BY <1>8 DEF Restarting, Stopping, IInv, StoppingIsAwaited, ConnectorsNeedRuntime
  <2>2. startAndConnect(rt) \/ startFails(rt)
    BY <1>8 DEF ExitEvent
  <2> HIDE DEF rt
  <2>3. QED
    BY <1>4, <1>5, <1>6, <1>7, <2>1, <2>2, StartPreserves
<1>9. CASE Restarting = {}
  <2>1. /\ state' \in {"stopped", "error"}
        /\ process' = NoRun
        /\ stopping' = FALSE
        /\ connectors' = (connectors /\ stopping)
        /\ runtime' = rt
    BY <1>9 DEF ExitEvent
  <2>2. connectors' = FALSE
    BY <2>1 DEF IInv, ConnectorsNeedRuntime
  <2>3. TypeOK'
    BY <1>4, <1>5, <1>6, <1>7, <2>1, <2>2 DEF TypeOK
  <2>4. QED
    BY <1>4, <1>5, <1>6, <2>1, <2>2, <2>3
    DEF IInv, OnlyTheTrackedExists, RunningHasProcess, StoppingIsRunning,
        BootingIsStopped, StoppingIsAwaited, ConnectorsNeedRuntime
<1>10. QED
  BY <1>8, <1>9

(* The auto-start finds nothing running, and fails or starts the first one. *)
LEMMA BootPreserves ==
  ASSUME IInv, Boot
  PROVE  IInv'
<1>1. ~IsRunning
  BY DEF Boot, IInv, BootingIsStopped, IsRunning
<1>2. db' \in Config /\ configFile' \in [Paths -> Config \cup {NoConfig}]
  BY LifecycleAssumption, WritesAreTyped DEF Boot, IInv, TypeOK
<1>3. request' \in [Requests -> {"idle", "stop", "policy", "edit"}] /\ Stopping' = Stopping
  BY DEF Boot, IInv, TypeOK, Stopping
<1>4. CASE startAndConnect(runtime) \/ startFails(runtime)
  BY <1>1, <1>2, <1>3, <1>4, NothingExistsWhenStopped, StartPreserves DEF Boot
<1>5. CASE UNCHANGED <<pm, connectors>>
  BY <1>2, <1>5, NoProcessEvent DEF Boot
<1>6. QED
  BY <1>4, <1>5 DEF Boot

(* POST /start starts only when nothing runs, whether or not it wrote.     *)
LEMMA PostStartPreserves ==
  ASSUME IInv, NEW q \in Requests, PostStart(q)
  PROVE  IInv'
<1>1. db' \in Config /\ configFile' \in [Paths -> Config \cup {NoConfig}]
  BY LifecycleAssumption, WritesAreTyped DEF PostStart, IInv, TypeOK
<1>2. request' \in [Requests -> {"idle", "stop", "policy", "edit"}] /\ Stopping' = Stopping
  BY DEF PostStart, IInv, TypeOK, Stopping
<1>3. node' \in {"up", "leaving", "closing"} /\ node' = node
  BY DEF PostStart, Accepts
<1>4. CASE ~IsRunning /\ (startAndConnect(runtime) \/ startFails(runtime))
  BY <1>1, <1>2, <1>3, <1>4, NothingExistsWhenStopped, StartPreserves
<1>5. CASE UNCHANGED <<pm, connectors>>
  BY <1>1, <1>5, NoProcessEvent DEF PostStart
<1>6. QED
  BY <1>4, <1>5 DEF PostStart

(* POST /stop on a stopped server finds the connectors stopped already.    *)
LEMMA PostStopPreserves ==
  ASSUME IInv, NEW q \in Requests, PostStop(q)
  PROVE  IInv'
<1>1. db' \in Config /\ configFile' \in [Paths -> Config \cup {NoConfig}]
  BY DEF PostStop, IInv, TypeOK
<1>2. CASE IsRunning
  BY <1>1, <1>2, StopPreserves DEF PostStop, Accepts
<1>3. CASE ~IsRunning
  <2>1. connectors = FALSE
    BY <1>3, NothingExistsWhenStopped DEF IInv, TypeOK
  <2>2. QED
    BY <1>1, <1>3, <2>1, NoProcessEvent DEF PostStop
<1>4. QED
  BY <1>2, <1>3

(* POST /reload at worst ends the tracked process.                          *)
LEMMA PostReloadPreserves ==
  ASSUME IInv, NEW q \in Requests, PostReload(q)
  PROVE  IInv'
<1>1. db' \in Config /\ configFile' \in [Paths -> Config \cup {NoConfig}]
  BY LifecycleAssumption, WritesAreTyped DEF PostReload, IInv, TypeOK
<1>2. request' \in [Requests -> {"idle", "stop", "policy", "edit"}] /\ Stopping' = Stopping
  BY DEF PostReload, IInv, TypeOK, Stopping
<1>3. CASE IsRunning /\ reload
  BY <1>1, <1>2, <1>3, ReloadPreserves DEF PostReload
<1>4. CASE UNCHANGED pm
  BY <1>1, <1>4, NoProcessEvent DEF PostReload
<1>5. QED
  BY <1>3, <1>4 DEF PostReload

(* PUT /policy stops the connectors even when it then fails to write.       *)
LEMMA PutPolicyPreserves ==
  ASSUME IInv, NEW q \in Requests, PutPolicy(q)
  PROVE  IInv'
<1>1. db' \in Config
  BY DEF PutPolicy, IInv, TypeOK, Config
<1>2. configFile' \in [Paths -> Config \cup {NoConfig}]
  BY <1>1, LifecycleAssumption, WritesAreTyped DEF PutPolicy, IInv, TypeOK
<1>3. CASE IsRunning /\ stop /\ request' = [request EXCEPT ![q] = "policy"]
  BY <1>1, <1>2, <1>3, StopPreserves DEF PutPolicy, Accepts
<1>4. CASE UNCHANGED <<pm, request>> /\ connectors' = FALSE
  BY <1>1, <1>2, <1>4
  DEF PutPolicy, pm, IInv, TypeOK, OnlyTheTrackedExists, RunningHasProcess,
      StoppingIsRunning, BootingIsStopped, StoppingIsAwaited,
      ConnectorsNeedRuntime, Stopping
<1>5. CASE UNCHANGED <<pm, connectors, request>>
  BY <1>1, <1>2, <1>5, NoProcessEvent DEF PutPolicy
<1>6. QED
  BY <1>3, <1>4, <1>5 DEF PutPolicy

(* An edit and the reload at its finish.                                    *)
LEMMA EditPreserves ==
  ASSUME IInv, NEW q \in Requests, PostEdit(q) \/ Finish(q)
  PROVE  IInv'
<1>1. db' \in Config
  BY DEF PostEdit, Finish, IInv, TypeOK, Config
<1>2. configFile' \in [Paths -> Config \cup {NoConfig}]
  BY <1>1, LifecycleAssumption, WritesAreTyped DEF PostEdit, Finish, IInv, TypeOK
<1>3. /\ request' \in [Requests -> {"idle", "stop", "policy", "edit"}]
      /\ Stopping' = Stopping
  BY DEF PostEdit, Finish, Accepts, IInv, TypeOK, Stopping
<1>4. CASE UNCHANGED pm
  BY <1>1, <1>2, <1>3, <1>4
  DEF PostEdit, Finish, pm, IInv, TypeOK, OnlyTheTrackedExists, RunningHasProcess,
      StoppingIsRunning, BootingIsStopped, StoppingIsAwaited, ConnectorsNeedRuntime
<1>5. CASE IsRunning /\ reload /\ UNCHANGED <<node, connectors, db>>
  BY <1>2, <1>3, <1>5, ReloadPreserves
<1>6. QED
  BY <1>4, <1>5 DEF PostEdit, Finish

(* A shutdown awaits the exit of the running runtime, or closes at once.    *)
LEMMA ShutdownPreserves ==
  ASSUME IInv, Shutdown
  PROVE  IInv'
<1>1. db' \in Config /\ configFile' \in [Paths -> Config \cup {NoConfig}]
  BY DEF Shutdown, IInv, TypeOK
<1>2. CASE IsRunning
  BY <1>1, <1>2, StopPreserves DEF Shutdown
<1>3. CASE ~IsRunning
  BY <1>3, NothingExistsWhenStopped
  DEF Shutdown, pm, IInv, TypeOK, OnlyTheTrackedExists, RunningHasProcess,
      StoppingIsRunning, BootingIsStopped, StoppingIsAwaited,
      ConnectorsNeedRuntime, Stopping
<1>4. QED
  BY <1>2, <1>3

(* A process that has read its config. *)
HasRead(c) == c.phase \in {"built", "serving", "reloading"}

(***************************************************************************)
(* What a runtime process does by itself, and the kill timer: a process    *)
(* that exists changes, and its mode is the one it had or that of the file.*)
(***************************************************************************)
LEMMA RuntimeSteps ==
  ASSUME IInv, NEW r \in Runs,
         \/ RuntimeProgress(r) \/ RuntimeEnds(r) \/ RuntimeCrashes(r)
         \/ KillTimeout /\ r = process
  PROVE  \E s \in Runtime :
           /\ RuntimeStep(r, s)
           /\ runtime[r].phase # "none"
           /\ HasRead(s) =>
                \/ s.config.mode = configFile[ConfigPath].mode
                \/ HasRead(runtime[r]) /\ s.config.mode = runtime[r].config.mode
<1> DEFINE c == runtime[r]
           f == configFile[ConfigPath]
           Exited == [c EXCEPT !.phase = "exited"]
<1>1. c \in Runtime /\ f \in Config \cup {NoConfig}
  BY LifecycleAssumption DEF IInv, TypeOK
<1>2. f \in [mode : Modes \cup {"none"}, nodes : Contents \cup {"none"}]
  BY <1>1 DEF Config, NoConfig
<1>3. Exited \in Runtime /\ ~HasRead(Exited)
  BY <1>1 DEF Runtime, HasRead
<1>4. CASE CreateServer(r)
  <2> DEFINE s == [c EXCEPT !.config = f,
                            !.phase = IF f = NoConfig THEN "exited" ELSE "built"]
  <2>1. RuntimeStep(r, s) /\ c.phase # "none"
    BY <1>4 DEF CreateServer
  <2> HIDE DEF f
  <2>2. s \in Runtime /\ s.config = f
    BY <1>1, <1>2 DEF Runtime
  <2>3. QED
    BY <2>1, <2>2 DEF f
<1>5. CASE InstallHandlers(r)
  BY <1>1, <1>5 DEF InstallHandlers, Runtime, HasRead
<1>6. CASE BeginReload(r)
  <2> DEFINE s == [c EXCEPT !.phase = "reloading", !.reload = FALSE,
                            !.config.nodes = f.nodes]
  <2>1. RuntimeStep(r, s) /\ c.phase = "serving"
    BY <1>6 DEF BeginReload
  <2> HIDE DEF f
  <2>2. s \in Runtime /\ s.config.mode = c.config.mode
    BY <1>1, <1>2 DEF Runtime
  <2>3. QED
    BY <2>1, <2>2 DEF HasRead
<1>7. CASE EndReload(r)
  BY <1>1, <1>7 DEF EndReload, Runtime, HasRead
<1>8. CASE RuntimeEnds(r)
  BY <1>3, <1>8 DEF RuntimeEnds
<1>9. CASE RuntimeCrashes(r)
  BY <1>3, <1>9 DEF RuntimeCrashes, Live
<1>10. CASE KillTimeout /\ r = process
  BY <1>3, <1>10 DEF KillTimeout, RuntimeStep, Live
<1>11. QED
  BY <1>4, <1>5, <1>6, <1>7, <1>8, <1>9, <1>10 DEF RuntimeProgress

(* These steps keep the inductive invariant.                               *)
LEMMA RuntimePreserves ==
  ASSUME IInv, NEW r \in Runs,
         \/ RuntimeProgress(r) \/ RuntimeEnds(r) \/ RuntimeCrashes(r)
         \/ KillTimeout /\ r = process
  PROVE  IInv'
BY RuntimeSteps, RuntimeStepPreserves

(* Nothing exists in the beginning.                                        *)
LEMMA InitEstablishes == Init => IInv
<1> SUFFICES ASSUME Init
             PROVE  IInv
  OBVIOUS
<1>1. NoRuntime \in Runtime /\ NoRuntime.phase = "none"
  BY DEF NoRuntime, NoConfig, Runtime
<1>2. TypeOK /\ OnlyTheTrackedExists
  BY <1>1 DEF Init, TypeOK, OnlyTheTrackedExists
<1>3. Stopping = {}
  BY DEF Init, Stopping
<1>4. QED
  BY <1>2, <1>3
  DEF Init, IInv, RunningHasProcess, StoppingIsRunning, BootingIsStopped,
      StoppingIsAwaited, ConnectorsNeedRuntime

(* Every step keeps the inductive invariant, one action after the other.   *)
LEMMA StepPreserves == IInv /\ [Next]_vars => IInv'
<1> SUFFICES ASSUME IInv, [Next]_vars
             PROVE  IInv'
  OBVIOUS
<1>1. CASE Boot
  BY <1>1, BootPreserves
<1>2. CASE Shutdown
  BY <1>2, ShutdownPreserves
<1>3. CASE KillTimeout
  BY <1>3, RuntimePreserves DEF KillTimeout
<1>4. CASE NodeExits
  <2>1. db' \in Config /\ configFile' \in [Paths -> Config \cup {NoConfig}]
    BY <1>4 DEF NodeExits, IInv, TypeOK
  <2>2. QED
    BY <1>4, <2>1, NoProcessEvent DEF NodeExits
<1>5. ASSUME NEW q \in Requests, Event(q) \/ Finish(q)
      PROVE  IInv'
  BY <1>5, PostStartPreserves, PostStopPreserves, PostReloadPreserves,
     PutPolicyPreserves, EditPreserves DEF Event
<1>6. ASSUME NEW r \in Runs,
             ExitEvent(r) \/ RuntimeProgress(r) \/ RuntimeEnds(r) \/ RuntimeCrashes(r)
      PROVE  IInv'
  BY <1>6, ExitPreserves, RuntimePreserves
<1>7. CASE UNCHANGED vars
  <2>1. db' \in Config /\ configFile' \in [Paths -> Config \cup {NoConfig}]
    BY <1>7 DEF vars, IInv, TypeOK
  <2>2. QED
    BY <1>7, <2>1, NoProcessEvent DEF vars
<1>8. QED
  BY <1>1, <1>2, <1>3, <1>4, <1>5, <1>6, <1>7 DEF Next

(* The inductive invariant holds in every reachable state.                 *)
THEOREM Invariance == Spec => []IInv
BY InitEstablishes, StepPreserves, PTL DEF Spec

(* Every variable keeps its type.                                          *)
THEOREM TypeCorrect == Spec => []TypeOK
<1>1. IInv => TypeOK
  BY DEF IInv
<1>2. QED
  BY <1>1, Invariance, PTL

(***************************************************************************)
(* The API never loses track of a living runtime and never has two: what   *)
(* start(), stop(), a crash and a policy restart promise together.         *)
(***************************************************************************)
THEOREM NeverLosesTheRuntime == Spec => []RuntimeIsTracked
<1>1. IInv => RuntimeIsTracked
  BY LifecycleAssumption
  DEF IInv, RuntimeIsTracked, OnlyTheTrackedExists, RunningHasProcess, Live
<1>2. QED
  BY <1>1, Invariance, PTL

(***************************************************************************)
(* ProcessManager.stopping is up exactly while a request or the shutdown   *)
(* awaits the exit.                                                        *)
(***************************************************************************)
THEOREM NeverConfusesStopAndCrash == Spec => []StoppingIsAwaited
<1>1. IInv => StoppingIsAwaited
  BY DEF IInv
<1>2. QED
  BY <1>1, Invariance, PTL

(***************************************************************************)
(* Whatever fails, connectors never run without a runtime.                 *)
(***************************************************************************)
THEOREM NeverPollsForNobody == Spec => []ConnectorsNeedRuntime
<1>1. IInv => ConnectorsNeedRuntime
  BY DEF IInv
<1>2. QED
  BY <1>1, Invariance, PTL

-----------------------------------------------------------------------------
(***************************************************************************)
(* With a config file that can be written where the runtime reads it, more *)
(* holds: the file of a running runtime has the mode of the database, so a *)
(* process that reads it has it too.                                       *)
(***************************************************************************)
Writable == "write" \notin Faults /\ ConfigPath = DefaultPath

FileInForce == state = "running" => configFile[ConfigPath].mode = db.mode

RuntimeInForce ==
  Stopping = {} =>
    \A r \in Runs : HasRead(runtime[r]) => runtime[r].config.mode = db.mode

WInv == ConnectorsFollowRuntime /\ FileInForce /\ RuntimeInForce

(* A signal does not change what a process has read.                       *)
LEMMA SignalsKeepConfig ==
  ASSUME NEW rt \in [Runs -> Runtime], NEW r \in Runs
  PROVE  \A x \in Runs :
           /\ HasRead(SIGTERM(rt, r)[x]) =>
                HasRead(rt[x]) /\ SIGTERM(rt, r)[x].config = rt[x].config
           /\ HasRead(SIGUSR1(rt, r)[x]) =>
                HasRead(rt[x]) /\ SIGUSR1(rt, r)[x].config = rt[x].config
<1>1. rt[r] \in Runtime
  OBVIOUS
<1>2. CASE rt[r].phase \in {"created", "built"}
  BY <1>1, <1>2 DEF SIGTERM, SIGUSR1, Runtime, HasRead
<1>3. CASE rt[r].phase \in {"serving", "reloading"}
  BY <1>1, <1>3 DEF SIGTERM, SIGUSR1, Runtime, HasRead
<1>4. CASE rt[r].phase \notin {"created", "built", "serving", "reloading"}
  BY <1>4 DEF SIGTERM, SIGUSR1
<1>5. QED
  BY <1>2, <1>3, <1>4

(* A write leaves the file with the mode of the database.                  *)
LEMMA WriteInForce ==
  ASSUME Writable, IInv, writeToFile(DefaultPath) \/ writeToFile(ConfigPath)
  PROVE  configFile'[ConfigPath].mode = db'.mode
BY LifecycleAssumption DEF Writable, IInv, TypeOK, writeToFile

(* After a start() that found nothing running.                             *)
LEMMA StartInForce ==
  ASSUME NEW rt \in [Runs -> Runtime], \A x \in Runs : rt[x].phase = "none",
         ~connectors, startAndConnect(rt) \/ startFails(rt),
         state' = "running" => configFile'[ConfigPath].mode = db'.mode
  PROVE  WInv'
<1>1. CASE startAndConnect(rt)
  <2>1. process' \in Runs
    BY <1>1 DEF startAndConnect, Free
  <2>2. \A x \in Runs : ~HasRead(runtime'[x])
    BY <1>1, <2>1 DEF startAndConnect, Spawned, HasRead
  <2>3. QED
    BY <1>1, <2>2
    DEF startAndConnect, WInv, ConnectorsFollowRuntime, FileInForce, RuntimeInForce
<1>2. CASE startFails(rt)
  BY <1>2
  DEF startFails, WInv, ConnectorsFollowRuntime, FileInForce, RuntimeInForce, HasRead
<1>3. QED
  BY <1>1, <1>2

(* The events of the API.                                                  *)
LEMMA ApiKeepsForce ==
  ASSUME Writable, IInv, WInv,
         \/ Boot \/ Shutdown
         \/ \E q \in Requests : Event(q) \/ Finish(q)
         \/ \E r \in Runs : ExitEvent(r)
  PROVE  WInv'
<1>1. ~writeFails
  BY DEF Writable, writeFails
<1>2. ASSUME IsRunning, stop, connectors' = FALSE,
             \/ UNCHANGED <<db, configFile>>
             \/ /\ writeToFile(DefaultPath)
                /\ \E q \in Requests : request' = [request EXCEPT ![q] = "policy"],
             \/ request' = request
             \/ \E q \in Requests, w \in {"stop", "policy"} :
                  request' = [request EXCEPT ![q] = w]
      PROVE  WInv'
  <2>1. process \in Runs /\ runtime \in [Runs -> Runtime]
    BY <1>2 DEF IInv, TypeOK, IsRunning
  <2>2. \A x \in Runs : HasRead(runtime'[x]) =>
          HasRead(runtime[x]) /\ runtime'[x].config = runtime[x].config
    BY <1>2, <2>1, SignalsKeepConfig DEF stop
  <2>3. FileInForce'
    BY <1>2, WriteInForce DEF WInv, FileInForce, IsRunning
  <2>4. Stopping' = {} => Stopping = {} /\ db' = db
    BY <1>2 DEF Stopping, IInv, TypeOK
  <2>5. RuntimeInForce'
    BY <2>2, <2>4 DEF WInv, RuntimeInForce
  <2>6. QED
    BY <1>2, <2>3, <2>5 DEF stop, WInv, ConnectorsFollowRuntime
<1>3. ASSUME IsRunning, reload, writeToFile(DefaultPath), UNCHANGED <<connectors, db>>,
             Stopping' = Stopping
      PROVE  WInv'
  <2>1. process \in Runs /\ runtime \in [Runs -> Runtime]
    BY <1>3 DEF IInv, TypeOK, IsRunning
  <2>2. \A x \in Runs : HasRead(runtime'[x]) =>
          HasRead(runtime[x]) /\ runtime'[x].config = runtime[x].config
    BY <1>3, <2>1, SignalsKeepConfig DEF reload
  <2>3. FileInForce'
    BY <1>3, WriteInForce DEF FileInForce
  <2>4. RuntimeInForce'
    BY <1>3, <2>2 DEF WInv, RuntimeInForce
  <2>5. QED
    BY <1>3, <2>3, <2>4 DEF reload, WInv, ConnectorsFollowRuntime
<1>4. ASSUME ~IsRunning, UNCHANGED pm, connectors' \in {FALSE, connectors}
      PROVE  WInv'
  <2>1. connectors' = FALSE
    BY <1>4, NothingExistsWhenStopped DEF IInv, TypeOK
  <2>2. QED
    BY <1>4, <2>1, NothingExistsWhenStopped
    DEF pm, WInv, ConnectorsFollowRuntime, FileInForce, RuntimeInForce, HasRead
<1>5. ASSUME ~IsRunning, startAndConnect(runtime) \/ startFails(runtime),
             writeToFile(DefaultPath) \/ writeToFile(ConfigPath)
      PROVE  WInv'
  BY <1>5, NothingExistsWhenStopped, StartInForce, WriteInForce
<1>6. CASE Boot
  <2>1. ~IsRunning
    BY <1>6 DEF Boot, IInv, BootingIsStopped, IsRunning
  <2>2. QED
    BY <1>1, <1>5, <1>6, <2>1 DEF Boot
<1>7. CASE Shutdown
  BY <1>2, <1>4, <1>7 DEF Shutdown
<1>8. ASSUME NEW q \in Requests, PostStart(q)
      PROVE  WInv'
  <2>1. CASE IsRunning
    BY <1>1, <1>8, <2>1, WriteInForce
    DEF PostStart, pm, WInv, ConnectorsFollowRuntime, FileInForce, RuntimeInForce, Stopping
  <2>2. CASE ~IsRunning
    BY <1>1, <1>5, <1>8, <2>2 DEF PostStart
  <2>3. QED
    BY <2>1, <2>2
<1>9. ASSUME NEW q \in Requests, PostStop(q)
      PROVE  WInv'
  BY <1>2, <1>4, <1>9 DEF PostStop
<1>10. ASSUME NEW q \in Requests, PostReload(q)
       PROVE  WInv'
  <2>1. Stopping' = Stopping
    BY <1>10 DEF PostReload, Stopping
  <2>2. QED
    BY <1>1, <1>3, <1>4, <1>10, <2>1 DEF PostReload
<1>11. ASSUME NEW q \in Requests, PutPolicy(q)
       PROVE  WInv'
  <2>1. CASE IsRunning
    <3>1. /\ connectors' = FALSE /\ stop /\ writeToFile(DefaultPath)
          /\ request' = [request EXCEPT ![q] = "policy"]
      BY <1>1, <1>11, <2>1 DEF PutPolicy
    <3>2. QED
      BY <1>2, <2>1, <3>1
  <2>2. CASE ~IsRunning
    BY <1>4, <1>11, <2>2 DEF PutPolicy
  <2>3. QED
    BY <2>1, <2>2
<1>12. ASSUME NEW q \in Requests, PostEdit(q)
       PROVE  WInv'
  <2>1. Stopping' = Stopping
    BY <1>12 DEF PostEdit, Accepts, Stopping, IInv, TypeOK
  <2>2. db'.mode = db.mode
    BY <1>12 DEF PostEdit, IInv, TypeOK, Config
  <2>3. QED
    BY <1>12, <2>1, <2>2
    DEF PostEdit, pm, WInv, ConnectorsFollowRuntime, FileInForce, RuntimeInForce
<1>13. ASSUME NEW q \in Requests, Finish(q)
       PROVE  WInv'
  <2>1. Stopping' = Stopping
    BY <1>13 DEF Finish, Stopping, IInv, TypeOK
  <2>2. QED
    BY <1>1, <1>3, <1>4, <1>13, <2>1 DEF Finish
<1>14. ASSUME NEW r \in Runs, ExitEvent(r)
       PROVE  WInv'
  <2> DEFINE rt == [runtime EXCEPT ![r] = NoRuntime]
  <2>1. NoRun \notin Runs
    BY LifecycleAssumption
  <2>2. process = r /\ state = "running"
    BY <1>14, <2>1 DEF ExitEvent, IInv, OnlyTheTrackedExists, RunningHasProcess
  <2>3. NoRuntime \in Runtime /\ NoRuntime.phase = "none"
    BY DEF NoRuntime, NoConfig, Runtime
  <2>4. rt \in [Runs -> Runtime] /\ \A x \in Runs : rt[x].phase = "none"
    BY <2>2, <2>3 DEF IInv, TypeOK, OnlyTheTrackedExists
  <2>5. configFile'[ConfigPath].mode = db'.mode
    BY <1>14, <2>2 DEF ExitEvent, WInv, FileInForce
  <2>6. CASE Restarting # {}
    <3>1. ~connectors
      BY <2>6 DEF Restarting, Stopping, IInv, StoppingIsAwaited, ConnectorsNeedRuntime
    <3>2. startAndConnect(rt) \/ startFails(rt)
      BY <1>14, <2>6 DEF ExitEvent
    <3> HIDE DEF rt
    <3>3. QED
      BY <2>4, <2>5, <3>1, <3>2, StartInForce
  <2>7. CASE Restarting = {}
    <3>1. /\ state' \in {"stopped", "error"}
          /\ connectors' = (connectors /\ stopping)
          /\ runtime' = rt
      BY <1>14, <2>7 DEF ExitEvent
    <3>2. connectors' = FALSE
      BY <3>1 DEF IInv, ConnectorsNeedRuntime
    <3>3. QED
      BY <2>4, <3>1, <3>2
      DEF WInv, ConnectorsFollowRuntime, FileInForce, RuntimeInForce, HasRead
  <2>8. QED
    BY <2>6, <2>7
<1>15. QED
  BY <1>6, <1>7, <1>8, <1>9, <1>10, <1>11, <1>12, <1>13, <1>14 DEF Event

(* The runtime's own steps: what it reads is the file of a running runtime.*)
LEMMA RuntimeKeepsForce ==
  ASSUME IInv, WInv, NEW r \in Runs,
         \/ RuntimeProgress(r) \/ RuntimeEnds(r) \/ RuntimeCrashes(r)
         \/ KillTimeout /\ r = process
  PROVE  WInv'
<1>1. PICK s \in Runtime :
        /\ RuntimeStep(r, s)
        /\ runtime[r].phase # "none"
        /\ HasRead(s) =>
             \/ s.config.mode = configFile[ConfigPath].mode
             \/ HasRead(runtime[r]) /\ s.config.mode = runtime[r].config.mode
  BY RuntimeSteps
<1>2. configFile[ConfigPath].mode = db.mode
  BY <1>1, LifecycleAssumption
  DEF IInv, OnlyTheTrackedExists, RunningHasProcess, WInv, FileInForce
<1>3. \A x \in Runs : runtime'[x] = IF x = r THEN s ELSE runtime[x]
  BY <1>1 DEF RuntimeStep, IInv, TypeOK
<1>4. RuntimeInForce'
  BY <1>1, <1>2, <1>3 DEF WInv, RuntimeInForce, RuntimeStep, Stopping
<1>5. QED
  BY <1>1, <1>4 DEF WInv, ConnectorsFollowRuntime, FileInForce, RuntimeStep

(* Both invariants together, for a config file that can be written.        *)
LEMMA WritableInvariance ==
  ASSUME Writable
  PROVE  Spec => [](IInv /\ WInv)
<1>1. Init => IInv /\ WInv
  <2> SUFFICES ASSUME Init
               PROVE  IInv /\ WInv
    OBVIOUS
  <2>1. \A r \in Runs : ~HasRead(runtime[r])
    BY DEF Init, NoRuntime, HasRead
  <2>2. QED
    BY <2>1, InitEstablishes
    DEF Init, WInv, ConnectorsFollowRuntime, FileInForce, RuntimeInForce
<1>2. (IInv /\ WInv) /\ [Next]_vars => (IInv /\ WInv)'
  <2> SUFFICES ASSUME IInv, WInv, [Next]_vars
               PROVE  WInv'
    BY StepPreserves
  <2>1. CASE NodeExits \/ UNCHANGED vars
    BY <2>1
    DEF NodeExits, vars, pm, WInv, ConnectorsFollowRuntime, FileInForce,
        RuntimeInForce, Stopping
  <2>2. CASE KillTimeout
    BY <2>2, RuntimeKeepsForce DEF KillTimeout
  <2>3. ASSUME NEW r \in Runs, RuntimeProgress(r) \/ RuntimeEnds(r) \/ RuntimeCrashes(r)
        PROVE  WInv'
    BY <2>3, RuntimeKeepsForce
  <2>4. CASE \/ Boot \/ Shutdown
             \/ \E q \in Requests : Event(q) \/ Finish(q)
             \/ \E r \in Runs : ExitEvent(r)
    BY <2>4, ApiKeepsForce
  <2>5. QED
    BY <2>1, <2>2, <2>3, <2>4 DEF Next
<1>3. QED
  BY <1>1, <1>2, PTL DEF Spec

(***************************************************************************)
(* As long as the config can be written, and the runtime reads what the    *)
(* routes write, the connectors run exactly while the runtime does.        *)
(***************************************************************************)
THEOREM ConnectorsRestart ==
  ASSUME Writable
  PROVE  Spec => []ConnectorsFollowRuntime
<1>1. WInv => ConnectorsFollowRuntime
  BY DEF WInv
<1>2. QED
  BY <1>1, WritableInvariance, PTL

(***************************************************************************)
(* Under the same condition no runtime serves with an outdated security    *)
(* mode: PUT /policy restarts it, and the restart reads the new one.       *)
(***************************************************************************)
THEOREM ModeIsInForce ==
  ASSUME Writable
  PROVE  Spec => []ModeInForce
<1>1. WInv => ModeInForce
  BY DEF WInv, RuntimeInForce, ModeInForce, HasRead
<1>2. QED
  BY <1>1, WritableInvariance, PTL
=============================================================================

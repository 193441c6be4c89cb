# TLA+ models of the OPC UA light server

The system is a Control API (Node, TypeScript) that keeps connections, mappings, nodes and security settings in
SQLite, polls field devices through protocol connectors, and supervises an OPC UA runtime (C, open62541), a child
process. The two share a generated config file, three signals (SIGUSR1, SIGTERM, SIGKILL), the runtime's stdin and a
status file. These modules model the parts whose correctness depends on the order of events: callbacks of client
libraries against operator requests, requests against the exits of a process, edits against reloads, tables against
copies of them. Paths below are relative to the repository, `core/` is `src/connectors/core/`.

Contents: 1 inventory, 2 plan, 3 modules and code, 4 runs, 5 fairness, 6 findings, 7 proofs, 8 what is left out.

## 1. Inventory

| Component | State | Operations | Interacts with |
|---|---|---|---|
| BaseConnector (`core/base-connector.ts`) | `running`, `connections` (client, state, connecting, two timers, mappings), `currentValues` | start, stop, add/update/removeConnection, add/removeMapping, reconnect timer | client libraries (callbacks), registry, IPC bridge |
| S7, Modbus, EtherNet/IP, PCCC (`src/connectors/protocols/*`) | poll list of the client, `pollInProgress` | connect and read callbacks, polling timer | BaseConnector, libraries |
| Connector registry | connectors by protocol, last status | register, startAll, stopAll, status poll | routes, SSE |
| ProcessManager (`src/process-manager`) | `state`, `process`, `stopping`, restart time, client sessions | start, stop, reload, `exit` event, status timer | runtime (signals, stdin, status file), routes |
| Routes for the server and the security policy, auto-reload hook (`src/api`) | requests that wait | start, stop, reload, PUT /policy, an edit's `finish`, boot, shutdown | all of the above |
| Runtime process (`runtime/src/main.c`, `server.c`) | `g_running`, `g_reload_requested` | create, install handlers, iterate, reload, shut down | config file, signals |
| Connector routes and repository | tables `connections` and `mappings` | CRUD, bulk creation, CSV import | connectors, told after the row is stored |
| Node, object node and namespace repositories and routes | tables `namespaces`, `object_nodes`, `nodes` | CRUD, CSV import | cascades into mappings, auto-reload |
| Config generator (`src/config-generator`) | none; reads the database, overwrites a file | generate, writeToFile | database, runtime |
| Address space (`runtime/src/address_space`, `config`, `util`) | namespaces, objects and variables of the server | build, clear, reload | config file, clients |
| IPC bridge and IPC processor | map from node to OPC UA id; read buffer | handleValueUpdates; writeToStdin; ipc_process | connectors, stdin, address space |
| TOFU trust store (`tofu_verifier.c`, `src/tofu-manager`, `routes/pki.ts`) | directories `trusted` and `rejected` | verify and store, trust, reject, delete, list | two processes over the same files; a line on stdin |
| Security routes and configuration (`routes/security.ts`, `src/cert-generator`, `security_config.c`) | row of `security_config`, `server.key`, `server.der`, endpoints | upload, generate, PUT /policy, read the pair, make endpoints | database, config file, runtime |
| Status file and sessions | `status.json`, last list written and last list announced | write, read, compare, broadcast | ProcessManager, SSE |
| Database (`src/db/database.ts`, `schema.sql`) | schema version, tables, read cache, availability | create, migrate, cached reads, writes | all repositories |
| Plugin loader, parameter validation | the plugins registered at a start | scan two directories; check parameters | connectors, routes |
| CSV, log ring buffer | little or none | pure functions | routes |
| SSE hub | clients | add, broadcast, remove | web UI |
| Authentication, files, HTTPS, web UI | — | checks, input and output | — |

The behaviours that are hard here, and what makes the parts correct:

* *Callbacks that outlive their client.* A connector drops a client and makes another while the library still owes
  callbacks about the first. A stopped, removed or disabled connection must stay down; an up one must be up by its own
  handshake; a wanted one must be up, being tried or waiting, never forgotten; no client may leak; polls must go on.
* *Requests that await an exit.* stop() resolves on the child's `exit`, which is also how a crash shows. The API must
  never lose a living runtime, run two, or take a stop for a crash; connectors run only while the runtime does.
* *Signals and files between two processes.* A reload may be signalled before the handler exists, or during another
  reload; the config is overwritten in place and read twice per reload. Every edit must arrive in the end.
* *Copies.* The connectors' copies of rows, the bridge's map of ids and the runtime's namespace indices are made once
  and follow the database only if each handler takes care: stored mappings are polled, deleted ones are not, a node
  has one writer, a value shows at its own node.
* *Announcements of differences.* A dashboard gets a snapshot and then only what differs from the last announcement;
  the three "last" values (written, announced, polled) must be reset when what they describe ends.
* *Restarts.* What was stored must not keep the API from starting; a schema made by any release, or half made by a start
  that was cut short, must be brought to the present one without losing rows.
* *Several steps without a transaction.* A key and its certificate, the two stores of certificates, the statements of a
  deletion: another process, a failure or a crash comes between the steps, and what remains must still make sense.
* *A stream cut into pieces.* The runtime reads what the pipe has, into a buffer that may fill up: every line that fits
  must be applied, whole and in order, and each in the end.

`PROJECT.json` lists the hazards at their lines, with the properties that cover them.

## 2. Plan

Modules are written with CONSTANTS and named assumptions, one action per handler and no RECURSIVE operator, so that
what is model-checked can also be proved.

| Order | Module | Composes / implements | Status |
|---|---|---|---|
| 1 | BaseConnector, four protocol modules, Connectors | the four protocol modules extend BaseConnector, Connectors extends all of them; implements ConnectionLink | done, safety proved |
| 2 | RuntimeLifecycle | ProcessManager, routes and the runtime process | done, safety proved |
| 3 | ConnectorSync | routes, repository, schema, plugins, boot | done, proved |
| 4 | AddressSpace | edits, config file, runtime reload, IPC bridge | done, proved |
| 5 | LiveDashboard | status file, its reader, the registry's status poll, the SSE hub | done, safety proved |
| 6 | LineChannel, StdinChannel, TrustStore, RuntimeInputs | StdinChannel implements LineChannel; RuntimeInputs composes it with TrustStore: one thread of the runtime, one of the API | done, safety proved |
| 7 | Database, ServerSecurity | ServerSecurity extends Database: the row of the policy and the files behind it | done, proved |
| 8 | ObjectTree | the rows of namespaces, object nodes and nodes; what the UI, the config and the file of an export make of them | done, proved |

Abstract specifications: ConnectionLink (a wanted connection is always up, tried or waiting) and LineChannel (a line that
is not too long comes out, once and in order). Where the project could go on: a register of values that AddressSpace
implements while no namespace changes, and the values that the connectors send composed with AddressSpace.

## 3. Modules and code

**BaseConnector** is one managed connection. `managed` is the `BaseManagedConnection` object; `phase` says whether it is
in the map `connections`; `mappings` keeps the history of each mapping (new, mapped, removed), so that "removed" can be
told from "never there"; `currentValues` keeps only the quality of each cached value. `lib` is the client library, as
far as it owes something: the clients not closed, the handshakes that have not called back, which succeeded, the poll
list of the current client and the reads in flight. An action is one handler, since Node runs one at a time: an API call
(`addConnection`, `removeConnection`, `updateConnection`, `start`, `stop`), a timer (`reconnect`, `PollTick`) or a
callback. `updateConnectionThrows` is the update that a PUT of params without a host makes: the client is gone before
`extractParams` throws, and nothing makes another before the next update or start (`refused`; such a connection does not
count as wanted). The helpers `initiateConnection`, `disconnectAndCleanup` and `handleConnectionError` are operators on the
managed object, with the guards of the code; handlers that call several of them compose them in the code's order.
`addMapping` and `removeMapping` take from the protocol whether the address enters the library's poll list.

**S7Connector, ModbusConnector, EtherNetIpConnector, PcccConnector** (their operators begin with `S7_`, `Modbus_`, `Eip_`
and `Pccc_`) add what differs: where a guard on the client
stands in each connect callback (S7 handles an error before it, PCCC after it; the Modbus and EtherNet/IP `catch` handle
it without one), how a poll works (one call; one read after the other with Modbus; a snapshot with EtherNet/IP;
`pollInProgress` with EtherNet/IP and PCCC), and which errors count as lost connections.

**Connectors** extends the four, picks the protocol once, in its initial state, and takes that protocol's steps: connectors
share nothing but their class. **ConnectionLink** is the promise towards the operator, on two variables.

**RuntimeLifecycle** has `state`, `process` and `stopping` of ProcessManager, the request table `request` (what an open
request awaits), `node` (the API process), `connectors` (started or not), `db` (the mode and the content the database
holds, reduced to a value that an edit changes), `configFile` per path and the process table `runtime`. `stop()` does
not block the event loop: its caller stays in `request` until `ExitEvent`, which runs the exit listeners and everything
that was awaiting them, in the order of their registration. Before `InstallHandlers` a signal has its default action.

**ConnectorSync** has the tables as sets of rows, and `tracked` and `polled` for the copies that the connectors hold.
`plugins` are those that this process has registered: at each `Boot` any plugin of the two directories may be skipped
if it is one of `Flaky` (`loadPlugins`), and of two for one type the built-in one comes first. A plugin is its type, what its module exports, and
how its connector treats an address: strict (Modbus TCP and PCCC throw on a refused one) or not (S7 and EtherNet/IP accept
all). A connection whose type has no plugin is stored, with parameters nobody checks, and waits for one. What PUT does with
params depends on two tests: the route checks those that are truthy (`connectors.ts:145`), the repository stores all that
are given (`connector-repository.ts:194`). `Falsy` are the params between the two, `Checked` is the first test; the
connector throws on them (`updateConnection`) and keeps the row it had. `used` keeps uuids unique and `deleted` is
a history variable. Bulk creation and import handle two items, the least at which one affects the next. `schema` is
there because a new database is created at version 4, where `node_id` may not be NULL, and migrated at the second boot.

**AddressSpace** follows an edit from the database (`db`) to the file (`file`, which does not parse while it is being
written), the runtime's parse of it (`config`), and what the server holds (`table` of registered namespaces, `objects`,
`values`). The ids are records [ns, space, name]. The config numbers namespaces by name, the server by registration, and
`GeneratedId` and `ServedId` are these two. `handleValueUpdates` and `ipc_process` carry a value from a connector to the
server through `map`, the bridge's cache. `sent` stamps a value with the edits made when it was sent; `edits`, `mapped`
and `used` are history variables. A database is a finite set of namespaces and their nodes; one left by an earlier run is any
consistent one.

**LiveDashboard** follows the sessions of the runtime (`sessions`) to the file (`written` is `last_status_json`; `file` is
empty while it is being written, and survives a restart), to the status timer's `previous` list, and to the `view` of
each browser, which also has the manager's state and the connectors' status; `status` is what `getAggregatedStatus`
would return and `snapshot` what the registry last took note of. A view is changed by the event that writes to the
stream, since a stream delivers in order; a broken stream stays registered and loses what it is sent. The manager's
waiting requests are reduced to `awaited`: what follows the exit, a stop or a restart. RuntimeLifecycle has the rest.

**StdinChannel** is the pipe between `writeToStdin` and `ipc_process`. Bytes are positions in the stream: `ends` says where
the lines written end, `from` and `upto` what of the stream `stdin_buffer` holds. A call of `ipc_process` reads any number
of the bytes that are there, up to the room in the buffer less the byte for the NUL (`Space`), throws a full buffer
without a newline away (`Kept`), applies the lines that end within (`Completed`) and moves the rest to the front
(`Remaining`). The remainder of a line that has lost its beginning is no JSON object with a type and is ignored.
**LineChannel** is what this promises. **TrustStore** has the two directories as functions from certificates to what their
files hold, and two processes without a lock: `verifying` is the next look or change of `tofu_verify_certificate`,
`handling` that of a route under `/api/pki`; each look is a step. `seen` is a history variable, the answers that "is it
rejected?" had since the verification began; `cut` remembers writes that did not end. **RuntimeInputs** puts the two
together: the runtime reads its stdin only between verifications, the API writes to it only between requests, and a
request that has changed the stores ends with a line on the pipe (`signalReload`) if the API takes the runtime for running.

**Database** has the version, the tables as a set of features that the migrations need, must not find, add and drop, the
rows of the S7-only releases (`legacy`) and one table with its content, the row of `security_config`, with its entry in
the read cache. `schema.sql` commits statement by statement, so `CreateCut` leaves any prefix of it; the migrations of a
start are one transaction. `Trouble` makes queries throw, or work again. **ServerSecurity** adds what hangs on this row: the
files `server.key` and `server.der`, each missing, a part or the work of one generation, `generating` (the step of
generateCertificate that comes next), the security section of the config, and the runtime, which reads the two files one
after the other. `damaged`, `doubtful` and `unserved` are history variables that name the cases in which the properties promise less.

**ObjectTree** has the three tables as functions from keys to rows. An object node is known by its rowid, which matters:
SQLite's cascade goes through the children of a namespace row by row, and `CascadeFails` looks at the moment each is gone.
A name is a sequence of words between separators; the dot of the ids and the slash of the paths are such separators. The
three statements of `ObjectNodeRepository.delete` commit one by one: `DeleteObject` ends before the last if the second
fails, `DeleteObjectCut` is a crash between them. `buildTree`, `objectPath`, `exportPath` and `Reached` are the functions
of the code that read the rows for the UI, the config, the export and the import.

Operators named `Bug_...` are not part of a specification; each stands next to the definition it distorts, the way a
plausible mistake in that code would, and the run of its property finds it.

External code, modelled from its use: the client libraries (a closed client's outstanding callbacks either never come or
still come, the constant `AfterClose`), SQLite's constraints and cascades, and open62541 1.3 (deleting a node deletes
the children without another parent; a namespace, once registered, keeps its index; a client certificate is verified by one
callback that is not interrupted by the loop).

## 4. Runs

| Run | Expect | Question | Bounds |
|---|---|---|---|
| connectors_silent | pass | With libraries that forget closed clients: guarded protocols (EtherNet/IP, PCCC) serve no good value of a lost connection, every connection refines ConnectionLink | 4 protocols, 3 clients, 2 mappings, 2 polls in flight |
| connectors_late | pass | Whatever late callbacks come: stopped stays quiet, no client leaks, guarded polls neither overlap nor stop; a false `connected` does not last and only a reconnect timer during an attempt gives a connection up; only the callback of a replaced client dooms a working one; a removed mapping comes back to the cache only with a Modbus or EtherNet/IP read that was in flight | 4 protocols, 3 clients, 1 mapping, 2 polls in flight |
| lifecycle_faults | pass | Through four requests, a shutdown, crashes, failed spawns and writes: the runtime is tracked, a stop is not a crash | 4 requests, 2 processes, 2 modes, 2 contents |
| lifecycle_writable | pass | If the file can be written: connectors follow the runtime, the mode is in force, edits reach the runtime, everything is answered | 3 requests, 2 processes |
| connector_sync | pass | Any sequence of table operations and restarts: one mapping per node, connectors hold the connections that have a plugin, with their present parameters unless these are falsy, deleted is not polled, nothing is lost of a protocol that takes all addresses | 2 connections, 3 mappings, 1 node, 2 types, 4 plugins (all flaky), 4 parameters (2 good, 1 rejected, 1 falsy), 2 addresses |
| address_space | pass | When all is settled, every node is served, nothing else is in the namespaces, a fresh map names no other node | 2 uuids, 2 URIs, 2 namespace names, 2 paths, 2 edits, 2 starts, 1 update in the pipe |
| live_dashboard | pass | Through stops, crashes, restarts and torn reads: a wrong state will be corrected, a dashboard in step stays so, changes of the sessions and of the statuses arrive | 1 browser, 2 sessions, 2 statuses |
| runtime_inputs | pass | Lines and reload signals read in pieces of any size while certificates are verified and moved by two processes, with crashes anywhere: only overlong lines are lost, each other one arrives; a verdict was right at some moment; only DELETE makes the stores forget | `Capacity` 3, `Lengths` 2 and 4, `MaxLines` 3, `ReloadLength` 2, `Certs` 1 |
| server_security | pass | From the database of any release, with starts cut short, queries that fail, generations that stop half way and policy changes in between: nothing but a cut creation keeps a start from opening the database, tables are complete and old rows kept, the cache is never behind, the runtime holds one pair (or, after a write meanwhile or a damaged one, at worst a later key) and serves the stored policy | `MaxGenerations` 2 |
| object_tree | pass | Any sequence of requests on namespaces, object nodes and variables, with deletions that fail or are cut: the tree is complete and no deeper than allowed, a deletion moves up what it leaves, each row is served unless another has its id, an export imports | `Spaces` 2, `Words` 2, `MaxDepth` 2, `MaxObjects` 3, `MaxVariables` 2 |
| sync_boot | violation | section 6 | 2 connections, 1 mapping, 2 nodes, 2 plugins, none flaky |
| namespace_cascade | violation | section 6 | no variables |

Why the bounds are enough. *Connectors*: a hazard needs a dropped client with callbacks outstanding, the present client,
and one more to be opened between; a used-up client object is recycled, so runs of any length are explored; two reads in
flight give every overlap of a poll with a later one; two mappings tell one that is removed from one that stays.
*Lifecycle*: each of stop, policy and edit can wait at once, with one more request arriving meanwhile; two processes
show whether two ever live at once. *Sync*: two connections and one node let a mapping collide with another of the same
or of another connection, and a mapping without a node can take one that is free or not; the third mapping is the second item of a bulk after an earlier one; for one of two types there are plugins of both kinds, in two
directories, of which each boot finds some. *Address space*: a
renumbering needs two namespaces, a taken-over name two nodes; one edit may hit the write or the reload of another; the
edits of the runs start from every consistent database, so two of them are any two of a longer history.
*Dashboard*: browsers do not interact, so one stands for all; two sessions make lists of the same length that differ.
*Inputs*: a buffer of 3 bytes holds two bytes and the NUL, so a line of 2 fits exactly, one of 4 overflows twice, and three lines put an overlong one before,
between and after others; the reads return any number of bytes. One certificate is enough for the stores, whose steps
never look at two; the pipe is shared, so the verifier and the routes are run together with it. *Security*: two
generations make an old and a new pair, of which the runtime can hold one half each; the third is like the second.
*Object tree*: `MaxDepth` stands for `MAX_DEPTH` = 5, and 2 is the least at which an
object node can have a parent and be refused a child; the collision of a child with a sibling of its parent takes three object nodes, two ids that collide two
variables. Two namespaces are needed for a parent in another one. The counters of
AddressSpace end runs, which is why deadlock is not checked there; in RuntimeLifecycle it is not, because the API and
its runtime really end. Symmetry is used for identifiers that no definition orders or CHOOSEs among, so not for
the names of namespaces or for processes, and in no run with a temporal property, so not with the connectors, in
lifecycle_writable or in live_dashboard.

The bounds named in the modules: `Clients` and `ReadIds` (BaseConnector), `Requests` and `Runs` (RuntimeLifecycle),
`MaxEdits`, `MaxStarts` and `MaxPipe` (AddressSpace), `MaxLines` (StdinChannel: the lines written to one runtime, whose
successor begins anew; a write that finds the bound reached waits), `MaxGenerations` (ServerSecurity), `MaxObjects` and
`MaxVariables` (ObjectTree).

## 5. Fairness

*Connectors.* The timers of Node fire and a library calls back about what it owes (the code gives each a timeout or
the library has one): weak fairness of `reconnect`, `PollTick` and the callbacks. Strong fairness of a successful
handshake is a premise about the device, not about the code: without it "retried for ever" is all that can be said. No
operation of an operator is fair. `GuardedPollingGoesOn` is checked where every read is settled although its client was
dropped, and not where a library forgets it: there PCCC stops polling (section 6).
*RuntimeLifecycle.* Node delivers exit events, `finish` events and timers, and the runtime's loop keeps turning. It is
not assumed that a runtime told to end does so, or that requests come: `Answered` rests on the kill timer.
*LiveDashboard*. The status timer and the status poll fire, and the runtime's loop, which writes the status file, turns.
Nobody has to start a runtime or open a stream.
*RuntimeInputs.* `ipc_process` is a callback that the single-threaded loop of the runtime repeats every 500 ms. Verifications
that clients cause come between two calls, so the callback is not enabled all the time, but again and again: strong
fairness of a call that reads something, and weak fairness of the steps of a verification, which calls nothing that waits.
`LinesArrive` rests on both; neither requests nor clients are fair.
ConnectorSync, AddressSpace, ServerSecurity and ObjectTree state safety only and assume no fairness.

## 6. Findings

Each is a run in which the code does something else than a comment or a requirement says; `PROJECT.json` quotes both.

1. *sync_boot*: every plugin is loaded, the connection is tracked, and its connector refuses the address of a mapping that
   is posted; the route swallows that (`connectors.ts:288`), the row stays and ends the API at every later boot
   (`server.ts:95`).
2. *namespace_cascade*: a namespace whose object nodes are `a`, `b` and `a/b` cannot be deleted: the cascade makes `a/b` a
   root while `b` is still one, the index refuses it, and the request answers 500 every time
   (`namespace-repository.ts:218`).

More disagreements can be had by checking a property of the modules with other constants, in the config of the module's
run; they have no run of their own. The first four are as serious as the two above.

| Property | Constants | What happens |
|---|---|---|
| MappedIsRegistered | pccc, silent, 1 client, 1 mapping | a PCCC client is created without the addresses of the mappings the connection already has, so after a reconnect, an update, a restart or a boot it polls nothing (`pccc/index.ts:154`; `pccc-connector/requirements.md:91` asks for it) |
| UnwantedIsQuiet | any protocol but pccc, late, 2 clients, 1 mapping | the error callback of a client dropped by a removal or by disabling the connection schedules a reconnect, and the connection comes back to life (`s7/index.ts:197`) |
| NoOrphan | 1 request, no faults | a policy change that awaits the same exit as a shutdown starts a runtime that outlives the API (`server.ts:161-164`) |
| NoMisdelivery | 1 URI, 1 namespace, 1 start | nothing invalidates the bridge's map; values of a renamed or deleted node go to the node that took its name (`ipc-bridge.ts:42-43`; `multi-protocol` `requirements.md:152`) |
| OnlyMappedValues | any protocol | removing a connection leaves its values in `currentValues` (`base-connector.ts:125`) |
| KeepsReading | pccc, silent | a client dropped during a read leaves `pollInProgress` set; polling ends for good (`pccc/index.ts:192`) |
| ConnectedIsEstablished | any protocol, late | the callback of an old client passes the guard because there is a new one (`s7/index.ts:204`); OnlyTimersGiveUp says that a false `connected` is corrected |
| ConnectedIsLeftAlone | any protocol, late | the error callback of a client that was replaced leaves a reconnect timer behind, which tears the present connection down (`base-connector.ts:279`); OnlyStrangersDoom says that nothing else does |
| DownIsRetried | any protocol, late | a reconnect timer that fires during an attempt drops the client, and nobody retries (`base-connector.ts:285`); OnlyTimersGiveUp says that no other step gives a connection up |
| LostIsNotGood | s7 or modbus-tcp, silent | an overlapping poll that succeeds late marks values good after the loss (`s7/index.ts:239`, `modbus-tcp/index.ts:284`) |
| LostIsNotGood | ethernet-ip or pccc, late | a connection that is up and doomed by a late callback (see ConnectedIsLeftAlone) goes on reading until its reconnect timer fires |
| NeverError | no faults | a reload or an edit in the moments after a start ends the runtime: SIGUSR1 comes before its handler is installed (`main.c:104`) |
| AllSessionsArrive | any | a stream opens on a list (even that of an earlier run) which gives way to the one announced last before the timer fires: the dashboard keeps showing it (`events.ts:77`) |
| StopConfirmed | 2 requests | POST /stop is answered with success while PUT /policy restarts the runtime |
| ModeInForce | ConfigPath differs from DefaultPath | the routes write a file that the runtime does not read (`app.ts:98`) |
| ConnectorsFollowRuntime | fault "write" | a failed write in PUT /policy leaves the connectors stopped (`security.ts:251`) |

What the modules show besides, by what their properties have to admit or exclude, or by a path through their actions:

* A mapping that is removed while it is being read comes back to the cache, and stays there: Modbus stores each value
  as it comes (`modbus-tcp/index.ts:284-303`), EtherNet/IP those of the tags it took before the read
  (`ethernet-ip/index.ts:216-248`), and neither looks whether the mapping is still there. S7 and PCCC do look.
  OnlyReadsInFlightRevive says how far this goes.
* PUT of a connection with params null, `""`, 0 or false (and some other field, which a request must have) is not checked
  (`connectors.ts:145`) but stored (`connector-repository.ts:194`). The connector has dropped its client when it throws
  (`base-connector.ts:139-141`) and makes no other, it keeps its former parameters, and the request answers 200; the next boot fails on the row,
  and each one after it (`s7/index.ts:99-100`, `server.ts:85`). ConnectionsInStep admits exactly this difference.
* A write of the pair of files while a runtime reads it, or one that ended half way, gives a runtime an old certificate with
  the key of a later generation, or ends it (`security_config.c:129`, `cert-generator/index.ts:232`). PairInForce says that
  it is never a part of a file nor an older key, and nothing of this without such a write.
* Deleting an object node stops half way when one of its children has the name of a sibling: the variables have moved up,
  the object node stays, the request answers 500 (`object-node-repository.ts:145`; `opcua-light-server/requirements.md:68`
  promises to remove it). A name with a dot or a slash, or a variable named like its sibling folder, gives two rows one id;
  the runtime serves the first. What `buildTree` says "shouldn't happen", a parent of another namespace, can be posted.
* A crash while `schema.sql` runs leaves a version table without rows, or with some; later starts take that for version 0
  to 2, fail in a migration and end, every time (OpensUnlessCut says that nothing else does this).
* A connection posted while its type has no plugin is stored with parameters that nobody checks (`connectors.ts:72`). If
  they name no host, the API ends at the first boot that finds the plugin, and at each one after it (`server.ts:85`).
* An answer of the cache may be the empty list that a write leaves there: the API then reports mode "None" in an outage that
  follows a change of policy, not "the last known values" (`database.ts:10`). `getCertificatePath` shares the key of the
  cache with queries of all columns (`security-repository.ts:129`), whose readers then find no mode.
* POST /generate with `force` fails with EACCES for the user the image runs as: the key it has to overwrite has mode 0400
  (`cert-generator/index.ts:232`, `Dockerfile`; `cert-generation/requirements.md:72` says it "SHALL overwrite").
* When the certificate cannot be written the key is removed, although the row names both: the next start under a secure
  mode ends the runtime (`cert-generator/index.ts:246`).
* `writeToStdin` "returns true if the write was accepted" (`process-manager/index.ts:222`): on a full stream it returns false
  and the line is sent all the same.

The model of AddressSpace shows also, by what its properties have to exclude: a namespace that is deleted or renamed
keeps its variables in the runtime until a restart; after a namespace is added that sorts before another, the config's
ids and the server's differ until a restart, and values sent meanwhile are lost. ConnectorSync shows that a mapping
changed by PUT, or deleted with its node, is polled as it was until a restart, which is why its properties speak of ids
and of confirmed deletions.

## 7. Proofs

TLAPS checks the theorems for every value of the constants that satisfies the modules' assumptions: the null value is not
a member, a subset is one, a bound is a natural number, the read buffer has room for a byte and its NUL and no line is
empty, a plugin's schema rejects what its connector cannot be made of, and that includes what is falsy. `Protocols` may be any of the four.
Every safety property of a passing run but LostStaysBad is a theorem; `PROJECT.json` lists them. Each rests on an inductive invariant, which
has to say more than the properties do:

*Connectors* (`ConnectorsProofs`). One lemma per callback of each protocol. BaseInv is TypeOK, StoppedIsQuiet,
NoLeakedClient and AbsentIsFresh: the last because `start` would overwrite an open client of a connection that is about to
be added, and a callback before that would schedule a reconnect. PollsOneAtATime is inductive only in a stronger
form, that a read in flight implies `pollInProgress`, across clients. For PCCC, UnwantedIsQuiet follows: every callback
looks for a client first, and an unwanted connection has none (for S7 that is false, section 6). All of this holds whether
the callbacks of closed clients come or not: no theorem assumes anything of `AfterClose`. Three are action
properties. OnlyReadsInFlightRevive needs what each protocol's poll asks for (Modbus_AsksForMapped, Eip_AsksForMapped)
and what its answer may store. OnlyTimersGiveUp and OnlyStrangersDoom rest on LinkInv, which adds HeldIsOpen: the client
that is held is open, so that a new one differs from it. Every step is then one of a few cases (LinkCase: it opens a
client, drops the one there was, spares the connection or loses it, StepLink), and the two theorems look at these
cases only.

*RuntimeLifecycle* (`RuntimeLifecycleProofs`). IInv adds that a process that exists at all, even one that has exited
unseen, is the tracked one (OnlyTheTrackedExists), and how `state`, `process` and `stopping` go together. Without it an
exit event could be that of another process, and would resume the wrong waiters. ConnectorsFollowRuntime and ModeInForce
have the premise `Writable` (no write fault, and the runtime reads the file that the routes write) and a second
invariant relative to IInv: whoever may start a runtime next has written the mode of the database.

*ConnectorSync* (`ConnectorSyncProofs`). Handlers look at the tables and tell the connectors, so the invariant ties the
two: a mapping has its connection in the table, a polled one its connection in the connectors, a polled mapping and its
row have the same connection, and ids of deleted mappings are used and do not come back (Good, IdsAreUsed). `createMapping`
preserves Good for a fresh id (CreateIsGood), which bulk creation and import cite once per item. Tables and connectors agree
on ids and types, and on parameters but for falsy ones (ConnectionsInStep, by HeldFor), which is inductive as it stands:
a connector that has a connection refuses its row only if the row is falsy, because the route has checked any
other with the schema of the same plugin, and a row stored unchecked by then had to get through a boot (PutConnectionIInv). That one connector at most answers for a type (`OnePerType`) is a lemma on
`loadPlugins`, for any content of the two directories.

*AddressSpace* (`AddressSpaceProofs`). ServerInv follows an edit to where it is served, in the order in which it can get
stuck: the file is the database unless an edit still has its answer to come (FileIsCurrent); a file written after the
parse has raised the flag, so a reload under way without the flag has parsed the present file (ConfigIsFile); a runtime at
rest serves the file (FileIsServed), whatever indices its table gave to the URIs (TableInv). The order of the namespaces
by name is a numbering of a finite set: lemma Places shows that the position of a name, the number of names
before it, is a bijection, so the config's indices are distinct. FreshMapIsRight is then that ids are unique.

*LiveDashboard* (`LiveDashboardProofs`). The invariant adds RuntimeIsWatched: the manager is running and its timer set
while a runtime exists, so a crash always leaves a timer that announces it, and a stop, which ends the timer, makes its
own announcements; and the file is empty while it is written.

*StdinChannel, TrustStore, RuntimeInputs* (`RuntimeInputsProofs`). ShortLinesApplied, and that the pipe implements
LineChannel (`KeepsPromise`), for every buffer, every line and every way the stream is cut. ChannelInv needs that lines lie
one behind the other (EndsOrdered), that the buffer holds one unfinished line (NoLineWithin), and that it holds this line
from its beginning if the line fits (FittingIsWhole). The step where a full buffer is thrown away is the one that
matters: a full buffer without a newline holds no part of a line that fits (KeptIsLineStart), because `Space` leaves one
byte. These are shown of ChannelSpec and carried over to RuntimeInputs, each of whose steps of the pipe is one of its
steps. StoreInv, for the stores, says that the answers a verification has seen include the present one (SeenInTime),
that a part of a certificate is being written or was cut short (PartsOwned), and that what a request found is still where
it is to be moved from (FoundIsThere), although the verifier runs in between: it only ever writes what it has not found.

*ServerSecurity and Database* (`ServerSecurityProofs`). SecurityInv has a part for each thing that a restart depends on.
DatabaseInv: a version has its tables, except after a first start that was cut. UpInv: who is up has been through the
migrations. PairInv: at which step of a generation the two files belong together, and at every step, damaged or not, that the key, if
whole, is the last one generated and no certificate is later (NoneIsLater). ReadInv: what a runtime has read of the
pair half way is still the file, unless a generation came between, and then it is of an earlier one. PolicyInv: a policy on its way is in the row, then in
the config, then in the endpoints, with nobody to overtake it but the history variables' named cases.

*ObjectTree* (`ObjectTreeProofs`). RowsInv adds to the types that a parent's rowid is less than its child's: rowids grow
and deletions only move rows up. That makes the rows a tree without saying so, and it is what every walk up the parents
is defined by. `depth`, `objectPath` and `exportPath` are recursive functions over the rows. That they have values at all,
and satisfy their equations at each row, is lemma RecursiveFunction, proved from the least row at which two partial
solutions would differ (LeastNumber); no induction theorem is used. On this rest DepthIsBounded, TreeComplete (a row of
depth d is there after d levels), ServedUnlessNamesake (paths of words without separators are equal only word by word), and
ExportImports (the import, from the root along the path, arrives at the parent and at no other). DeletesMoveUp is an
action property: one lemma for each kind of deletion, the cut ones included.

Proved and in no run: the type invariants (of all modules but Database's and the channel's, which are parts of others),
DepthIsBounded, PcccUnwantedIsQuiet, ConnectorsNeedRuntime (NeverPollsForNobody), NoSessionsWhenStopped
and ShortLinesApplied (KeepsPromise implies it for what was read).

Model-checked only: LostStaysBad and IsALink, which are about libraries that forget closed clients and would need that as
a premise; and, because fairness and ENABLED are beyond the prover, GuardedPollingGoesOn, EditsReachRuntime, Answered, ChangesArrive and LinesArrive.

## 8. What is left out

* Values, decoding, addresses and names are abstract: properties speak of quality and identity.
* The connectors' emission of values to the runtime is not tied to the connection modules: what bad quality a stopped
  connection should send is left to a later composition with AddressSpace.
* LiveDashboard leaves out log entries, values and heartbeats; a start that fails is not announced by the code when a
  stop came before it, nor is the status the connectors have right after a start, and its properties exclude both.
* A failing kill, the `error` event of a running child, the Windows branches, a second shutdown signal and an API that
  starts beside an orphaned runtime (NoOrphan, section 6) are not modelled.
* A validation error, and a refusal that changes nothing, is a guard. Response codes are left out.
* AddressSpace has folders as parts of a path; two nodes whose dotted paths collide are not told apart from equal ones.
  Node types and initial values are left out, and a write to the config is atomic except that it may be read half way.
* StdinChannel leaves out the queue and the pipe listener of Windows, and base64. TrustStore leaves out certificates
  that the runtime cannot parse beyond their refusal, and takes a certificate for its thumbprint.
* ServerSecurity makes a request one action unless another process can come between its steps, and takes all requests
  but PUT /policy and POST /generate for indivisible. The checks of the fields of a request are guards. The other
  interleavings of a restart are in RuntimeLifecycle. `https-server.ts` and `getHttpsConfig` have no caller.
* Database has the content of one table; the copying of rows by the migrations is reduced to where the rows are.
* ObjectTree leaves out attributes of variables and the quoting of CSV; a name with a line break, which the import splits
  before it looks at quotes, is not modelled. The order of rows is that of their rowids.
* What a schema says of a parameter is reduced to whether it rejects it, and every schema is taken to ask for what its
  connector needs. A plugin that is found again with other demands, or whose connector throws elsewhere, is not modelled.
* CSV quoting is stateless; the log is a bounded list that one thread appends
  to; authentication is a stateless check; file routes and HTTPS set-up are input and output. The web UI renders what the
  API reports; its SSE client, a state machine of its own in each browser, is left out but for what a stream tells it.

## Running the checks

`tlc -config X.cfg M` for the module and config of a run, `tlapm M.tla` for a module whose name ends in Proofs.
`live_dashboard` takes a few minutes, the connector runs, `connector_sync`, `address_space`, `server_security` and `object_tree` a minute or
so each, the others less.

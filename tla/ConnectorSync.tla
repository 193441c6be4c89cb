---------------------------- MODULE ConnectorSync ----------------------------
(***************************************************************************)
(* The routes under /api/connectors and what they keep in step: the tables *)
(* of connections and mappings, and the copies of their rows that the      *)
(* protocol connectors hold in memory and poll.  Each handler changes the  *)
(* database first and tells the connector afterwards, ignoring what it     *)
(* throws; the connectors learn of everything else only at the next boot.  *)
(*                                                                         *)
(* Which protocols there are is found out at each boot: the plugins of two *)
(* directories are loaded, and one that does not load is skipped.  Rows of *)
(* a type without a plugin are stored unchecked and wait for one.          *)
(*                                                                         *)
(* A table is a set of rows.  A handler runs without interruption, so each *)
(* is one action; the process may end between any two of them.             *)
(***************************************************************************)
EXTENDS Naturals, Sequences

CONSTANTS
  Conns,      \* ids of connections
  Maps,       \* ids of mappings
  Nodes,      \* ids of OPC UA nodes
  NoNode,     \* node_id IS NULL
  Types,      \* protocol types
  BuiltIn,    \* the plugins of the server
  External,   \* those of the directory CONNECTOR_PLUGINS_DIR
  Flaky,      \* the plugins that a boot may fail to load
  Params,     \* what PUT can change of a connection
  Rejected,   \* those that the schema of a protocol rejects
  NoHost,     \* those that no connector can be made of
  Falsy,      \* null, "", 0 and false, which the routes take for no params
  Addresses,  \* device addresses
  Refused     \* those that the strict protocols reject

(***************************************************************************)
(* What a module exports, the default export first: something that cannot  *)
(* be instantiated or has no getType, a class without getMetadata, a class *)
(* with both.                                                              *)
(***************************************************************************)
Export == {"other", "undescribed", "connector"}

(* Modbus TCP and PCCC are strict about the addresses of mappings, S7 and  *)
(* EtherNet/IP take them all.                                              *)
Plugin == [type : Types, strict : BOOLEAN, exports : Seq(Export)]

ASSUME SyncAssumption ==
  /\ NoNode \notin Nodes
  /\ BuiltIn \cup External \subseteq Plugin
  /\ Falsy \subseteq NoHost /\ NoHost \subseteq Rejected /\ Rejected \subseteq Params
  /\ Refused \subseteq Addresses
  /\ Conns \cap Maps = {}

VARIABLES
  node,         \* the API process
  schema,       \* version of the database; 0 before there is one
  nodes,        \* table nodes
  connections,  \* table connections
  mappings,     \* table mappings
  plugins,      \* the plugins registered
  tracked,      \* the connections in the connectors
  polled,       \* the mappings in the connectors
  used,         \* ids given out (uuids are never reused)
  deleted       \* mappings whose deletion a request confirmed

tables == <<schema, nodes, connections, mappings>>
memory == <<plugins, tracked, polled>>
history == <<used, deleted>>

vars == <<node, tables, memory, history>>

Connection == [id : Conns, type : Types, params : Params]
Mapping == [id : Maps, conn : Conns, node : Nodes \cup {NoNode}, address : Addresses]

(* A table whose rows are identified by their ids. *)
IsKeyed(T) == \A r, s \in T : r.id = s.id => r = s

(* One plugin for a type. *)
OnePerType(ps) == \A p, q \in ps : p.type = q.type => p = q

TypeOK ==
  /\ node \in {"down", "up", "failed"}
  /\ schema \in {0, 4, 5}
  /\ nodes \subseteq Nodes
  /\ connections \subseteq Connection /\ IsKeyed(connections)
  /\ mappings \subseteq Mapping /\ IsKeyed(mappings)
  /\ plugins \subseteq Plugin /\ OnePerType(plugins)
  /\ tracked \subseteq Connection /\ IsKeyed(tracked)
  /\ polled \subseteq Mapping /\ IsKeyed(polled)
  /\ used \subseteq Conns \cup Maps
  /\ deleted \subseteq used

Init ==
  /\ node = "down"
  /\ schema = 0
  /\ nodes = Nodes
  /\ connections = {} /\ mappings = {}
  /\ plugins = {} /\ tracked = {} /\ polled = {}
  /\ used = {} /\ deleted = {}

-----------------------------------------------------------------------------
(***************************************************************************)
(* The plugins.                                                            *)
(***************************************************************************)

(* The first export with a getType decides. *)
validateConnectorModule(p) ==
  \E i \in 1..Len(p.exports) :
    /\ p.exports[i] = "connector"
    /\ \A j \in 1..(i - 1) : p.exports[j] = "other"

(* What may be registered after the plugins ps and those of a directory:   *)
(* of each further type the first one that loads.  One that is flaky may   *)
(* lack its entry point or its directory, fail to import or to be          *)
(* instantiated, and is skipped.                                           *)
scanDirectory(dir, ps) ==
  LET usable == {p \in dir : validateConnectorModule(p) /\ \A q \in ps : q.type # p.type}
      Loads(new) == \A p \in usable \ Flaky : \E q \in new : q.type = p.type IN
  {ps \cup new : new \in {n \in SUBSET usable : OnePerType(n) /\ Loads(n)}}

loadPlugins == UNION {scanDirectory(External, ps) : ps \in scanDirectory(BuiltIn, {})}

(***************************************************************************)
(* The connectors, as far as the routes use them.                          *)
(***************************************************************************)

(* registry.getConnector finds a connector for the connection's type. *)
Registered(c) == \E p \in plugins : p.type = c.type

(* Parameters are checked against the schema of the type, if it has one.   *)
validateParams(c) == Registered(c) => c.params \notin Rejected

(* addConnection and updateConnection throw: no connector without a host.  *)
extractParams(c) == c.params \notin NoHost

(* addMapping throws: the connector of c does not take the address of m. *)
Refuses(c, m) == m.address \in Refused /\ \E p \in plugins : p.type = c.type /\ p.strict

(* addMapping of the connector that tracks m's connection, if there is one. *)
addMapping(m, ps) ==
  IF \E c \in tracked : c.id = m.conn /\ ~Refuses(c, m) THEN ps \cup {m} ELSE ps

(* The row with this id replaces the one there was. *)
Put(T, r) == {s \in T : s.id # r.id} \cup {r}

(* addConnection, or updateConnection, which adds what it does not find:   *)
(* the connections in the connectors when it has returned or thrown.  When *)
(* it throws, the connector keeps the row it had.                          *)
updateConnection(c) ==
  IF Registered(c) /\ extractParams(c) THEN Put(tracked, c) ELSE tracked

Without(T, i) == {r \in T : r.id # i}
WithoutConn(T, i) == {r \in T : r.conn # i}

-----------------------------------------------------------------------------
(***************************************************************************)
(* ConnectorRepository.createMapping on the rows ms, with the connector    *)
(* notified about a row that was stored; st is [rows, polled].             *)
(***************************************************************************)
nodeExists(n) == n \in nodes

findMappingByNodeId(n, ms) == {r \in ms : r.node = n}

findMappingByConnectionAndAddress(c, a, ms) == {r \in ms : r.conn = c /\ r.address = a}

Valid(m, ms) ==
  /\ \E c \in connections : c.id = m.conn
  /\ m.node # NoNode => nodeExists(m.node) /\ findMappingByNodeId(m.node, ms) = {}
  /\ findMappingByConnectionAndAddress(m.conn, m.address, ms) = {}

(* A new database has node_id NOT NULL until migration 5. *)
Throws(m, ms) == Valid(m, ms) /\ m.node = NoNode /\ schema = 4

createMapping(m, st) ==
  IF Valid(m, st.rows) /\ ~Throws(m, st.rows)
  THEN [rows |-> st.rows \cup {m}, polled |-> addMapping(m, st.polled)]
  ELSE st

Stored == [rows |-> mappings, polled |-> polled]

(* The handler leaves st behind. *)
Store(st) ==
  /\ mappings' = st.rows
  /\ polled' = st.polled
  /\ used' = used \cup {m.id : m \in st.rows}
  /\ UNCHANGED <<node, schema, nodes, connections, plugins, tracked, deleted>>

Fresh == {m \in Mapping : m.id \notin used}

PostMapping ==
  /\ node = "up"
  /\ \E m \in Fresh : Store(createMapping(m, Stored))

(* Two items: what the first one changes is seen by the second; an item    *)
(* that throws ends the request with what was done before it.              *)
PostMappings ==
  /\ node = "up"
  /\ \E m1, m2 \in Fresh :
       /\ m1.id # m2.id
       /\ ~Throws(m1, mappings)
       /\ Store(createMapping(m2, createMapping(m1, Stored)))

(* Import takes only rows that name a node it finds. *)
ImportCsv ==
  /\ node = "up"
  /\ \E m1, m2 \in {m \in Fresh : m.node \in nodes} :
       /\ m1.id # m2.id
       /\ Store(createMapping(m2, createMapping(m1, Stored)))

Bug_PutTakesMappedNode ==
  /\ node = "up"
  /\ \E r \in mappings, n \in nodes :
       mappings' = Put(mappings, [r EXCEPT !.node = n])
  /\ UNCHANGED <<node, schema, nodes, connections, memory, history>>

(* updateMapping of the repository; the connector is not told. *)
PutMapping ==
  /\ node = "up"
  /\ \E r \in mappings, n \in Nodes \cup {NoNode}, a \in Addresses :
       /\ n \notin {NoNode, r.node} =>
            nodeExists(n) /\ findMappingByNodeId(n, mappings) = {}
       /\ n = NoNode /\ r.node # NoNode => schema = 5
       /\ a # r.address => findMappingByConnectionAndAddress(r.conn, a, mappings) = {}
       /\ mappings' = Put(mappings, [r EXCEPT !.node = n, !.address = a])
  /\ UNCHANGED <<node, schema, nodes, connections, memory, history>>

Bug_DeleteWithoutConnector ==
  /\ node = "up"
  /\ \E r \in mappings :
       /\ mappings' = Without(mappings, r.id)
       /\ deleted' = deleted \cup {r.id}
  /\ UNCHANGED <<node, schema, nodes, connections, memory, used>>

(* The connection is looked up again after the deletion. *)
DeleteMapping ==
  /\ node = "up"
  /\ \E r \in mappings :
       /\ mappings' = Without(mappings, r.id)
       /\ polled' = IF \E c \in connections : c.id = r.conn /\ Registered(c)
                    THEN Without(polled, r.id) ELSE polled
       /\ deleted' = deleted \cup {r.id}
  /\ UNCHANGED <<node, schema, nodes, connections, plugins, tracked, used>>

-----------------------------------------------------------------------------
PostConnection ==
  /\ node = "up"
  /\ \E c \in Connection :
       /\ c.params \notin Falsy
       /\ validateParams(c)
       /\ c.id \notin used
       /\ connections' = connections \cup {c}
       /\ tracked' = updateConnection(c)
       /\ used' = used \cup {c.id}
  /\ UNCHANGED <<node, schema, nodes, mappings, plugins, polled, deleted>>

(* The PUT of a connection checks params that are given and truthy; the    *)
(* repository stores all that are given, so null (beside some other field, *)
(* which a request must have) gets into the table unchecked.               *)
Checked(c, p) == p \notin Falsy \cup {c.params}

Bug_PutConnectionReadsFirst ==
  /\ node = "up"
  /\ \E c \in connections, p \in Params :
       LET d == [c EXCEPT !.params = p] IN
       /\ Checked(c, p) => validateParams(d)
       /\ connections' = Put(connections, d)
       /\ tracked' = updateConnection(c)
  /\ UNCHANGED <<node, schema, nodes, mappings, plugins, polled, history>>

Bug_PutConnectionAddsAnew ==
  /\ node = "up"
  /\ \E c \in connections, p \in Params :
       LET d == [c EXCEPT !.params = p] IN
       /\ Checked(c, p) => validateParams(d)
       /\ connections' = Put(connections, d)
       /\ tracked' = updateConnection(d)
       /\ polled' = WithoutConn(polled, c.id)
  /\ UNCHANGED <<node, schema, nodes, mappings, plugins, history>>

(* The connector reconnects with the stored row and keeps its mappings,    *)
(* unless it refuses the row, which nobody is told.                        *)
PutConnection ==
  /\ node = "up"
  /\ \E c \in connections, p \in Params :
       LET d == [c EXCEPT !.params = p] IN
       /\ Checked(c, p) => validateParams(d)
       /\ connections' = Put(connections, d)
       /\ tracked' = updateConnection(d)
  /\ UNCHANGED <<node, schema, nodes, mappings, plugins, polled, history>>

(* The mappings go with the connection, in the table and in memory. *)
DeleteConnection ==
  /\ node = "up"
  /\ \E c \in connections :
       /\ connections' = Without(connections, c.id)
       /\ mappings' = WithoutConn(mappings, c.id)
       /\ deleted' = deleted \cup {m.id : m \in {r \in mappings : r.conn = c.id}}
       /\ IF Registered(c)
          THEN tracked' = Without(tracked, c.id) /\ polled' = WithoutConn(polled, c.id)
          ELSE UNCHANGED <<tracked, polled>>
  /\ UNCHANGED <<node, schema, nodes, plugins, used>>

(* DELETE of a node, or of a namespace with its nodes: their mappings go   *)
(* with them by a cascade that no connector hears of.                      *)
DeleteNodes ==
  /\ node = "up"
  /\ \E gone \in (SUBSET nodes) \ {{}} :
       /\ nodes' = nodes \ gone
       /\ mappings' = {r \in mappings : r.node \notin gone}
  /\ UNCHANGED <<node, schema, connections, memory, history>>

-----------------------------------------------------------------------------
(* The process ends, in whatever way. *)
Exit ==
  /\ node \in {"up", "failed"}
  /\ node' = "down"
  /\ plugins' = {} /\ tracked' = {} /\ polled' = {}
  /\ UNCHANGED <<tables, history>>

Migrated == IF schema = 0 THEN 4 ELSE 5

Loaded == {c \in connections : Registered(c)}

(* main() up to createApp: the schema, the plugins, the connections, the   *)
(* mappings.  A connection without a host or a mapping that its connector  *)
(* refuses ends the process.                                               *)
Boot ==
  /\ node = "down"
  /\ UNCHANGED <<nodes, connections, mappings, history>>
  /\ schema' = Migrated
  /\ plugins' \in loadPlugins
  /\ IF \E c \in Loaded' :
          ~extractParams(c) \/ \E m \in mappings : c.id = m.conn /\ Refuses(c, m)'
     THEN node' = "failed" /\ UNCHANGED <<tracked, polled>>
     ELSE /\ node' = "up"
          /\ tracked' = Loaded'
          /\ polled' = {m \in mappings : \E c \in Loaded' : c.id = m.conn}

Next ==
  \/ PostMapping \/ PostMappings \/ ImportCsv \/ PutMapping \/ DeleteMapping
  \/ PostConnection \/ PutConnection \/ DeleteConnection
  \/ DeleteNodes
  \/ Exit \/ Boot

Spec == Init /\ [][Next]_vars

-----------------------------------------------------------------------------
(***************************************************************************)
(* Migration 5 dropped UNIQUE(node_id), so that only the checks of the     *)
(* repository, over several requests, keep a node to one mapping.          *)
(***************************************************************************)
OneMappingPerNode ==
  \A r, s \in mappings : r.node = s.node /\ r.node # NoNode => r = s

(* c is what a connector makes of the stored row d: the row itself, or, if *)
(* a PUT stored params that are no object, an earlier row of d's.          *)
HeldFor(c, d) == c.id = d.id /\ c.type = d.type /\ (c = d \/ d.params \in Falsy)

(***************************************************************************)
(* While the API runs, the connectors hold the connections of the database *)
(* and no other, whatever was created, changed, deleted or loaded at boot, *)
(* each with parameters that name a host, which are the present ones       *)
(* except where the table holds params without one.                        *)
(***************************************************************************)
ConnectionsInStep ==
  node = "up" =>
    /\ \A d \in Loaded : \E c \in tracked : HeldFor(c, d)
    /\ \A c \in tracked : \E d \in Loaded : HeldFor(c, d)
    /\ \A c \in tracked : extractParams(c)

(***************************************************************************)
(* A mapping whose deletion was confirmed, alone or with its connection,   *)
(* is not polled any more.  (One that went with its node still is.)        *)
(***************************************************************************)
DeletedIsNotPolled == \A m \in polled : m.id \notin deleted

TakesAll(c) == \E p \in plugins : p.type = c.type /\ ~p.strict

(***************************************************************************)
(* Every stored mapping of a protocol that takes all addresses is polled:  *)
(* no order of changes to mappings and connections loses one.              *)
(***************************************************************************)
LaxIsPolled ==
  node = "up" =>
    \A m \in mappings, c \in connections :
      c.id = m.conn /\ TakesAll(c) => \E p \in polled : p.id = m.id

(***************************************************************************)
(* Addresses a protocol does not take "are rejected at addMapping() time", *)
(* so nothing that was stored keeps the API from starting again.           *)
(***************************************************************************)
BootSucceeds == node # "failed"
=============================================================================

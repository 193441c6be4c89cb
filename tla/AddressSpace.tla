----------------------------- MODULE AddressSpace -----------------------------
(***************************************************************************)
(* From an edited node to the address space that OPC UA clients see, and   *)
(* the way of a device's value to it.  The routes edit the database; once  *)
(* the response has been sent, the config is written again and the runtime *)
(* signalled; the runtime clears and rebuilds its nodes.  The IPC bridge   *)
(* names each node by the id that the config gives it and remembers these  *)
(* names.                                                                  *)
(*                                                                         *)
(* Node runs one event at a time; the runtime is another process and reads *)
(* the file while it is being written.  An id is [ns, space, name]: the    *)
(* index of the namespace, its name, and the path below it, for            *)
(* "ns=2;s=Plant.Line1.Speed".  Folders are a part of the path.            *)
(***************************************************************************)
EXTENDS Naturals, Sequences, FiniteSets

CONSTANTS
  Ids,        \* uuids of nodes
  NoId,       \* a variable that shows its initial value
  Uris,       \* namespace URIs
  Spaces,     \* namespace names: numbers, for ORDER BY name
  Names,      \* paths of nodes below their namespace
  MaxEdits,   \* requests that edit the database (bound)
  MaxStarts,  \* starts of the runtime (bound)
  MaxPipe     \* updates on their way to the runtime (bound)

ASSUME AddressSpaceAssumption ==
  /\ NoId \notin Ids
  /\ Spaces \subseteq Nat
  /\ MaxEdits \in Nat /\ MaxStarts \in Nat /\ MaxPipe \in Nat

VARIABLES
  db,        \* the namespaces and nodes of the database
  used,      \* uuids given out
  edits,     \* edits so far
  unsent,    \* edits whose response has not been sent
  file,      \* the config file
  map,       \* IpcBridge.uuidToOpcUaId
  mapped,    \* edits when the map was built
  runtime,   \* the runtime process
  reload,    \* g_reload_requested
  config,    \* what the runtime has parsed for the reload under way
  table,     \* URIs registered with the server, from index 2 on
  objects,   \* the namespaces' root objects in the server
  values,    \* the variables in the server, and what they show
  pipe,      \* updates written to stdin and not yet read
  starts     \* starts so far

database == <<db, used, edits, unsent>>
bridge == <<map, mapped>>
server == <<table, objects, values>>
process == <<runtime, reload, config, server, pipe>>

vars == <<database, file, bridge, process, starts>>

Space == [uri : Uris, name : Spaces]
Node == [id : Ids, uri : Uris, name : Names]
Config == [spaces : {ss \in SUBSET Space : IsFiniteSet(ss)}, nodes : SUBSET Node]

Empty == [spaces |-> {}, nodes |-> {}]
Torn == [torn |-> TRUE]  \* a file that is being written does not parse

(* The UNIQUE and REFERENCES clauses of the schema. *)
IsConsistent(c) ==
  /\ \A s, t \in c.spaces : s # t => s.uri # t.uri /\ s.name # t.name
  /\ \A m, n \in c.nodes : m # n => m.id # n.id /\ <<m.uri, m.name>> # <<n.uri, n.name>>
  /\ \A n \in c.nodes : \E s \in c.spaces : s.uri = n.uri

Id == [ns : Nat, space : Spaces, name : Names]
Shown == [node : Ids \cup {NoId}, sent : Nat]
Initial == [node |-> NoId, sent |-> 0]

TypeOK ==
  /\ db \in Config /\ IsConsistent(db)
  /\ used \subseteq Ids
  /\ edits \in 0..MaxEdits /\ unsent \in 0..edits
  /\ file = Torn \/ file \in Config
  /\ DOMAIN map \subseteq Ids /\ \A u \in DOMAIN map : map[u] \in Id
  /\ mapped \in 0..edits
  /\ runtime \in {"off", "created", "up", "reloading"}
  /\ reload \in BOOLEAN
  /\ config \in Config
  /\ table \in Seq(Uris)
  /\ objects \subseteq [ns : Nat, space : Spaces]
  /\ \A v \in DOMAIN values : v \in Id /\ values[v] \in Shown
  /\ pipe \in Seq([node : Ids, id : Id, sent : Nat]) /\ Len(pipe) <= MaxPipe
  /\ starts \in 0..MaxStarts

NoMap == [u \in {} |-> Initial]

(* The database is left by an earlier run. *)
Init ==
  /\ db \in Config /\ IsConsistent(db)
  /\ used = {n.id : n \in db.nodes}
  /\ edits = 0 /\ unsent = 0
  /\ file = Empty
  /\ map = NoMap /\ mapped = 0
  /\ runtime = "off" /\ reload = FALSE /\ config = Empty
  /\ table = <<>> /\ objects = {} /\ values = NoMap
  /\ pipe = <<>>
  /\ starts = 0

-----------------------------------------------------------------------------
(***************************************************************************)
(* The config: namespaces ORDER BY name, numbered from 2.                  *)
(***************************************************************************)
Before(s, c) == {t \in c.spaces : t.name < s.name}

SpaceOf(n, c) == CHOOSE s \in c.spaces : s.uri = n.uri

GeneratedId(n, c) ==
  LET s == SpaceOf(n, c)
  IN  [ns |-> 2 + Cardinality(Before(s, c)), space |-> s.name, name |-> n.name]

NodeWith(u) == CHOOSE n \in db.nodes : n.id = u

Bug_MapByNodeName ==
  [u \in {n.id : n \in db.nodes} |->
     GeneratedId(CHOOSE n \in db.nodes : n.name = NodeWith(u).name, db)]

buildNodeIdMap ==
  [u \in {n.id : n \in db.nodes} |-> GeneratedId(NodeWith(u), db)]

-----------------------------------------------------------------------------
(***************************************************************************)
(* open62541, as the runtime uses it: namespaces are registered once and   *)
(* never go; deleting a node deletes the children that have no other       *)
(* parent.                                                                 *)
(***************************************************************************)
Registered == {table[i] : i \in DOMAIN table}

Index(uri, t) == 1 + CHOOSE i \in DOMAIN t : t[i] = uri

ServedId(n, c, t) ==
  [ns |-> Index(n.uri, t), space |-> SpaceOf(n, c).name, name |-> n.name]

addNamespaces(c) ==
  LET new == {s \in c.spaces : s.uri \notin Registered}
      place(s) == 1 + Cardinality({t \in new : t.name < s.name})
  IN  table \o [i \in 1..Cardinality(new) |-> (CHOOSE s \in new : place(s) = i).uri]

RootsOf(c, t) == {[ns |-> Index(s.uri, t), space |-> s.name] : s \in c.spaces}

(***************************************************************************)
(* address_space_clear: of the namespaces that c names and the server      *)
(* knows, the variables by their generated ids and the root objects by     *)
(* their registered ones.                                                  *)
(***************************************************************************)
clearedRoots(c) ==
  RootsOf([c EXCEPT !.spaces = {s \in @ : s.uri \in Registered}], table)

clearedVariables(c) ==
  {GeneratedId(n, c) : n \in {m \in c.nodes : m.uri \in Registered}}
  \cup {v \in DOMAIN values : [ns |-> v.ns, space |-> v.space] \in clearedRoots(c)}

(* address_space_build on what is left; what already exists stays. *)
build(c, os, vs) ==
  /\ table' = addNamespaces(c)
  /\ objects' = os \cup RootsOf(c, table')
  /\ values' = [v \in vs \cup {ServedId(n, c, table') : n \in c.nodes} |->
                  IF v \in vs THEN values[v] ELSE Initial]

-----------------------------------------------------------------------------
(***************************************************************************)
(* The routes.  An edit changes the database and answers with a status of  *)
(* 2xx; one that is refused changes nothing.                               *)
(***************************************************************************)
Edit(c, us) ==
  /\ file # Torn
  /\ edits < MaxEdits
  /\ IsConsistent(c)
  /\ db' = c
  /\ used' = used \cup us
  /\ edits' = edits + 1
  /\ unsent' = unsent + 1
  /\ UNCHANGED <<file, bridge, process, starts>>

PostNamespace ==
  \E s \in Space \ db.spaces :
    Edit([db EXCEPT !.spaces = @ \cup {s}], {})

(* The nodes stay with their namespace when its URI changes. *)
PutNamespace ==
  \E s \in db.spaces, t \in Space :
    /\ \A r \in db.spaces \ {s} : r.uri # t.uri
    /\ Edit([spaces |-> (db.spaces \ {s}) \cup {t},
             nodes |-> {IF n.uri = s.uri THEN [n EXCEPT !.uri = t.uri] ELSE n : n \in db.nodes}], {})

(* ON DELETE CASCADE takes the nodes. *)
DeleteNamespace ==
  \E s \in db.spaces :
    Edit([spaces |-> db.spaces \ {s}, nodes |-> {n \in db.nodes : n.uri # s.uri}], {})

PostNode ==
  \E n \in Node :
    /\ n.id \notin used
    /\ Edit([db EXCEPT !.nodes = @ \cup {n}], {n.id})

(* A new name, another folder, or nothing new. *)
PutNode ==
  \E n \in db.nodes, p \in Names :
    /\ Edit([db EXCEPT !.nodes = (@ \ {n}) \cup {[n EXCEPT !.name = p]}], {})

DeleteNode ==
  \E n \in db.nodes : Edit([db EXCEPT !.nodes = @ \ {n}], {})

-----------------------------------------------------------------------------
(* The 'finish' event of a response: writeToFile has opened the file. *)
BeginWrite ==
  /\ unsent > 0
  /\ file # Torn
  /\ unsent' = unsent - 1
  /\ file' = IF runtime = "off" THEN file ELSE Torn
  /\ UNCHANGED <<db, used, edits, bridge, process, starts>>

Ended ==
  /\ runtime' = "off" /\ reload' = FALSE /\ config' = Empty
  /\ table' = <<>> /\ objects' = {} /\ values' = NoMap
  /\ pipe' = <<>>

(* Before main() installs its handlers, SIGUSR1 ends the process. *)
Signal ==
  CASE runtime = "off" -> UNCHANGED process
    [] runtime = "created" -> Ended
    [] OTHER -> reload' = TRUE /\ UNCHANGED <<runtime, config, server, pipe>>

(* writeToFile is done and the same event calls ProcessManager.reload. *)
EndWrite ==
  /\ file = Torn
  /\ file' = db
  /\ Signal
  /\ UNCHANGED <<database, bridge, starts>>

(* Every start writes the config first. *)
Start ==
  /\ file # Torn
  /\ runtime = "off"
  /\ starts < MaxStarts
  /\ file' = db
  /\ runtime' = "created"
  /\ starts' = starts + 1
  /\ UNCHANGED <<database, bridge, reload, config, server, pipe>>

-----------------------------------------------------------------------------
(***************************************************************************)
(* The runtime.                                                            *)
(***************************************************************************)

(* server_create; without a config that parses the process ends. *)
CreateServer ==
  /\ runtime = "created"
  /\ IF file = Torn
     THEN Ended
     ELSE /\ build(file, {}, {})
          /\ runtime' = "up"
          /\ UNCHANGED <<reload, config, pipe>>
  /\ UNCHANGED <<database, file, bridge, starts>>

(* The flag is reset and the file parsed; if it does not, nothing is done. *)
BeginReload ==
  /\ runtime = "up" /\ reload
  /\ reload' = FALSE
  /\ IF file = Torn
     THEN UNCHANGED <<runtime, config>>
     ELSE runtime' = "reloading" /\ config' = file
  /\ UNCHANGED <<database, file, bridge, server, pipe, starts>>

Bug_ResetAfterReload ==
  /\ runtime = "reloading"
  /\ IF file = Torn
     THEN build(config, objects, DOMAIN values)
     ELSE build(config, objects \ clearedRoots(file), DOMAIN values \ clearedVariables(file))
  /\ runtime' = "up" /\ config' = Empty /\ reload' = FALSE
  /\ UNCHANGED <<database, file, bridge, pipe, starts>>

(* address_space_clear reads the file again, and gives up if it is torn;   *)
(* address_space_build takes what was parsed before.                       *)
FinishReload ==
  /\ runtime = "reloading"
  /\ IF file = Torn
     THEN build(config, objects, DOMAIN values)
     ELSE build(config, objects \ clearedRoots(file), DOMAIN values \ clearedVariables(file))
  /\ runtime' = "up" /\ config' = Empty
  /\ UNCHANGED <<database, file, bridge, reload, pipe, starts>>

(* A write to an id that the server does not have fails. *)
ipc_process ==
  /\ runtime = "up"
  /\ pipe # <<>>
  /\ LET u == Head(pipe) IN
     values' = [v \in DOMAIN values |->
                  IF v = u.id THEN [node |-> u.node, sent |-> u.sent] ELSE values[v]]
  /\ pipe' = Tail(pipe)
  /\ UNCHANGED <<database, file, bridge, runtime, reload, config, table, objects, starts>>

(* It is stopped, or crashes. *)
Exit ==
  /\ runtime # "off"
  /\ Ended
  /\ UNCHANGED <<database, file, bridge, starts>>

-----------------------------------------------------------------------------
(***************************************************************************)
(* IpcBridge.handleValueUpdates with a value for the node u.  The          *)
(* connectors may still poll nodes that have been deleted.  The map is     *)
(* built when there is none or it lacks u.                                 *)
(***************************************************************************)
handleValueUpdates(u) ==
  /\ file # Torn
  /\ runtime # "off"
  /\ Len(pipe) < MaxPipe
  /\ IF u \in DOMAIN map
     THEN UNCHANGED bridge
     ELSE map' = buildNodeIdMap /\ mapped' = edits
  /\ pipe' = IF u \in DOMAIN map'
             THEN Append(pipe, [node |-> u, id |-> map'[u], sent |-> edits])
             ELSE pipe
  /\ UNCHANGED <<database, file, runtime, reload, config, server, starts>>

Next ==
  \/ PostNamespace \/ PutNamespace \/ DeleteNamespace
  \/ PostNode \/ PutNode \/ DeleteNode
  \/ BeginWrite \/ EndWrite
  \/ Start \/ CreateServer \/ BeginReload \/ FinishReload \/ ipc_process \/ Exit
  \/ \E u \in used : handleValueUpdates(u)

Spec == Init /\ [][Next]_vars

-----------------------------------------------------------------------------
(* Nothing that was changed is still on its way to the runtime. *)
Settled == runtime = "up" /\ ~reload /\ unsent = 0 /\ file # Torn

(***************************************************************************)
(* However edits, writes, torn reads and reloads interleave, when nothing  *)
(* is left to do the server has every node of the database and, in the     *)
(* namespaces that the database names, no variables but these. (A          *)
(* namespace it does not name any more keeps all it had.)                  *)
(***************************************************************************)
ServedAsStored ==
  Settled =>
    /\ \A n \in db.nodes :
         n.uri \in Registered /\ ServedId(n, db, table) \in DOMAIN values
    /\ \A v \in DOMAIN values :
         [ns |-> v.ns, space |-> v.space] \in RootsOf(db, table)
           => \E n \in db.nodes : v = ServedId(n, db, table)

(***************************************************************************)
(* A map built since the last edit never names another node of the         *)
(* database, even when the server's namespaces are numbered differently.   *)
(***************************************************************************)
FreshMapIsRight ==
  Settled /\ mapped = edits =>
    \A u \in DOMAIN map, n \in db.nodes : map[u] = ServedId(n, db, table) => n.id = u

(***************************************************************************)
(* The bridge's map is to be invalidated "WHEN the address space changes",  *)
(* so a value sent when the database was as it is now shows at its node.   *)
(***************************************************************************)
NoMisdelivery ==
  Settled =>
    \A n \in db.nodes :
      LET v == ServedId(n, db, table) IN
      values[v].node # NoId /\ values[v].sent = edits => values[v].node = n.id
=============================================================================

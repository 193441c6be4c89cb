------------------------- MODULE ConnectorSyncProofs -------------------------
(***************************************************************************)
(* Proofs about ConnectorSync, for every set of connections, mappings and  *)
(* nodes, and for all plugins that a boot may find.                        *)
(*                                                                         *)
(* What the connectors poll is kept in step by handlers that look at the   *)
(* tables only, so the invariant has to say what ties the two together: a  *)
(* mapping has its connection in the table and, while it is polled, in the *)
(* connectors; a polled mapping and its row belong to the same connection; *)
(* ids of deleted mappings do not come back.  A connector refuses a row of *)
(* its type only when a PUT stored params that are no object: all else has *)
(* passed a check, at the boot or in the routes, where it is that of the   *)
(* schema of the same plugin.                                              *)
(***************************************************************************)
EXTENDS ConnectorSync, TLAPS

OneRowPerNode(rows) == \A r, s \in rows : r.node = s.node /\ r.node # NoNode => r = s

HasConnection(rows) == \A m \in rows : \E c \in connections : c.id = m.conn

IsTracked(ps) == \A p \in ps : \E c \in tracked : c.id = p.conn

SameConnection(rows, ps) == \A p \in ps, m \in rows : p.id = m.id => p.conn = m.conn

NotDeleted(rows, ps) == \A m \in rows \cup ps : m.id \notin deleted

LaxPolled(rows, ps) ==
  node = "up" =>
    \A m \in rows, c \in connections :
      c.id = m.conn /\ TakesAll(c) => \E p \in ps : p.id = m.id

(* The part of the invariant about rows and the mappings polled. *)
Good(rows, ps) ==
  /\ rows \subseteq Mapping /\ IsKeyed(rows)
  /\ ps \subseteq Mapping /\ IsKeyed(ps)
  /\ OneRowPerNode(rows)
  /\ HasConnection(rows)
  /\ IsTracked(ps)
  /\ SameConnection(rows, ps)
  /\ NotDeleted(rows, ps)
  /\ LaxPolled(rows, ps)

IdsAreUsed ==
  /\ \A m \in mappings \cup polled : m.id \in used
  /\ \A c \in connections : c.id \in used

OnlyWhileUp == node # "up" => tracked = {} /\ polled = {}

IInv ==
  /\ TypeOK
  /\ Good(mappings, polled)
  /\ ConnectionsInStep
  /\ IdsAreUsed
  /\ OnlyWhileUp

-----------------------------------------------------------------------------
(* createMapping keeps what Good says, for an id that is new.              *)
LEMMA CreateIsGood ==
  ASSUME NEW rows, NEW ps, NEW m \in Mapping, Good(rows, ps),
         tracked \subseteq Connection, connections \subseteq Connection,
         \A d \in Loaded : \E c \in tracked : HeldFor(c, d),
         OnePerType(plugins),
         \A r \in rows \cup ps : r.id # m.id,
         m.id \notin deleted
  PROVE  LET st == createMapping(m, [rows |-> rows, polled |-> ps]) IN
         /\ Good(st.rows, st.polled)
         /\ st.rows \subseteq rows \cup {m}
         /\ st.polled \subseteq ps \cup st.rows
<1> DEFINE st == createMapping(m, [rows |-> rows, polled |-> ps])
<1>1. CASE ~(Valid(m, rows) /\ ~Throws(m, rows))
  <2>1. st = [rows |-> rows, polled |-> ps]
    BY <1>1 DEF createMapping
  <2> QED
    BY <2>1
<1>2. CASE Valid(m, rows) /\ ~Throws(m, rows)
  <2>1. st.rows = rows \cup {m} /\ st.polled = addMapping(m, ps)
    BY <1>2 DEF createMapping
  <2>2. addMapping(m, ps) = ps \cup {m} \/ addMapping(m, ps) = ps
    BY DEF addMapping
  <2>3. \E c \in connections : c.id = m.conn
    BY <1>2 DEF Valid
  <2>4. OneRowPerNode(rows \cup {m})
    BY <1>2 DEF Valid, findMappingByNodeId, Good, OneRowPerNode
  <2>5. IsKeyed(rows \cup {m}) /\ IsKeyed(ps \cup {m})
    BY DEF Good, IsKeyed
  <2>6. HasConnection(rows \cup {m})
    BY <2>3 DEF Good, HasConnection
  <2>7. IsTracked(addMapping(m, ps))
    BY DEF Good, IsTracked, addMapping
  <2>8. SameConnection(rows \cup {m}, addMapping(m, ps))
    BY <2>2 DEF Good, SameConnection
  <2>9. NotDeleted(rows \cup {m}, addMapping(m, ps))
    BY <2>2 DEF Good, NotDeleted
  <2>10. LaxPolled(rows \cup {m}, addMapping(m, ps))
    <3> SUFFICES ASSUME node = "up", NEW r \in rows \cup {m}, NEW c \in connections,
                        c.id = r.conn, TakesAll(c)
                 PROVE  \E p \in addMapping(m, ps) : p.id = r.id
      BY DEF LaxPolled
    <3>1. CASE r \in rows
      BY <3>1, <2>2 DEF Good, LaxPolled
    <3>2. CASE r = m
      <4>1. PICK t \in tracked : t.id = c.id /\ t.type = c.type
        BY DEF Loaded, Registered, TakesAll, HeldFor
      <4>2. ~Refuses(t, m)
        BY <4>1 DEF Refuses, TakesAll, OnePerType
      <4> QED
        BY <4>1, <4>2, <3>2 DEF addMapping
    <3> QED
      BY <3>1, <3>2
  <2> QED
    BY <2>1, <2>2, <2>4, <2>5, <2>6, <2>7, <2>8, <2>9, <2>10 DEF Good
<1> QED
  BY <1>1, <1>2

-----------------------------------------------------------------------------
LEMMA InitIInv == Init => IInv
BY SyncAssumption
   DEF Init, IInv, OnePerType, TypeOK, IsKeyed, Good, OneRowPerNode, HasConnection,
       IsTracked, SameConnection, NotDeleted, LaxPolled, ConnectionsInStep, IdsAreUsed, OnlyWhileUp

LEMMA StoreIsGood ==
  ASSUME IInv, node = "up", NEW st, Good(st.rows, st.polled),
         st.polled \subseteq polled \cup st.rows, Store(st)
  PROVE  IInv'
<1>1. Good(mappings, polled)'
  BY DEF Store, Good, IsKeyed, OneRowPerNode, HasConnection, IsTracked, SameConnection,
         NotDeleted, LaxPolled, TakesAll
<1>2. TypeOK'
  BY DEF IInv, TypeOK, OnePerType, Store, Good, IsKeyed, Mapping
<1>3. ConnectionsInStep' /\ OnlyWhileUp'
  BY DEF IInv, Store, ConnectionsInStep, OnlyWhileUp, Loaded, Registered, HeldFor
<1>4. IdsAreUsed'
  BY DEF IInv, IdsAreUsed, Store
<1> QED
  BY <1>1, <1>2, <1>3, <1>4 DEF IInv

(* A fresh id is nowhere yet. *)
LEMMA FreshIsNew ==
  ASSUME IInv, NEW m \in Fresh
  PROVE  m \in Mapping /\ m.id \notin deleted /\ \A r \in mappings \cup polled : r.id # m.id
BY DEF IInv, TypeOK, IdsAreUsed, Fresh

LEMMA PostMappingIInv == IInv /\ PostMapping => IInv'
<1> SUFFICES ASSUME IInv, node = "up", NEW m \in Fresh, Store(createMapping(m, Stored))
             PROVE  IInv'
  BY DEF PostMapping
<1>1. /\ Good(createMapping(m, Stored).rows, createMapping(m, Stored).polled)
      /\ createMapping(m, Stored).polled \subseteq polled \cup createMapping(m, Stored).rows
  BY FreshIsNew, CreateIsGood DEF IInv, TypeOK, ConnectionsInStep, Stored
<1> QED
  BY <1>1, StoreIsGood

LEMMA TwoMappingsIInv ==
  ASSUME IInv, node = "up", NEW m1 \in Fresh, NEW m2 \in Fresh, m1.id # m2.id,
         Store(createMapping(m2, createMapping(m1, Stored)))
  PROVE  IInv'
<1> DEFINE s1 == createMapping(m1, Stored)
           s2 == createMapping(m2, s1)
<1> HIDE DEF s1, s2
<1>1. /\ Good(s1.rows, s1.polled)
      /\ s1.rows \subseteq mappings \cup {m1}
      /\ s1.polled \subseteq polled \cup s1.rows
  BY FreshIsNew, CreateIsGood DEF IInv, TypeOK, ConnectionsInStep, Stored, s1
<1>2. s1 = [rows |-> s1.rows, polled |-> s1.polled]
  BY DEF s1, createMapping, Stored
<1>3. \A r \in s1.rows \cup s1.polled : r.id # m2.id
  BY <1>1, FreshIsNew
<1>4. /\ Good(s2.rows, s2.polled)
      /\ s2.rows \subseteq s1.rows \cup {m2}
      /\ s2.polled \subseteq s1.polled \cup s2.rows
  BY <1>1, <1>2, <1>3, FreshIsNew, CreateIsGood DEF IInv, TypeOK, ConnectionsInStep, s2
<1>5. s1.rows \subseteq s2.rows
  BY DEF s2, createMapping
<1> QED
  BY <1>1, <1>4, <1>5, StoreIsGood DEF s1, s2

LEMMA PutMappingIInv == IInv /\ PutMapping => IInv'
<1> SUFFICES ASSUME IInv, node = "up", NEW r \in mappings,
                    NEW n \in Nodes \cup {NoNode}, NEW a \in Addresses,
                    n \notin {NoNode, r.node} =>
                      nodeExists(n) /\ findMappingByNodeId(n, mappings) = {},
                    mappings' = Put(mappings, [r EXCEPT !.node = n, !.address = a]),
                    UNCHANGED <<node, schema, nodes, connections, memory, history>>
             PROVE  IInv'
  BY DEF PutMapping
<1> DEFINE d == [r EXCEPT !.node = n, !.address = a]
<1>1. d \in Mapping /\ d.id = r.id /\ d.conn = r.conn /\ d.node = n
  BY DEF IInv, TypeOK, Mapping
<1> HIDE DEF d
<1>2. mappings' = {s \in mappings : s.id # d.id} \cup {d}
  BY DEF Put, d
<1>3. \A s \in mappings : s.id = d.id => s = r
  BY <1>1 DEF IInv, TypeOK, IsKeyed
<1>4. mappings' \subseteq Mapping /\ IsKeyed(mappings')
  BY <1>1, <1>2 DEF IInv, TypeOK, IsKeyed
<1>5. OneRowPerNode(mappings')
  BY <1>1, <1>2, <1>3 DEF IInv, Good, OneRowPerNode, TypeOK, findMappingByNodeId
<1>6. Good(mappings, polled)'
  <2>1. HasConnection(mappings)'
    BY <1>1, <1>2 DEF IInv, Good, HasConnection
  <2>2. IsTracked(polled)'
    BY DEF IInv, Good, IsTracked, memory
  <2>3. SameConnection(mappings, polled)'
    BY <1>1, <1>2 DEF IInv, Good, SameConnection, memory
  <2>4. NotDeleted(mappings, polled)'
    BY <1>1, <1>2 DEF IInv, Good, NotDeleted, memory, history
  <2>5. LaxPolled(mappings, polled)'
    BY <1>1, <1>2 DEF IInv, Good, LaxPolled, TakesAll, memory
  <2> QED
    BY <1>4, <1>5, <2>1, <2>2, <2>3, <2>4, <2>5 DEF IInv, Good, memory, IsKeyed, OneRowPerNode
<1>7. TypeOK'
  BY <1>4 DEF IInv, TypeOK, OnePerType, memory, history, IsKeyed
<1>8. ConnectionsInStep' /\ OnlyWhileUp' /\ IdsAreUsed'
  BY <1>1, <1>2
     DEF IInv, ConnectionsInStep, OnlyWhileUp, IdsAreUsed, HeldFor, Registered, extractParams,
         Loaded, memory, history
<1> QED
  BY <1>6, <1>7, <1>8 DEF IInv

(* Rows go, and what is polled of them; nothing else changes. *)
LEMMA DeleteMappingIInv == IInv /\ DeleteMapping => IInv'
<1> SUFFICES ASSUME IInv, node = "up", NEW r \in mappings,
                    mappings' = Without(mappings, r.id),
                    polled' = IF \E c \in connections : c.id = r.conn /\ Registered(c)
                              THEN Without(polled, r.id) ELSE polled,
                    deleted' = deleted \cup {r.id},
                    UNCHANGED <<node, schema, nodes, connections, plugins, tracked, used>>
             PROVE  IInv'
  BY DEF DeleteMapping
<1>1. mappings' \subseteq mappings /\ polled' \subseteq polled
  BY DEF Without
<1>2. \A p \in polled' : p.id # r.id
  <2> SUFFICES ASSUME NEW p \in polled', p.id = r.id PROVE FALSE
    OBVIOUS
  <2>1. p \in polled /\ p.conn = r.conn
    BY <1>1 DEF IInv, Good, SameConnection
  <2>2. \E c \in connections : c.id = r.conn /\ Registered(c)
    BY <2>1 DEF IInv, Good, IsTracked, ConnectionsInStep, Loaded, HeldFor
  <2> QED
    BY <2>2 DEF Without
<1>3. \A p \in polled : p.id # r.id => p \in polled'
  BY DEF Without
<1>4. Good(mappings, polled)'
  <2>1. /\ (mappings \subseteq Mapping /\ IsKeyed(mappings))'
        /\ (polled \subseteq Mapping /\ IsKeyed(polled))'
    BY <1>1 DEF IInv, Good, IsKeyed
  <2>2. OneRowPerNode(mappings)' /\ HasConnection(mappings)' /\ IsTracked(polled)'
    BY <1>1 DEF IInv, Good, OneRowPerNode, HasConnection, IsTracked
  <2>3. SameConnection(mappings, polled)'
    BY <1>1 DEF IInv, Good, SameConnection
  <2>4. NotDeleted(mappings, polled)'
    BY <1>1, <1>2 DEF IInv, Good, NotDeleted, Without
  <2>5. LaxPolled(mappings, polled)'
    BY <1>3 DEF IInv, Good, LaxPolled, TakesAll, Without
  <2> QED
    BY <2>1, <2>2, <2>3, <2>4, <2>5 DEF Good
<1>5. TypeOK'
  BY <1>4 DEF IInv, TypeOK, OnePerType, Good, IsKeyed, IdsAreUsed
<1>6. ConnectionsInStep' /\ OnlyWhileUp' /\ IdsAreUsed'
  BY <1>1
     DEF IInv, ConnectionsInStep, OnlyWhileUp, IdsAreUsed, HeldFor, Registered, extractParams,
         Loaded
<1> QED
  BY <1>4, <1>5, <1>6 DEF IInv

(* What the schema of the registered plugin accepts, its connector takes. *)
LEMMA CheckedIsTaken ==
  ASSUME NEW c, validateParams(c), Registered(c)
  PROVE  extractParams(c)
BY SyncAssumption DEF validateParams, extractParams

LEMMA PostConnectionIInv == IInv /\ PostConnection => IInv'
<1> SUFFICES ASSUME IInv, node = "up", NEW c \in Connection, c.id \notin used,
                    connections' = connections \cup {c},
                    validateParams(c),
                    tracked' = updateConnection(c),
                    used' = used \cup {c.id},
                    UNCHANGED <<node, schema, nodes, mappings, plugins, polled, deleted>>
             PROVE  IInv'
  BY DEF PostConnection
<1>1. \A d \in connections : d.id # c.id
  BY DEF IInv, IdsAreUsed
<1>1a. \A d \in tracked : d.id # c.id
  BY <1>1 DEF IInv, ConnectionsInStep, Loaded, HeldFor
<1>1b. tracked' = IF Registered(c) THEN tracked \cup {c} ELSE tracked
  BY <1>1a, CheckedIsTaken DEF updateConnection, Put
<1>2. ConnectionsInStep'
  BY <1>1b, CheckedIsTaken
     DEF IInv, ConnectionsInStep, Loaded, Registered, HeldFor, extractParams
<1>3. connections' \subseteq Connection /\ IsKeyed(connections')
  BY <1>1 DEF IInv, TypeOK, IsKeyed
<1>4. tracked' \subseteq Connection /\ IsKeyed(tracked')
  BY <1>1a, <1>1b DEF IInv, TypeOK, IsKeyed
<1>5. TypeOK'
  BY <1>3, <1>4 DEF IInv, TypeOK, OnePerType, IsKeyed, Connection
<1>6. \A m \in mappings : m.conn # c.id
  BY <1>1 DEF IInv, Good, HasConnection
<1>7. Good(mappings, polled)'
  <2>1. HasConnection(mappings)' /\ IsTracked(polled)'
    BY <1>1b DEF IInv, Good, HasConnection, IsTracked
  <2>2. LaxPolled(mappings, polled)'
    BY <1>6 DEF IInv, Good, LaxPolled, TakesAll
  <2> QED
    BY <2>1, <2>2 DEF IInv, Good, IsKeyed, OneRowPerNode, SameConnection, NotDeleted
<1>8. ConnectionsInStep' /\ OnlyWhileUp' /\ IdsAreUsed'
  BY <1>2
     DEF IInv, ConnectionsInStep, OnlyWhileUp, IdsAreUsed, HeldFor, Registered, extractParams
<1> QED
  BY <1>5, <1>7, <1>8 DEF IInv

LEMMA PutConnectionIInv ==
  ASSUME IInv, PutConnection
  PROVE  IInv'
<1> SUFFICES ASSUME node = "up", NEW c \in connections, NEW d \in Connection,
                    d.id = c.id, d.type = c.type,
                    connections' = (connections \ {c}) \cup {d},
                    Registered(c) /\ ~extractParams(d) => d.params \in Falsy,
                    tracked' = IF Registered(c) /\ extractParams(d)
                               THEN Put(tracked, d) ELSE tracked,
                    UNCHANGED <<node, schema, nodes, mappings, plugins, polled, history>>
             PROVE  IInv'
  <2>1. PICK c \in connections, p \in Params :
           /\ node = "up"
           /\ Checked(c, p) => validateParams([c EXCEPT !.params = p])
           /\ connections' = Put(connections, [c EXCEPT !.params = p])
           /\ tracked' = updateConnection([c EXCEPT !.params = p])
           /\ UNCHANGED <<node, schema, nodes, mappings, plugins, polled, history>>
    BY DEF PutConnection
  <2> DEFINE d == [c EXCEPT !.params = p]
  <2>2. d \in Connection /\ d.id = c.id /\ d.type = c.type /\ d.params = p
    BY DEF IInv, TypeOK, Connection
  <2>3. Put(connections, d) = (connections \ {c}) \cup {d}
    BY <2>2 DEF Put, IInv, TypeOK, IsKeyed
  <2>4. Registered(d) <=> Registered(c)
    BY <2>2 DEF Registered
  <2> HIDE DEF d
  <2>5. ASSUME Registered(c), ~extractParams(d) PROVE d.params \in Falsy
    <3>1. CASE p = c.params
      <4>1. PICK t \in tracked : HeldFor(t, c)
        BY <2>1, <2>5 DEF IInv, ConnectionsInStep, Loaded
      <4>2. extractParams(t)
        BY <2>1 DEF IInv, ConnectionsInStep
      <4> QED
        BY <4>1, <4>2, <2>2, <2>5, <3>1 DEF HeldFor, extractParams
    <3>2. CASE p # c.params /\ p \notin Falsy
      BY <2>1, <2>4, <2>5, <3>2, CheckedIsTaken DEF Checked, d
    <3> QED
      BY <2>2, <3>1, <3>2
  <2>6. tracked' = IF Registered(c) /\ extractParams(d) THEN Put(tracked, d) ELSE tracked
    BY <2>1, <2>4 DEF updateConnection, d
  <2> QED
    BY <2>1, <2>2, <2>3, <2>5, <2>6 DEF d
<1>1. connections' \subseteq Connection /\ IsKeyed(connections')
  BY DEF IInv, TypeOK, IsKeyed
<1>2. ConnectionsInStep'
  <2>1. \A b \in connections : b.id = c.id => b = c
    BY DEF IInv, TypeOK, IsKeyed
  <2>2. /\ \A b \in Loaded : \E t \in tracked : HeldFor(t, b)
        /\ \A t \in tracked : \E b \in Loaded : HeldFor(t, b)
        /\ \A t \in tracked : extractParams(t)
    BY DEF IInv, ConnectionsInStep
  <2>3. Loaded' = IF Registered(c) THEN (Loaded \ {c}) \cup {d} ELSE Loaded
    BY <2>1 DEF Loaded, Registered
  <2>4. CASE ~Registered(c)
    BY <2>2, <2>3, <2>4 DEF ConnectionsInStep, extractParams
  <2>5. CASE Registered(c) /\ extractParams(d)
    <3>1. c \in Loaded /\ HeldFor(d, d)
      BY <2>5 DEF Loaded, HeldFor
    <3>2. tracked' = {t \in tracked : t.id # c.id} \cup {d}
      BY <2>5 DEF Put
    <3>3. \A b \in Loaded' : \E t \in tracked' : HeldFor(t, b)
      BY <2>1, <2>2, <2>3, <2>5, <3>1, <3>2 DEF HeldFor, Loaded
    <3>4. \A t \in tracked' : \E b \in Loaded' : HeldFor(t, b)
      BY <2>2, <2>3, <2>5, <3>1, <3>2 DEF HeldFor
    <3> QED
      BY <2>2, <2>5, <3>2, <3>3, <3>4 DEF ConnectionsInStep, extractParams
  <2>6. CASE Registered(c) /\ ~extractParams(d)
    <3>1. c \in Loaded /\ tracked' = tracked /\ d.params \in Falsy
      BY <2>6 DEF Loaded
    <3>2. \A t \in tracked : HeldFor(t, c) => HeldFor(t, d)
      BY <3>1 DEF HeldFor
    <3> QED
      BY <2>2, <2>3, <2>6, <3>1, <3>2 DEF ConnectionsInStep, extractParams
  <2> QED
    BY <2>4, <2>5, <2>6
<1>3. tracked' \subseteq Connection /\ IsKeyed(tracked')
  BY DEF IInv, TypeOK, IsKeyed, Put
<1>4. TypeOK'
  BY <1>1, <1>3 DEF IInv, TypeOK, OnePerType, IsKeyed, history
<1>5. Good(mappings, polled)'
  <2>1. HasConnection(mappings)'
    BY DEF IInv, Good, HasConnection
  <2>2. IsTracked(polled)'
    BY DEF IInv, Good, IsTracked, Put
  <2>3. LaxPolled(mappings, polled)'
    BY DEF IInv, Good, LaxPolled, TakesAll
  <2> QED
    BY <2>1, <2>2, <2>3
       DEF IInv, Good, IsKeyed, OneRowPerNode, SameConnection, NotDeleted, history
<1>6. OnlyWhileUp' /\ IdsAreUsed'
  BY DEF IInv, OnlyWhileUp, IdsAreUsed, history
<1> QED
  BY <1>2, <1>4, <1>5, <1>6 DEF IInv

LEMMA DeleteConnectionIInv == IInv /\ DeleteConnection => IInv'
<1> SUFFICES ASSUME IInv, node = "up", NEW c \in connections,
                    connections' = Without(connections, c.id),
                    mappings' = WithoutConn(mappings, c.id),
                    deleted' = deleted \cup {m.id : m \in {r \in mappings : r.conn = c.id}},
                    IF Registered(c)
                    THEN tracked' = Without(tracked, c.id) /\ polled' = WithoutConn(polled, c.id)
                    ELSE UNCHANGED <<tracked, polled>>,
                    UNCHANGED <<node, schema, nodes, plugins, used>>
             PROVE  IInv'
  BY DEF DeleteConnection
<1>1. \A d \in connections : d.id = c.id => d = c
  BY DEF IInv, TypeOK, IsKeyed
<1>2. ASSUME ~Registered(c) PROVE \A t \in tracked : t.id # c.id
  BY <1>1, <1>2 DEF IInv, ConnectionsInStep, Loaded, HeldFor
<1>2a. tracked' = Without(tracked, c.id)
  BY <1>2 DEF Without
<1>2b. Loaded' = {d \in Loaded : d.id # c.id}
  BY DEF Loaded, Without, Registered
<1>2c. ConnectionsInStep'
  BY <1>2a, <1>2b DEF IInv, ConnectionsInStep, Without, HeldFor, extractParams
<1>3. polled' = WithoutConn(polled, c.id)
  <2>1. CASE ~Registered(c)
    <3>1. \A p \in polled : p.conn # c.id
      BY <1>2, <2>1 DEF IInv, Good, IsTracked
    <3> QED
      BY <2>1, <3>1 DEF WithoutConn
  <2> QED
    BY <2>1
<1>4. /\ mappings' \subseteq mappings /\ polled' \subseteq polled
      /\ connections' \subseteq connections
      /\ \A m \in mappings : m \in mappings' <=> m.conn # c.id
      /\ \A p \in polled : p \in polled' <=> p.conn # c.id
  BY <1>3 DEF Without, WithoutConn
<1>5. \A m \in mappings' \cup polled' : m.id \notin deleted'
  <2> SUFFICES ASSUME NEW m \in mappings' \cup polled', NEW r \in mappings, r.conn = c.id,
                      m.id = r.id
               PROVE  FALSE
    BY <1>4 DEF IInv, Good, NotDeleted
  <2>1. CASE m \in mappings'
    BY <1>4, <2>1 DEF IInv, TypeOK, IsKeyed
  <2>2. CASE m \in polled'
    BY <1>4, <2>2 DEF IInv, Good, SameConnection
  <2> QED
    BY <2>1, <2>2
<1>6. Good(mappings, polled)'
  <2>1. /\ (mappings \subseteq Mapping /\ IsKeyed(mappings))'
        /\ (polled \subseteq Mapping /\ IsKeyed(polled))'
    BY <1>4 DEF IInv, Good, IsKeyed
  <2>2. OneRowPerNode(mappings)' /\ SameConnection(mappings, polled)'
    BY <1>4 DEF IInv, Good, OneRowPerNode, SameConnection
  <2>3. HasConnection(mappings)'
    BY <1>4 DEF IInv, Good, HasConnection, Without
  <2>4. IsTracked(polled)'
    <3> SUFFICES ASSUME NEW p \in polled' PROVE \E d \in tracked' : d.id = p.conn
      BY DEF IsTracked
    <3>1. PICK d \in tracked : d.id = p.conn
      BY <1>4 DEF IInv, Good, IsTracked
    <3>2. d.id # c.id
      BY <1>4, <3>1
    <3> QED
      BY <1>2a, <3>1, <3>2 DEF Without
  <2>5. LaxPolled(mappings, polled)'
    <3> SUFFICES ASSUME NEW m \in mappings', NEW d \in connections',
                        d.id = m.conn, TakesAll(d)
                 PROVE  \E p \in polled' : p.id = m.id
      BY DEF LaxPolled, TakesAll
    <3>1. PICK p \in polled : p.id = m.id
      BY <1>4 DEF IInv, Good, LaxPolled
    <3>2. p.conn = m.conn
      BY <1>4, <3>1 DEF IInv, Good, SameConnection
    <3> QED
      BY <1>4, <3>1, <3>2
  <2> QED
    BY <1>5, <2>1, <2>2, <2>3, <2>4, <2>5 DEF Good, NotDeleted
<1>7. TypeOK'
  <2>1. deleted' \subseteq used'
    BY DEF IInv, TypeOK, IdsAreUsed
  <2>2. connections' \subseteq Connection /\ IsKeyed(connections') /\ tracked' \subseteq Connection
        /\ IsKeyed(tracked')
    BY <1>2a, <1>4 DEF IInv, TypeOK, IsKeyed, Without
  <2> QED
    BY <1>6, <2>1, <2>2 DEF IInv, TypeOK, Good, IsKeyed
<1>8. OnlyWhileUp' /\ IdsAreUsed'
  BY <1>4 DEF IInv, OnlyWhileUp, IdsAreUsed
<1> QED
  BY <1>2c, <1>6, <1>7, <1>8 DEF IInv

LEMMA DeleteNodesIInv == IInv /\ DeleteNodes => IInv'
<1> SUFFICES ASSUME IInv, node = "up", NEW gone \in SUBSET nodes,
                    nodes' = nodes \ gone,
                    mappings' = {r \in mappings : r.node \notin gone},
                    UNCHANGED <<node, schema, connections, memory, history>>
             PROVE  IInv'
  BY DEF DeleteNodes
<1>1. Good(mappings, polled)'
  BY DEF IInv, Good, IsKeyed, OneRowPerNode, HasConnection, IsTracked, SameConnection,
         NotDeleted, LaxPolled, TakesAll, memory, history
<1>2. TypeOK'
  BY <1>1 DEF IInv, TypeOK, OnePerType, Good, IsKeyed, memory, history
<1>3. ConnectionsInStep' /\ OnlyWhileUp' /\ IdsAreUsed'
  BY
     DEF IInv, ConnectionsInStep, OnlyWhileUp, IdsAreUsed, HeldFor, Registered, extractParams,
         Loaded, memory, history
<1> QED
  BY <1>1, <1>2, <1>3 DEF IInv

LEMMA ExitIInv == IInv /\ Exit => IInv'
<1> SUFFICES ASSUME IInv, node' = "down", plugins' = {}, tracked' = {}, polled' = {},
                    UNCHANGED <<tables, history>>
             PROVE  IInv'
  BY DEF Exit
<1>1. Good(mappings, polled)'
  BY DEF IInv, Good, IsKeyed, OneRowPerNode, HasConnection, IsTracked, SameConnection,
         NotDeleted, LaxPolled, tables, history
<1>2. TypeOK'
  BY <1>1 DEF IInv, TypeOK, OnePerType, IsKeyed, tables, history
<1> QED
  BY <1>1, <1>2
     DEF IInv, ConnectionsInStep, OnlyWhileUp, IdsAreUsed, HeldFor, tables, history

(* A directory adds plugins of types that are still missing, one for each. *)
LEMMA ScanIsPlugins ==
  ASSUME NEW dir, dir \subseteq Plugin, NEW ps, ps \subseteq Plugin, OnePerType(ps),
         NEW found \in scanDirectory(dir, ps)
  PROVE  found \subseteq Plugin /\ OnePerType(found)
BY DEF scanDirectory, OnePerType

LEMMA LoadedPlugins ==
  ASSUME NEW found \in loadPlugins
  PROVE  found \subseteq Plugin /\ OnePerType(found)
<1>1. PICK ps \in scanDirectory(BuiltIn, {}) : found \in scanDirectory(External, ps)
  BY DEF loadPlugins
<1>2. ps \subseteq Plugin /\ OnePerType(ps)
  BY SyncAssumption, ScanIsPlugins DEF OnePerType
<1> QED
  BY <1>1, <1>2, SyncAssumption, ScanIsPlugins

(* What is loaded is what the tables hold. *)
LEMMA BootIInv == IInv /\ Boot => IInv'
<1> SUFFICES ASSUME IInv, node = "down", Boot PROVE IInv'
  BY DEF Boot
<1>0. /\ UNCHANGED <<nodes, connections, mappings, history>> /\ schema' \in {4, 5}
      /\ plugins' \subseteq Plugin /\ OnePerType(plugins')
  BY LoadedPlugins DEF Boot, Migrated
<1>1. CASE node' = "failed" /\ UNCHANGED <<tracked, polled>>
  <2>1. Good(mappings, polled)'
    BY <1>0, <1>1 DEF IInv, Good, IsKeyed, OneRowPerNode, HasConnection, IsTracked,
                      SameConnection, NotDeleted, LaxPolled, history
  <2>2. TypeOK'
    BY <1>0, <1>1 DEF IInv, TypeOK, IsKeyed, OnePerType, history
  <2> QED
    BY <1>0, <1>1, <2>1, <2>2
       DEF Boot, IInv, ConnectionsInStep, OnlyWhileUp, IdsAreUsed, HeldFor, extractParams, history
<1>2. CASE /\ node' = "up"
           /\ \A c \in Loaded' : extractParams(c)
           /\ tracked' = Loaded'
           /\ polled' = {m \in mappings : \E c \in Loaded' : c.id = m.conn}
  <2>1. /\ (mappings \subseteq Mapping /\ IsKeyed(mappings))'
        /\ (polled \subseteq Mapping /\ IsKeyed(polled))'
    BY <1>2, <1>0 DEF IInv, Good, IsKeyed
  <2>2. OneRowPerNode(mappings)' /\ HasConnection(mappings)'
    BY <1>2, <1>0 DEF IInv, Good, OneRowPerNode, HasConnection
  <2>3. IsTracked(polled)'
    BY <1>2 DEF IsTracked
  <2>4. SameConnection(mappings, polled)'
    BY <1>2, <1>0 DEF IInv, Good, SameConnection, IsKeyed
  <2>5. NotDeleted(mappings, polled)'
    BY <1>2, <1>0 DEF IInv, Good, NotDeleted, history
  <2>6. LaxPolled(mappings, polled)'
    BY <1>2, <1>0 DEF LaxPolled, TakesAll, Loaded, Registered
  <2>7. TypeOK'
    BY <1>2, <1>0, <2>1 DEF IInv, TypeOK, IsKeyed, OnePerType, Loaded, history
  <2>8. ConnectionsInStep' /\ OnlyWhileUp' /\ IdsAreUsed'
    BY <1>2, <1>0
       DEF IInv, ConnectionsInStep, OnlyWhileUp, IdsAreUsed, HeldFor, extractParams, history
  <2> QED
    BY <2>1, <2>2, <2>3, <2>4, <2>5, <2>6, <2>7, <2>8 DEF IInv, Good
<1> QED
  BY <1>1, <1>2 DEF Boot

LEMMA NextIInv == IInv /\ [Next]_vars => IInv'
<1> SUFFICES ASSUME IInv, [Next]_vars PROVE IInv'
  OBVIOUS
<1>1. CASE PostMappings
  BY <1>1, TwoMappingsIInv DEF PostMappings
<1>2. CASE ImportCsv
  BY <1>2, TwoMappingsIInv DEF ImportCsv
<1>3. CASE UNCHANGED vars
  BY <1>3 DEF IInv, TypeOK, Good, IsKeyed, OneRowPerNode, HasConnection, IsTracked, SameConnection,
              NotDeleted, LaxPolled, TakesAll, OnePerType, ConnectionsInStep, Loaded,
              Registered, IdsAreUsed, OnlyWhileUp, HeldFor, extractParams,
              vars, tables, memory, history
<1> QED
  BY <1>1, <1>2, <1>3, PostMappingIInv, PutMappingIInv, DeleteMappingIInv, PostConnectionIInv,
     PutConnectionIInv, DeleteConnectionIInv, DeleteNodesIInv, ExitIInv, BootIInv
     DEF Next

THEOREM Invariance == Spec => []IInv
BY InitIInv, NextIInv, PTL DEF Spec

-----------------------------------------------------------------------------
(* Every table and every copy keeps its type and its keys. *)
THEOREM TypeCorrect == Spec => []TypeOK
<1>1. IInv => TypeOK
  BY DEF IInv
<1> QED
  BY <1>1, Invariance, PTL

(* Without a UNIQUE constraint on node_id, the checks of createMapping and *)
(* updateMapping keep a node to one mapping.                               *)
THEOREM NodesKeepOneMapping == Spec => []OneMappingPerNode
<1>1. IInv => OneMappingPerNode
  BY DEF IInv, Good, OneRowPerNode, OneMappingPerNode
<1> QED
  BY <1>1, Invariance, PTL

(* The routes and the boot keep the connectors at the rows of the table,   *)
(* except where a PUT has stored params that are no object: there the      *)
(* connector keeps a row that it could use.                                *)
THEOREM ConnectorsHoldTheTable == Spec => []ConnectionsInStep
<1>1. IInv => ConnectionsInStep
  BY DEF IInv
<1> QED
  BY <1>1, Invariance, PTL

(* A DELETE that was answered ends the polling of the mappings it removed. *)
THEOREM DeletedStaysUnpolled == Spec => []DeletedIsNotPolled
<1>1. IInv => DeletedIsNotPolled
  BY DEF IInv, Good, NotDeleted, DeletedIsNotPolled
<1> QED
  BY <1>1, Invariance, PTL

(* Where addMapping refuses nothing, no stored mapping goes unpolled.      *)
THEOREM StoredIsPolled == Spec => []LaxIsPolled
<1>1. IInv => LaxIsPolled
  BY DEF IInv, Good, LaxPolled, LaxIsPolled
<1> QED
  BY <1>1, Invariance, PTL
=============================================================================

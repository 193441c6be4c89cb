--------------------------- MODULE AddressSpaceProofs ---------------------------
(***************************************************************************)
(* Proofs about AddressSpace, for every number of namespaces, nodes, edits *)
(* and starts: what the server has when nothing is left to do.             *)
(***************************************************************************)
EXTENDS AddressSpace, FiniteSetTheorems, TLAPS

(* What is read from the file, or was, had a consistent database behind it. *)
FilesInv == (file # Torn => IsConsistent(file)) /\ IsConsistent(config)

(* The file is that of the database, unless an edit is yet to be answered. *)
FileIsCurrent == file # Torn /\ runtime # "off" /\ unsent = 0 => file = db

(* A file written since the runtime parsed it has raised the flag. *)
ConfigIsFile == runtime = "reloading" /\ ~reload /\ file # Torn => config = file

IsIn(uri, t) == \E i \in DOMAIN t : t[i] = uri

Top(v) == [ns |-> v.ns, space |-> v.space]

(* The ids are those of the nodes of c, and others not below its namespaces. *)
Serves(c, t, ids) ==
  /\ \A n \in c.nodes : IsIn(n.uri, t) /\ ServedId(n, c, t) \in ids
  /\ \A v \in ids : Top(v) \in RootsOf(c, t) => \E n \in c.nodes : v = ServedId(n, c, t)

FileIsServed ==
  runtime = "up" /\ ~reload /\ file # Torn => Serves(file, table, DOMAIN values)

(* A URI has one index, and every variable one that was given out. *)
TableInv == IsInjective(table) /\ \A v \in DOMAIN values : v.ns <= 1 + Len(table)

NoServer ==
  runtime \in {"off", "created"} => table = <<>> /\ objects = {} /\ values = NoMap

MapInv == mapped = edits => map = NoMap \/ map = buildNodeIdMap

ServerInv ==
  /\ TypeOK /\ FilesInv /\ FileIsCurrent /\ ConfigIsFile
  /\ FileIsServed /\ TableInv /\ NoServer /\ MapInv

-----------------------------------------------------------------------------
LEMMA SpaceOfNode ==
  ASSUME NEW c, IsConsistent(c), NEW n \in c.nodes
  PROVE  /\ SpaceOf(n, c) \in c.spaces /\ SpaceOf(n, c).uri = n.uri
         /\ \A s \in c.spaces : s.uri = n.uri => s = SpaceOf(n, c)
<1>1. \E s \in c.spaces : s.uri = n.uri
  BY DEF IsConsistent
<1>2. SpaceOf(n, c) \in c.spaces /\ SpaceOf(n, c).uri = n.uri
  BY <1>1 DEF SpaceOf
<1> QED
  BY <1>2 DEF IsConsistent

(* Namespaces in the order of their names: each has a place, each place one. *)
Earlier(ss, s) == {t \in ss : t.name < s.name}
Place(ss, s) == 1 + Cardinality(Earlier(ss, s))

LEMMA Places ==
  ASSUME NEW ss, IsFiniteSet(ss), \A s \in ss : s.name \in Nat,
         \A s, t \in ss : s # t => s.name # t.name
  PROVE  /\ Cardinality(ss) \in Nat
         /\ \A s \in ss : Place(ss, s) \in 1 .. Cardinality(ss)
         /\ \A s, t \in ss : Place(ss, s) = Place(ss, t) => s = t
         /\ \A i \in 1 .. Cardinality(ss) : \E s \in ss : Place(ss, s) = i
<1> DEFINE n == Cardinality(ss)
           f == [s \in ss |-> Place(ss, s)]
<1>1. n \in Nat
  BY FS_CardinalityType
<1>2. ASSUME NEW s \in ss
      PROVE  /\ IsFiniteSet(Earlier(ss, s)) /\ Cardinality(Earlier(ss, s)) \in Nat
             /\ Cardinality(Earlier(ss, s)) < n
  <2>1. Earlier(ss, s) \in SUBSET ss /\ s \notin Earlier(ss, s)
    BY DEF Earlier
  <2>2. IsFiniteSet(Earlier(ss, s)) /\ Cardinality(Earlier(ss, s)) <= n
        /\ Cardinality(Earlier(ss, s)) # n
    BY <2>1, FS_Subset
  <2>3. Cardinality(Earlier(ss, s)) \in Nat
    BY <2>2, FS_CardinalityType
  <2> QED
    BY <1>1, <2>2, <2>3
<1>3. \A s \in ss : Place(ss, s) \in 1 .. n
  BY <1>1, <1>2 DEF Place
<1>4. ASSUME NEW s \in ss, NEW t \in ss, s.name < t.name
      PROVE  Place(ss, s) # Place(ss, t)
  <2>1. Earlier(ss, s) \in SUBSET Earlier(ss, t)
    BY <1>4 DEF Earlier
  <2>2. s \in Earlier(ss, t) /\ s \notin Earlier(ss, s)
    BY <1>4 DEF Earlier
  <2>3. Cardinality(Earlier(ss, s)) # Cardinality(Earlier(ss, t))
    BY <1>2, <2>1, <2>2, FS_Subset
  <2> QED
    BY <1>2, <2>3 DEF Place
<1>5. f \in Injection(ss, 1 .. n)
  <2>1. \A s, t \in ss : s # t => Place(ss, s) # Place(ss, t)
    BY <1>4
  <2> QED
    BY <1>3, <2>1 DEF Injection, IsInjective
<1>9. \A s, t \in ss : Place(ss, s) = Place(ss, t) => s = t
  BY <1>5 DEF Injection, IsInjective
<1>6. IsFiniteSet(1 .. n) /\ Cardinality(1 .. n) = n
  BY <1>1, FS_Interval
<1>7. f \in Surjection(ss, 1 .. n)
  <2> HIDE DEF f, n
  <2> QED
    BY <1>5, <1>6, FS_Injection DEF n
<1>8. \A i \in 1 .. n : \E s \in ss : f[s] = i
  BY <1>7 DEF Surjection
<1> QED
  BY <1>1, <1>3, <1>8, <1>9

(* The indexes given out stay, and every namespace of c has one. *)
Grown(c, t) ==
  /\ t \in Seq(Uris) /\ IsInjective(t) /\ Len(t) >= Len(table)
  /\ \A i \in DOMAIN table : i \in DOMAIN t /\ t[i] = table[i]
  /\ \A i \in DOMAIN t : i \in DOMAIN table \/ t[i] \notin Registered
  /\ \A s \in c.spaces : IsIn(s.uri, t)

LEMMA Concatenation ==
  ASSUME NEW A, NEW p \in Seq(A), NEW q \in Seq(A)
  PROVE  /\ Len(p) \in Nat /\ DOMAIN p = 1 .. Len(p)
         /\ p \o q \in Seq(A) /\ Len(p \o q) = Len(p) + Len(q)
         /\ DOMAIN (p \o q) = 1 .. (Len(p) + Len(q))
         /\ \A i \in 1 .. Len(p) : (p \o q)[i] = p[i]
         /\ \A i \in 1 .. Len(q) : (p \o q)[Len(p) + i] = q[i]
<1>1. p \o q \in Seq(A) /\ Len(p \o q) = Len(p) + Len(q)
  OBVIOUS
<1>2. DOMAIN (p \o q) = 1 .. (Len(p) + Len(q))
  BY <1>1
<1>3. \A i \in 1 .. Len(p) : (p \o q)[i] = p[i]
  OBVIOUS
<1>4. \A i \in 1 .. Len(q) : (p \o q)[Len(p) + i] = q[i]
  OBVIOUS
<1> QED
  BY <1>1, <1>2, <1>3, <1>4

LEMMA Queue ==
  ASSUME NEW A, NEW p \in Seq(A)
  PROVE  /\ p # <<>> => Head(p) \in A /\ Tail(p) \in Seq(A) /\ Len(Tail(p)) <= Len(p)
         /\ \A x \in A : Append(p, x) \in Seq(A) /\ Len(Append(p, x)) = Len(p) + 1
OBVIOUS

LEMMA NamespacesAdded ==
  ASSUME NEW c \in Config, IsConsistent(c), table \in Seq(Uris), IsInjective(table)
  PROVE  Grown(c, addNamespaces(c))
<1> DEFINE new == {s \in c.spaces : s.uri \notin Registered}
           m == Cardinality(new)
           At(i) == CHOOSE s \in new : Place(new, s) = i
           added == [i \in 1 .. m |-> At(i).uri]
           t == addNamespaces(c)
<1>1. t = table \o added
  BY DEF addNamespaces, Place, Earlier
<1>2. /\ new \subseteq c.spaces /\ c.spaces \subseteq Space /\ IsFiniteSet(new)
      /\ \A s \in new : s.name \in Nat /\ s.uri \in Uris
      /\ \A s, u \in new : s # u => s.name # u.name /\ s.uri # u.uri
  <2>1. c.spaces \subseteq Space /\ IsFiniteSet(c.spaces) /\ new \in SUBSET c.spaces
    BY DEF Config
  <2>2. IsFiniteSet(new)
    BY <2>1, FS_Subset
  <2> QED
    BY <2>1, <2>2, AddressSpaceAssumption DEF Space, IsConsistent
<1> HIDE DEF new
<1>3. /\ m \in Nat
      /\ \A s \in new : Place(new, s) \in 1 .. m
      /\ \A s, u \in new : Place(new, s) = Place(new, u) => s = u
      /\ \A i \in 1 .. m : \E s \in new : Place(new, s) = i
  BY <1>2, Places
<1>4. \A i \in 1 .. m : At(i) \in new /\ Place(new, At(i)) = i
  BY <1>3
<1> HIDE DEF At, m
<1>5. added \in Seq(Uris) /\ Len(added) = m /\ \A i \in 1 .. m : added[i] = At(i).uri
  BY <1>2, <1>3, <1>4
<1> HIDE DEF added
<1> DEFINE n == Len(table)
<1>6. /\ n \in Nat /\ DOMAIN table = 1 .. n
      /\ t \in Seq(Uris) /\ Len(t) = n + m /\ DOMAIN t = 1 .. (n + m)
      /\ \A i \in 1 .. n : t[i] = table[i]
      /\ \A i \in 1 .. m : t[n + i] = At(i).uri
  <2> HIDE DEF t
  <2> QED
    BY <1>1, <1>5, Concatenation
<1>7. \A i \in 1 .. (n + m) : i \in 1 .. n \/ (i - n \in 1 .. m /\ t[i] = At(i - n).uri)
  <2> SUFFICES ASSUME NEW i \in 1 .. (n + m), i \notin 1 .. n
               PROVE  i - n \in 1 .. m /\ t[i] = At(i - n).uri
    OBVIOUS
  <2>1. i - n \in 1 .. m /\ n + (i - n) = i
    BY <1>3, <1>6
  <2> QED
    BY <1>6, <2>1
<1> HIDE DEF t, n
<1>8. \A i \in 1 .. m : At(i).uri \notin Registered
  BY <1>4 DEF new
<1>9. \A i \in DOMAIN t : i \in DOMAIN table \/ t[i] \notin Registered
  BY <1>6, <1>7, <1>8
<1>10. IsInjective(t)
  <2> SUFFICES ASSUME NEW i \in 1 .. (n + m), NEW j \in 1 .. (n + m), t[i] = t[j]
               PROVE  i = j
    BY <1>6 DEF IsInjective
  <2>1. CASE i \in 1 .. n /\ j \in 1 .. n
    BY <1>6, <2>1 DEF IsInjective
  <2>2. ASSUME i \in 1 .. n, j \notin 1 .. n PROVE FALSE
    BY <1>6, <1>7, <1>8, <2>2 DEF Registered
  <2>3. ASSUME i \notin 1 .. n, j \in 1 .. n PROVE FALSE
    BY <1>6, <1>7, <1>8, <2>3 DEF Registered
  <2>4. CASE i \notin 1 .. n /\ j \notin 1 .. n
    <3>1. i - n \in 1 .. m /\ j - n \in 1 .. m /\ At(i - n).uri = At(j - n).uri
      BY <1>7, <2>4
    <3>2. At(i - n) = At(j - n)
      BY <1>2, <1>4, <3>1
    <3>3. i - n = j - n
      BY <1>4, <3>1, <3>2
    <3> QED
      BY <1>3, <1>6, <3>3
  <2> QED
    BY <2>1, <2>2, <2>3, <2>4
<1>11. ASSUME NEW s \in c.spaces PROVE IsIn(s.uri, t)
  <2>1. CASE s.uri \in Registered
    <3>1. PICK i \in DOMAIN table : table[i] = s.uri
      BY <2>1 DEF Registered
    <3>2. i \in DOMAIN t /\ t[i] = s.uri
      BY <1>3, <1>6, <3>1
    <3> QED
      BY <3>2 DEF IsIn
  <2>2. CASE s.uri \notin Registered
    <3>1. s \in new
      BY <2>2 DEF new
    <3>2. PICK i \in 1 .. m : Place(new, s) = i
      BY <1>3, <3>1
    <3>3. At(i).uri = s.uri
      BY <1>3, <1>4, <3>1, <3>2
    <3>4. n + i \in DOMAIN t /\ t[n + i] = s.uri
      BY <1>3, <1>6, <3>3
    <3> QED
      BY <3>4 DEF IsIn
  <2> QED
    BY <2>1, <2>2
<1> QED
  BY <1>3, <1>6, <1>9, <1>10, <1>11 DEF Grown, t

LEMMA IndexOf ==
  ASSUME NEW t, IsInjective(t), NEW i \in DOMAIN t
  PROVE  Index(t[i], t) = 1 + i
<1> DEFINE j == CHOOSE j \in DOMAIN t : t[j] = t[i]
<1>1. j \in DOMAIN t /\ t[j] = t[i]
  OBVIOUS
<1> HIDE DEF j
<1>2. j = i
  BY <1>1 DEF IsInjective
<1> QED
  BY <1>2 DEF Index, j

LEMMA ServedIds ==
  ASSUME NEW c \in Config, IsConsistent(c), NEW t, Grown(c, t), NEW n \in c.nodes
  PROVE  /\ IsIn(n.uri, t) /\ ServedId(n, c, t) \in Id
         /\ ServedId(n, c, t).ns <= 1 + Len(t)
<1>1. /\ SpaceOf(n, c) \in c.spaces /\ SpaceOf(n, c).uri = n.uri
      /\ SpaceOf(n, c) \in Space /\ n \in Node
  BY SpaceOfNode DEF Config
<1>2. IsIn(n.uri, t) /\ t \in Seq(Uris) /\ IsInjective(t)
  BY <1>1 DEF Grown
<1>3. PICK i \in DOMAIN t : t[i] = n.uri
  BY <1>2 DEF IsIn
<1>4. i \in Nat /\ i <= Len(t) /\ Index(n.uri, t) = 1 + i
  BY <1>2, <1>3, IndexOf
<1> QED
  BY <1>1, <1>2, <1>4 DEF ServedId, Id, Space, Node

(* Variables whose namespaces are not those of c are not in the way of build. *)
LEMMA BuildServes ==
  ASSUME NEW c \in Config, IsConsistent(c), NEW t, Grown(c, t),
         table \in Seq(Uris), TableInv, DOMAIN values \subseteq Id,
         NEW vs \in SUBSET DOMAIN values, \A v \in vs : Top(v) \notin clearedRoots(c)
  PROVE  Serves(c, t, vs \cup {ServedId(n, c, t) : n \in c.nodes})
<1>1. ASSUME NEW v \in vs, Top(v) \in RootsOf(c, t) PROVE FALSE
  <2>1. PICK s \in c.spaces : Top(v) = [ns |-> Index(s.uri, t), space |-> s.name]
    BY <1>1 DEF RootsOf
  <2>2. PICK i \in DOMAIN t : t[i] = s.uri
    BY DEF Grown, IsIn
  <2>3. Index(s.uri, t) = 1 + i /\ i \in Nat \ {0}
    BY <2>2, IndexOf DEF Grown
  <2>4. v.ns = 1 + i /\ v.ns <= 1 + Len(table)
    BY <2>1, <2>3 DEF Top, TableInv
  <2>5. i \in DOMAIN table
    BY <2>3, <2>4
  <2>6. table[i] = s.uri
    BY <2>2, <2>5 DEF Grown
  <2>7. s.uri \in Registered /\ Index(s.uri, table) = 1 + i
    BY <2>5, <2>6, IndexOf DEF Registered, TableInv
  <2>8. Top(v) = [ns |-> Index(s.uri, table), space |-> s.name]
    BY <2>1, <2>3, <2>7
  <2>9. Top(v) \in clearedRoots(c)
    <3>1. [c EXCEPT !.spaces = {r \in @ : r.uri \in Registered}].spaces
            = {r \in c.spaces : r.uri \in Registered}
      BY DEF Config
    <3>2. s \in {r \in c.spaces : r.uri \in Registered}
      BY <2>7
    <3> QED
      BY <2>8, <3>1, <3>2 DEF clearedRoots, RootsOf
  <2> QED
    BY <2>9
<1>2. \A n \in c.nodes : IsIn(n.uri, t)
  BY ServedIds
<1> QED
  BY <1>1, <1>2 DEF Serves

(* What build leaves in the server is of its types. *)
LEMMA BuildRows ==
  ASSUME NEW c \in Config, IsConsistent(c), TypeOK, TableInv,
         NEW os \in SUBSET objects, NEW vs \in SUBSET DOMAIN values, build(c, os, vs)
  PROVE  /\ Grown(c, table') /\ table' \in Seq(Uris)
         /\ objects' \subseteq [ns : Nat, space : Spaces]
         /\ DOMAIN values' = vs \cup {ServedId(n, c, table') : n \in c.nodes}
         /\ \A v \in DOMAIN values' : v \in Id /\ values'[v] \in Shown
         /\ TableInv'
<1>1. Grown(c, table')
  BY NamespacesAdded DEF build, TypeOK, TableInv
<1>2. table \in Seq(Uris) /\ table' \in Seq(Uris) /\ Len(table') >= Len(table) /\ IsInjective(table')
  BY <1>1 DEF TypeOK, Grown
<1>3. RootsOf(c, table') \subseteq [ns : Nat, space : Spaces]
  <2> SUFFICES ASSUME NEW s \in c.spaces
               PROVE  [ns |-> Index(s.uri, table'), space |-> s.name] \in [ns : Nat, space : Spaces]
    BY DEF RootsOf
  <2>1. PICK i \in DOMAIN table' : table'[i] = s.uri
    BY <1>1 DEF Grown, IsIn
  <2>2. Index(s.uri, table') = 1 + i /\ i \in Nat
    BY <1>2, <2>1, IndexOf
  <2>3. s.name \in Spaces
    BY DEF Config, Space
  <2> QED
    BY <2>2, <2>3
<1>4. objects' \subseteq [ns : Nat, space : Spaces]
  BY <1>3 DEF build, TypeOK
<1>5. /\ DOMAIN values' = vs \cup {ServedId(n, c, table') : n \in c.nodes}
      /\ \A v \in DOMAIN values' : values'[v] = IF v \in vs THEN values[v] ELSE Initial
  BY DEF build
<1>6. Initial \in Shown
  BY DEF Initial, Shown
<1>7. ASSUME NEW v \in DOMAIN values'
      PROVE  v \in Id /\ values'[v] \in Shown /\ v.ns <= 1 + Len(table')
  <2>1. CASE v \in vs
    <3>1. v \in Id /\ values[v] \in Shown /\ v.ns <= 1 + Len(table) /\ v.ns \in Nat
      BY <2>1 DEF TypeOK, TableInv, Id
    <3>2. Len(table) \in Nat /\ Len(table') \in Nat
      BY <1>2
    <3> QED
      BY <1>2, <1>5, <2>1, <3>1, <3>2
  <2>2. CASE v \notin vs
    <3>1. PICK n \in c.nodes : v = ServedId(n, c, table')
      BY <1>5, <2>2
    <3> QED
      BY <1>1, <1>5, <1>6, <2>2, <3>1, ServedIds
  <2> QED
    BY <2>1, <2>2
<1> QED
  BY <1>1, <1>2, <1>4, <1>5, <1>7 DEF TableInv

-----------------------------------------------------------------------------
LEMMA EmptyConfig == Empty \in Config /\ IsConsistent(Empty)
BY FS_EmptySet DEF Empty, Config, IsConsistent

LEMMA GeneratedIds ==
  ASSUME NEW c \in Config, IsConsistent(c), NEW n \in c.nodes
  PROVE  GeneratedId(n, c) \in Id
<1> DEFINE s == SpaceOf(n, c)
<1>1. s \in c.spaces /\ s \in Space /\ n \in Node
  BY SpaceOfNode DEF Config
<1>2. IsFiniteSet(c.spaces) /\ Before(s, c) \in SUBSET c.spaces
  BY DEF Config, Before
<1>3. Cardinality(Before(s, c)) \in Nat
  BY <1>2, FS_Subset, FS_CardinalityType
<1> QED
  BY <1>1, <1>3 DEF GeneratedId, Id, Space, Node

LEMMA MapTyped ==
  ASSUME TypeOK
  PROVE  /\ DOMAIN buildNodeIdMap \subseteq Ids
         /\ \A u \in DOMAIN buildNodeIdMap :
              /\ NodeWith(u) \in db.nodes /\ NodeWith(u).id = u
              /\ buildNodeIdMap[u] = GeneratedId(NodeWith(u), db) /\ buildNodeIdMap[u] \in Id
<1>1. DOMAIN buildNodeIdMap = {n.id : n \in db.nodes}
  BY DEF buildNodeIdMap
<1>2. db \in Config /\ IsConsistent(db) /\ \A n \in db.nodes : n.id \in Ids
  BY DEF TypeOK, Config, Node
<1>3. ASSUME NEW u \in DOMAIN buildNodeIdMap
      PROVE  /\ NodeWith(u) \in db.nodes /\ NodeWith(u).id = u
             /\ buildNodeIdMap[u] = GeneratedId(NodeWith(u), db) /\ buildNodeIdMap[u] \in Id
  <2>1. \E n \in db.nodes : n.id = u
    BY <1>1
  <2>2. NodeWith(u) \in db.nodes /\ NodeWith(u).id = u
    BY <2>1 DEF NodeWith
  <2>3. buildNodeIdMap[u] = GeneratedId(NodeWith(u), db)
    BY <1>1 DEF buildNodeIdMap
  <2> QED
    BY <1>2, <2>2, <2>3, GeneratedIds
<1> QED
  BY <1>1, <1>2, <1>3

LEMMA WithSpaces ==
  ASSUME db \in Config, NEW f \in SUBSET Space, IsFiniteSet(f)
  PROVE  [db EXCEPT !.spaces = f] \in Config
BY DEF Config

LEMMA WithNodes ==
  ASSUME db \in Config, NEW g \in SUBSET Node
  PROVE  [db EXCEPT !.nodes = g] \in Config
BY DEF Config

(* Every request of the routes is an edit that leaves the tables typed. *)
LEMMA EditsTyped ==
  ASSUME TypeOK,
         PostNamespace \/ PutNamespace \/ DeleteNamespace \/ PostNode \/ PutNode \/ DeleteNode
  PROVE  \E c \in Config, us \in SUBSET Ids : Edit(c, us)
<1>1. /\ db \in Config /\ db.spaces \subseteq Space /\ IsFiniteSet(db.spaces)
      /\ db.nodes \subseteq Node
      /\ \A f, g : [spaces |-> f, nodes |-> g] \in Config <=>
                   f \subseteq Space /\ IsFiniteSet(f) /\ g \subseteq Node
  BY DEF TypeOK, Config
<1>3. CASE PostNamespace
  <2>1. PICK s \in Space \ db.spaces : Edit([db EXCEPT !.spaces = db.spaces \cup {s}], {})
    BY <1>3 DEF PostNamespace
  <2>2. IsFiniteSet(db.spaces \cup {s})
    BY <1>1, FS_AddElement
  <2>3. [db EXCEPT !.spaces = db.spaces \cup {s}] \in Config
    BY <1>1, <2>2, WithSpaces
  <2> QED
    BY <2>1, <2>3
<1>4. CASE PutNamespace
  <2>1. PICK s \in db.spaces, t \in Space :
          Edit([spaces |-> (db.spaces \ {s}) \cup {t},
                nodes |-> {IF n.uri = s.uri THEN [n EXCEPT !.uri = t.uri] ELSE n : n \in db.nodes}], {})
    BY <1>4 DEF PutNamespace
  <2>2. IsFiniteSet((db.spaces \ {s}) \cup {t})
    <3>1. IsFiniteSet(db.spaces \ {s})
      BY <1>1, FS_RemoveElement
    <3> QED
      BY <3>1, FS_AddElement
  <2>3. {IF n.uri = s.uri THEN [n EXCEPT !.uri = t.uri] ELSE n : n \in db.nodes} \subseteq Node
    BY <1>1 DEF Node, Space
  <2>4. [spaces |-> (db.spaces \ {s}) \cup {t},
         nodes |-> {IF n.uri = s.uri THEN [n EXCEPT !.uri = t.uri] ELSE n : n \in db.nodes}] \in Config
    BY <1>1, <2>2, <2>3
  <2> QED
    BY <2>1, <2>4
<1>5. CASE DeleteNamespace
  <2>1. PICK s \in db.spaces :
          Edit([spaces |-> db.spaces \ {s}, nodes |-> {n \in db.nodes : n.uri # s.uri}], {})
    BY <1>5 DEF DeleteNamespace
  <2>2. IsFiniteSet(db.spaces \ {s})
    BY <1>1, FS_RemoveElement
  <2>3. [spaces |-> db.spaces \ {s}, nodes |-> {n \in db.nodes : n.uri # s.uri}] \in Config
    BY <1>1, <2>2
  <2> QED
    BY <2>1, <2>3
<1>6. CASE PostNode
  <2>1. PICK n \in Node : Edit([db EXCEPT !.nodes = db.nodes \cup {n}], {n.id})
    BY <1>6 DEF PostNode
  <2>2. [db EXCEPT !.nodes = db.nodes \cup {n}] \in Config
    BY <1>1, WithNodes
  <2>3. {n.id} \in SUBSET Ids
    BY DEF Node
  <2> QED
    BY <2>1, <2>2, <2>3
<1>7. CASE PutNode
  <2>1. PICK n \in db.nodes, p \in Names :
          Edit([db EXCEPT !.nodes = (db.nodes \ {n}) \cup {[n EXCEPT !.name = p]}], {})
    BY <1>7 DEF PutNode
  <2>2. [n EXCEPT !.name = p] \in Node
    BY <1>1 DEF Node
  <2>3. [db EXCEPT !.nodes = (db.nodes \ {n}) \cup {[n EXCEPT !.name = p]}] \in Config
    BY <1>1, <2>2, WithNodes
  <2> QED
    BY <2>1, <2>3
<1>8. CASE DeleteNode
  <2>1. PICK n \in db.nodes : Edit([db EXCEPT !.nodes = db.nodes \ {n}], {})
    BY <1>8 DEF DeleteNode
  <2>2. [db EXCEPT !.nodes = db.nodes \ {n}] \in Config
    BY <1>1, WithNodes
  <2> QED
    BY <2>1, <2>2
<1> QED
  BY <1>3, <1>4, <1>5, <1>6, <1>7, <1>8

(* It is not in the way of what the runtime has, but the response is due. *)
LEMMA EditStep ==
  ASSUME ServerInv, NEW c \in Config, NEW us \in SUBSET Ids, Edit(c, us)
  PROVE  ServerInv'
<1> USE DEF Edit, bridge, process, server
<1>1. /\ edits \in Nat /\ unsent \in Nat /\ unsent <= edits /\ mapped <= edits
      /\ mapped \in Nat /\ MaxEdits \in Nat /\ edits' = edits + 1 /\ edits' <= MaxEdits
  BY AddressSpaceAssumption DEF ServerInv, TypeOK
<1>2. TypeOK'
  <2>1. edits' \in 0..MaxEdits /\ unsent' \in 0..edits' /\ mapped' \in 0..edits'
    BY <1>1
  <2> QED
    BY <2>1 DEF ServerInv, TypeOK
<1>3. unsent' # 0 /\ mapped' # edits'
  BY <1>1
<1>4. FilesInv' /\ FileIsCurrent' /\ ConfigIsFile' /\ FileIsServed' /\ TableInv' /\ NoServer'
  BY <1>3 DEF ServerInv, FilesInv, FileIsCurrent, ConfigIsFile, FileIsServed, Serves, TableInv, NoServer, Registered
<1> QED
  BY <1>2, <1>3, <1>4 DEF ServerInv, MapInv

(* A runtime that has ended has no server. *)
LEMMA EndedTyped ==
  ASSUME TypeOK, Ended, UNCHANGED <<db, used, edits, unsent, map, mapped, starts>>,
         file' = Torn \/ file' \in Config
  PROVE  TypeOK' /\ TableInv' /\ config' \in Config /\ IsConsistent(config')
<1>1. /\ config' \in Config /\ IsConsistent(config')
      /\ table' \in Seq(Uris) /\ DOMAIN table' = {} /\ DOMAIN values' = {}
      /\ pipe' \in Seq([node : Ids, id : Id, sent : Nat]) /\ Len(pipe') = 0
  BY EmptyConfig DEF Ended, NoMap
<1>2. TypeOK'
  <2>1. db' \in Config /\ IsConsistent(db') /\ unsent' \in 0..edits' /\ mapped' \in 0..edits'
    BY DEF TypeOK
  <2>2. Len(pipe') <= MaxPipe
    BY <1>1, AddressSpaceAssumption
  <2>3. /\ runtime' \in {"off", "created", "up", "reloading"} /\ reload' \in BOOLEAN
        /\ objects' \subseteq [ns : Nat, space : Spaces]
    BY DEF Ended
  <2> QED
    BY <1>1, <2>1, <2>2, <2>3 DEF TypeOK
<1>3. TableInv'
  BY <1>1 DEF TableInv, IsInjective
<1> QED
  BY <1>1, <1>2, <1>3

LEMMA WriteStep ==
  ASSUME ServerInv, BeginWrite \/ EndWrite \/ Start
  PROVE  ServerInv'
<1> USE DEF database, bridge, process, server
<1>0. /\ TypeOK /\ db \in Config /\ IsConsistent(db) /\ unsent \in Nat /\ edits \in Nat
      /\ unsent <= edits
  BY DEF ServerInv, TypeOK
<1>1. CASE BeginWrite
  <2>0. unsent' \in 0..edits
    BY <1>0, <1>1 DEF BeginWrite
  <2>1. TypeOK'
    BY <1>1, <2>0 DEF BeginWrite, ServerInv, TypeOK
  <2>2. FilesInv'
    BY <1>1 DEF BeginWrite, ServerInv, FilesInv
  <2>3. runtime = "off" \/ file' = Torn
    BY <1>1 DEF BeginWrite
  <2>4. FileIsCurrent' /\ ConfigIsFile' /\ FileIsServed'
    BY <1>1, <2>3 DEF BeginWrite, FileIsCurrent, ConfigIsFile, FileIsServed
  <2>5. TableInv' /\ NoServer'
    BY <1>1 DEF BeginWrite, ServerInv, TableInv, NoServer
  <2>6. MapInv'
    BY <1>1 DEF BeginWrite, ServerInv, MapInv, buildNodeIdMap, NodeWith
  <2> QED
    BY <2>1, <2>2, <2>4, <2>5, <2>6 DEF ServerInv
<1>2. CASE EndWrite
  <2>1. file' = db' /\ db' = db /\ UNCHANGED <<database, bridge, starts>>
    BY <1>2 DEF EndWrite
  <2>2. \/ runtime = "off" /\ UNCHANGED process
        \/ Ended
        \/ reload' = TRUE /\ UNCHANGED <<runtime, config, server, pipe>>
    BY <1>2 DEF EndWrite, Signal
  <2>3. MapInv'
    BY <2>1 DEF ServerInv, MapInv, buildNodeIdMap, NodeWith
  <2>4. FileIsCurrent'
    BY <2>1 DEF FileIsCurrent
  <2>5. CASE runtime = "off" /\ UNCHANGED process
    <3>1. TypeOK'
      BY <1>0, <2>1, <2>5 DEF ServerInv, TypeOK
    <3>2. FilesInv' /\ ConfigIsFile' /\ FileIsServed' /\ TableInv' /\ NoServer'
      BY <1>0, <2>1, <2>5 DEF ServerInv, FilesInv, ConfigIsFile, FileIsServed, TableInv, NoServer
    <3> QED
      BY <2>3, <2>4, <3>1, <3>2 DEF ServerInv
  <2>6. CASE Ended
    <3>1. TypeOK'
      BY <1>0, <2>1, <2>6, EndedTyped DEF ServerInv
    <3>2. FilesInv' /\ ConfigIsFile' /\ FileIsServed' /\ TableInv' /\ NoServer'
      BY <1>0, <2>1, <2>6, EndedTyped
      DEF ServerInv, FilesInv, ConfigIsFile, FileIsServed, NoServer, Ended
    <3> QED
      BY <2>3, <2>4, <3>1, <3>2 DEF ServerInv
  <2>7. CASE reload' = TRUE /\ UNCHANGED <<runtime, config, server, pipe>>
    <3>0. runtime \notin {"off", "created"} \/ NoServer'
      BY <2>7 DEF ServerInv, NoServer
    <3>1. TypeOK'
      BY <1>0, <2>1, <2>7 DEF ServerInv, TypeOK
    <3>2. FilesInv' /\ ConfigIsFile' /\ FileIsServed' /\ TableInv' /\ NoServer'
      BY <1>0, <2>1, <2>7 DEF ServerInv, FilesInv, ConfigIsFile, FileIsServed, TableInv, NoServer
    <3> QED
      BY <2>3, <2>4, <3>1, <3>2 DEF ServerInv
  <2> QED
    BY <2>2, <2>5, <2>6, <2>7
<1>3. CASE Start
  <2>0. starts' \in 0..MaxStarts
    BY <1>3, AddressSpaceAssumption DEF Start, ServerInv, TypeOK
  <2>1. TypeOK'
    BY <1>0, <1>3, <2>0 DEF Start, ServerInv, TypeOK
  <2>2. FilesInv' /\ FileIsCurrent' /\ ConfigIsFile' /\ FileIsServed'
    BY <1>0, <1>3 DEF Start, ServerInv, FilesInv, FileIsCurrent, ConfigIsFile, FileIsServed
  <2>3. TableInv' /\ NoServer'
    BY <1>3 DEF Start, ServerInv, TableInv, NoServer
  <2>4. MapInv'
    BY <1>3 DEF Start, ServerInv, MapInv, buildNodeIdMap, NodeWith
  <2> QED
    BY <2>1, <2>2, <2>3, <2>4 DEF ServerInv
<1> QED
  BY <1>1, <1>2, <1>3

LEMMA RuntimeStep ==
  ASSUME ServerInv, CreateServer \/ BeginReload \/ FinishReload \/ ipc_process \/ Exit
  PROVE  ServerInv'
<1> USE DEF database, bridge, process, server
<1>0. /\ TypeOK /\ TableInv /\ FilesInv /\ UNCHANGED <<database, file, bridge, starts>>
      /\ DOMAIN values \subseteq Id /\ table \in Seq(Uris)
      /\ file # Torn => file \in Config /\ IsConsistent(file)
      /\ config \in Config /\ IsConsistent(config)
  BY DEF ServerInv, TypeOK, FilesInv, CreateServer, BeginReload, FinishReload, ipc_process, Exit
<1>1. MapInv'
  BY <1>0 DEF ServerInv, MapInv, buildNodeIdMap, NodeWith
<1>2. CASE Ended
  <2>1. TypeOK'
    BY <1>0, <1>2, EndedTyped DEF TypeOK
  <2>2. FilesInv' /\ FileIsCurrent' /\ ConfigIsFile' /\ FileIsServed' /\ TableInv' /\ NoServer'
    BY <1>0, <1>2, EndedTyped
    DEF FilesInv, FileIsCurrent, ConfigIsFile, FileIsServed, NoServer, Ended
  <2> QED
    BY <1>1, <2>1, <2>2 DEF ServerInv
<1>3. ASSUME NEW c \in Config, IsConsistent(c), NEW os \in SUBSET objects,
             NEW vs \in SUBSET DOMAIN values, build(c, os, vs),
             runtime' = "up", UNCHANGED pipe, reload' \in BOOLEAN,
             config' \in Config, IsConsistent(config'), runtime # "off",
             reload' = FALSE /\ file # Torn =>
               c = file /\ \A v \in vs : Top(v) \notin clearedRoots(c)
      PROVE  ServerInv'
  <2>1. /\ Grown(c, table') /\ table' \in Seq(Uris)
        /\ objects' \subseteq [ns : Nat, space : Spaces]
        /\ DOMAIN values' = vs \cup {ServedId(n, c, table') : n \in c.nodes}
        /\ \A v \in DOMAIN values' : v \in Id /\ values'[v] \in Shown
        /\ TableInv'
    BY <1>0, <1>3, BuildRows
  <2>2. TypeOK'
    BY <1>0, <1>3, <2>1 DEF TypeOK
  <2>3. FilesInv' /\ FileIsCurrent' /\ ConfigIsFile' /\ NoServer'
    BY <1>0, <1>3 DEF ServerInv, FilesInv, FileIsCurrent, ConfigIsFile, NoServer
  <2>4. FileIsServed'
    <3>1. ASSUME ~ reload', file # Torn PROVE Serves(file, table', DOMAIN values')
      <4>1. c = file /\ \A v \in vs : Top(v) \notin clearedRoots(c)
        BY <1>3, <3>1
      <4>2. Serves(c, table', vs \cup {ServedId(n, c, table') : n \in c.nodes})
        BY <1>0, <1>3, <2>1, <4>1, BuildServes
      <4> QED
        BY <2>1, <4>1, <4>2
    <3> QED
      BY <1>0, <3>1 DEF FileIsServed
  <2> QED
    BY <1>1, <2>1, <2>2, <2>3, <2>4 DEF ServerInv
<1>4. CASE CreateServer /\ file # Torn
  <2>1. build(file, {}, {}) /\ runtime' = "up" /\ UNCHANGED <<reload, config, pipe>>
        /\ runtime = "created"
    BY <1>4 DEF CreateServer
  <2>2. {} \in SUBSET objects /\ {} \in SUBSET DOMAIN values /\ reload' \in BOOLEAN
    BY <1>0, <2>1 DEF TypeOK
  <2> QED
    BY <1>0, <1>3, <1>4, <2>1, <2>2
<1>5. CASE BeginReload
  <2>1. TypeOK' /\ FilesInv'
    BY <1>0, <1>5 DEF BeginReload, TypeOK, FilesInv
  <2>2. FileIsCurrent' /\ ConfigIsFile' /\ NoServer' /\ TableInv'
    BY <1>0, <1>5 DEF BeginReload, ServerInv, FileIsCurrent, ConfigIsFile, NoServer, TableInv
  <2>3. FileIsServed'
    BY <1>0, <1>5 DEF BeginReload, FileIsServed
  <2> QED
    BY <1>1, <2>1, <2>2, <2>3 DEF ServerInv
<1>6. CASE FinishReload
  <2>0. /\ runtime = "reloading" /\ runtime' = "up" /\ config' = Empty
        /\ UNCHANGED <<reload, pipe>>
    BY <1>6 DEF FinishReload
  <2>1. CASE file = Torn
    <3>1. build(config, objects, DOMAIN values)
      BY <1>6, <2>1 DEF FinishReload
    <3> QED
      BY <1>0, <1>3, <2>0, <2>1, <3>1, EmptyConfig DEF TypeOK
  <2>2. CASE file # Torn
    <3> DEFINE os == objects \ clearedRoots(file)
               vs == DOMAIN values \ clearedVariables(file)
    <3>1. build(config, os, vs)
      BY <1>6, <2>2 DEF FinishReload
    <3>2. reload' = FALSE => config = file
      BY <2>0, <2>2 DEF ServerInv, ConfigIsFile
    <3>3. \A v \in vs : Top(v) \notin clearedRoots(file)
      BY DEF clearedVariables, Top
    <3>4. os \in SUBSET objects /\ vs \in SUBSET DOMAIN values
      OBVIOUS
    <3>5. reload' \in BOOLEAN /\ runtime # "off" /\ config' \in Config /\ IsConsistent(config')
      BY <1>0, <2>0, EmptyConfig DEF TypeOK
    <3> HIDE DEF os, vs
    <3> QED
      BY <1>0, <1>3, <2>0, <3>1, <3>2, <3>3, <3>4, <3>5
  <2> QED
    BY <2>1, <2>2
<1>7. CASE ipc_process
  <2> DEFINE u == Head(pipe)
  <2>1. /\ runtime = "up" /\ pipe # <<>> /\ pipe' = Tail(pipe)
        /\ values' = [v \in DOMAIN values |->
                        IF v = u.id THEN [node |-> u.node, sent |-> u.sent] ELSE values[v]]
        /\ UNCHANGED <<runtime, reload, config, table, objects>>
    BY <1>7 DEF ipc_process
  <2>2. /\ u \in [node : Ids, id : Id, sent : Nat]
        /\ pipe' \in Seq([node : Ids, id : Id, sent : Nat]) /\ Len(pipe') <= MaxPipe
    <3>1. pipe \in Seq([node : Ids, id : Id, sent : Nat]) /\ Len(pipe) <= MaxPipe /\ MaxPipe \in Nat
      BY <1>0, AddressSpaceAssumption DEF TypeOK
    <3>2. u \in [node : Ids, id : Id, sent : Nat] /\ pipe' \in Seq([node : Ids, id : Id, sent : Nat])
          /\ Len(pipe') <= Len(pipe)
      BY <2>1, <3>1, Queue
    <3>3. Len(pipe) \in Nat /\ Len(pipe') \in Nat
      BY <3>1, <3>2
    <3> QED
      BY <3>1, <3>2, <3>3
  <2>3. [node |-> u.node, sent |-> u.sent] \in Shown
    BY <2>2 DEF Shown
  <2>4. DOMAIN values' = DOMAIN values /\ \A v \in DOMAIN values' : values'[v] \in Shown
    BY <1>0, <2>1, <2>3 DEF TypeOK
  <2>5. TypeOK'
    BY <1>0, <2>1, <2>2, <2>4 DEF TypeOK
  <2>6. FilesInv' /\ FileIsCurrent' /\ ConfigIsFile' /\ NoServer'
    BY <1>0, <2>1 DEF ServerInv, FilesInv, FileIsCurrent, ConfigIsFile, NoServer
  <2>7. FileIsServed' /\ TableInv'
    BY <1>0, <2>1, <2>4 DEF ServerInv, FileIsServed, TableInv
  <2> QED
    BY <1>1, <2>5, <2>6, <2>7 DEF ServerInv
<1> QED
  BY <1>2, <1>4, <1>5, <1>6, <1>7 DEF CreateServer, Exit

LEMMA MapStep ==
  ASSUME ServerInv, NEW u \in used, handleValueUpdates(u)
  PROVE  ServerInv'
<1> USE DEF database, bridge, process, server
<1>0. TypeOK /\ edits \in Nat /\ u \in Ids
  BY DEF ServerInv, TypeOK
<1>1. \/ UNCHANGED <<map, mapped>>
      \/ map' = buildNodeIdMap /\ mapped' = edits
  BY DEF handleValueUpdates
<1>2. UNCHANGED <<database, file, runtime, reload, config, server, starts>>
  BY DEF handleValueUpdates
<1>3. DOMAIN map' \subseteq Ids /\ (\A w \in DOMAIN map' : map'[w] \in Id) /\ mapped' \in 0..edits
  BY <1>0, <1>1, MapTyped DEF TypeOK
<1>4. pipe' \in Seq([node : Ids, id : Id, sent : Nat]) /\ Len(pipe') <= MaxPipe
  <2>1. /\ pipe \in Seq([node : Ids, id : Id, sent : Nat]) /\ Len(pipe) <= MaxPipe
        /\ Len(pipe) < MaxPipe /\ MaxPipe \in Nat
    BY <1>0, AddressSpaceAssumption DEF TypeOK, handleValueUpdates
  <2>2. pipe' = pipe \/ (u \in DOMAIN map' /\ pipe' = Append(pipe, [node |-> u, id |-> map'[u], sent |-> edits]))
    BY DEF handleValueUpdates
  <2>3. u \in DOMAIN map' => [node |-> u, id |-> map'[u], sent |-> edits] \in [node : Ids, id : Id, sent : Nat]
    BY <1>0, <1>3
  <2> DEFINE rec == [node |-> u, id |-> map'[u], sent |-> edits]
  <2>4. CASE u \in DOMAIN map' /\ pipe' = Append(pipe, rec)
    <3> HIDE DEF rec
    <3>1. pipe' \in Seq([node : Ids, id : Id, sent : Nat]) /\ Len(pipe') = Len(pipe) + 1
      BY <2>1, <2>3, <2>4, Queue DEF rec
    <3>2. Len(pipe) \in Nat
      BY <2>1
    <3> QED
      BY <2>1, <3>1, <3>2
  <2> QED
    BY <2>1, <2>2, <2>4
<1>5. TypeOK'
  BY <1>0, <1>2, <1>3, <1>4 DEF TypeOK
<1>6. FilesInv' /\ FileIsCurrent' /\ ConfigIsFile' /\ FileIsServed' /\ TableInv' /\ NoServer'
  BY <1>2 DEF ServerInv, FilesInv, FileIsCurrent, ConfigIsFile, FileIsServed, TableInv, NoServer
<1>7. MapInv'
  BY <1>1, <1>2 DEF ServerInv, MapInv, buildNodeIdMap, NodeWith
<1> QED
  BY <1>5, <1>6, <1>7 DEF ServerInv

(* Nothing a route, the writer of the file or the runtime does breaks it. *)
THEOREM AddressSpaceInvariant == Spec => []ServerInv
<1>1. Init => ServerInv
  <2> SUFFICES ASSUME Init PROVE ServerInv
    OBVIOUS
  <2>1. /\ DOMAIN table = {} /\ DOMAIN values = {} /\ DOMAIN map = {} /\ db \in Config
        /\ table \in Seq(Uris) /\ Len(table) = 0
        /\ pipe \in Seq([node : Ids, id : Id, sent : Nat]) /\ Len(pipe) = 0
    BY DEF Init, NoMap
  <2>2. used \subseteq Ids
    BY DEF Init, Config, Node
  <2>3. TypeOK
    <3>1. edits \in 0..MaxEdits /\ unsent \in 0..edits /\ mapped \in 0..edits /\ starts \in 0..MaxStarts
      BY AddressSpaceAssumption DEF Init
    <3>2. Len(pipe) <= MaxPipe
      BY <2>1, AddressSpaceAssumption
    <3>3. /\ runtime \in {"off", "created", "up", "reloading"} /\ reload \in BOOLEAN
          /\ file \in Config /\ config \in Config /\ IsConsistent(db)
          /\ objects \subseteq [ns : Nat, space : Spaces]
      BY EmptyConfig DEF Init
    <3> QED
      BY <2>1, <2>2, <3>1, <3>2, <3>3 DEF TypeOK
  <2>4. FilesInv /\ FileIsCurrent /\ ConfigIsFile /\ FileIsServed /\ NoServer /\ MapInv
    BY EmptyConfig DEF Init, FilesInv, FileIsCurrent, ConfigIsFile, FileIsServed, NoServer, MapInv
  <2>5. TableInv
    BY <2>1 DEF TableInv, IsInjective
  <2> QED
    BY <2>3, <2>4, <2>5 DEF ServerInv
<1>2. ServerInv /\ [Next]_vars => ServerInv'
  <2> SUFFICES ASSUME ServerInv, [Next]_vars PROVE ServerInv'
    OBVIOUS
  <2>1. CASE PostNamespace \/ PutNamespace \/ DeleteNamespace \/ PostNode \/ PutNode \/ DeleteNode
    <3>1. PICK c \in Config, us \in SUBSET Ids : Edit(c, us)
      BY <2>1, EditsTyped DEF ServerInv
    <3> QED
      BY <3>1, EditStep
  <2>2. CASE UNCHANGED vars
    <3>1. TypeOK' /\ FilesInv' /\ FileIsCurrent' /\ ConfigIsFile'
      BY <2>2 DEF ServerInv, TypeOK, FilesInv, FileIsCurrent, ConfigIsFile, vars, database, bridge, process, server
    <3>2. FileIsServed' /\ TableInv' /\ NoServer' /\ MapInv'
      BY <2>2 DEF ServerInv, FileIsServed, TableInv, NoServer, MapInv, buildNodeIdMap, NodeWith,
                  vars, database, bridge, process, server
    <3> QED
      BY <3>1, <3>2 DEF ServerInv
  <2> QED
    BY <2>1, <2>2, WriteStep, RuntimeStep, MapStep DEF Next
<1> QED
  BY <1>1, <1>2, PTL DEF Spec

(* The variables of the database, the server, the bridge and the file. *)
THEOREM AddressSpaceTypeCorrect == Spec => []TypeOK
<1>1. ServerInv => TypeOK
  BY DEF ServerInv
<1> QED
  BY <1>1, AddressSpaceInvariant, PTL

(* When nothing is left to do, the server has the nodes of the database.   *)
THEOREM StoredIsServed == Spec => []ServedAsStored
<1>1. ServerInv => ServedAsStored
  <2> SUFFICES ASSUME ServerInv, Settled PROVE
         /\ \A n \in db.nodes : n.uri \in Registered /\ ServedId(n, db, table) \in DOMAIN values
         /\ \A v \in DOMAIN values : Top(v) \in RootsOf(db, table)
              => \E n \in db.nodes : v = ServedId(n, db, table)
    BY DEF ServedAsStored, Top
  <2>1. file = db
    BY DEF ServerInv, FileIsCurrent, Settled
  <2>2. Serves(db, table, DOMAIN values)
    BY <2>1 DEF ServerInv, FileIsServed, Settled
  <2> QED
    BY <2>2 DEF Serves, IsIn, Registered
<1> QED
  BY <1>1, AddressSpaceInvariant, PTL

(* A map as new as the database names no other node of it. *)
THEOREM MapIsRight == Spec => []FreshMapIsRight
<1>1. ServerInv => FreshMapIsRight
  <2> SUFFICES ASSUME ServerInv, mapped = edits, NEW u \in DOMAIN map, NEW n \in db.nodes,
                      map[u] = ServedId(n, db, table)
               PROVE  n.id = u
    BY DEF FreshMapIsRight
  <2>1. map = buildNodeIdMap /\ TypeOK /\ IsConsistent(db)
    BY DEF ServerInv, MapInv, NoMap, TypeOK
  <2> DEFINE m == NodeWith(u)
  <2>2. m \in db.nodes /\ m.id = u /\ GeneratedId(m, db) = ServedId(n, db, table)
    BY <2>1, MapTyped
  <2>3. SpaceOf(m, db).name = SpaceOf(n, db).name /\ m.name = n.name
    BY <2>2 DEF GeneratedId, ServedId
  <2>4. /\ SpaceOf(m, db) \in db.spaces /\ SpaceOf(m, db).uri = m.uri
        /\ SpaceOf(n, db) \in db.spaces /\ SpaceOf(n, db).uri = n.uri
    BY <2>1, <2>2, SpaceOfNode
  <2>5. m.uri = n.uri
    BY <2>1, <2>3, <2>4 DEF IsConsistent
  <2>6. m = n
    BY <2>1, <2>2, <2>3, <2>5 DEF IsConsistent
  <2> QED
    BY <2>2, <2>6
<1> QED
  BY <1>1, AddressSpaceInvariant, PTL
=============================================================================

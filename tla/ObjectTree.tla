----------------------------- MODULE ObjectTree -----------------------------
(***************************************************************************)
(* The rows behind the address space: namespaces, object nodes that hold   *)
(* object nodes, and variables that hang from them; what the requests do   *)
(* to these rows, and what is made of them: the tree of the UI and of the  *)
(* config, the ids that the runtime serves, the file of an export.         *)
(*                                                                         *)
(* A request is one uninterrupted handler, but its statements commit one   *)
(* by one: one that fails, or a crash between two, leaves the earlier ones *)
(* behind.  An object node is known by its rowid, which grows, so that a   *)
(* parent has a smaller one; rows have no other order.  A name is the      *)
(* sequence of the words between its separators: the dot for the ids of    *)
(* the config, the slash for the paths of the file.                        *)
(***************************************************************************)
EXTENDS Naturals, SequencesExt, FiniteSetsExt

CONSTANTS
  Spaces,       \* names of namespaces
  Words,        \* what names are made of
  MaxDepth,     \* MAX_DEPTH
  MaxObjects,   \* rows of object_nodes (bound)
  MaxVariables  \* rows of nodes (bound)

ASSUME ObjectTreeAssumption ==
  MaxDepth \in Nat \ {0} /\ MaxObjects \in Nat /\ MaxVariables \in Nat

VARIABLES
  spaces,    \* rows of namespaces
  objects,   \* rows of object_nodes
  variables  \* rows of nodes, by namespace and name: the parent

vars == <<spaces, objects, variables>>

Root == 0  \* a parent that is NULL
Ids == 1 .. MaxObjects
Live == DOMAIN objects

PlainNames == {<<w>> : w \in Words}
Names == PlainNames \cup {n \in Words \X Words : n[1] # n[2]}

Object == [space : Spaces, parent : Ids \cup {Root}, name : Names]
Variable == [space : Spaces, name : PlainNames]

(* UNIQUE(namespace_id, parent_object_node_id, name) and the index of the  *)
(* rows whose parent is NULL.                                              *)
IsUnique(os) ==
  \A i, j \in DOMAIN os : i # j => os[i] # os[j]

(* Rows refer to rows that exist, and no two object nodes of one parent    *)
(* and namespace have one name.                                            *)
TypeOK ==
  /\ spaces \subseteq Spaces
  /\ Live \subseteq Ids /\ objects \in [Live -> Object] /\ IsUnique(objects)
  /\ DOMAIN variables \subseteq Variable
  /\ \A i \in Live : objects[i].space \in spaces /\ objects[i].parent \in Live \cup {Root}
  /\ \A v \in DOMAIN variables : v.space \in spaces /\ variables[v] \in Live \cup {Root}

Init ==
  /\ spaces = {}
  /\ objects = [i \in {} |-> 0]
  /\ variables = [v \in {} |-> Root]

-----------------------------------------------------------------------------
(***************************************************************************)
(* Namespaces.                                                             *)
(***************************************************************************)
PostNamespace ==
  \E s \in Spaces \ spaces :
    /\ spaces' = spaces \cup {s}
    /\ UNCHANGED <<objects, variables>>

In(s) == {i \in Live : objects[i].space = s}

(* ON DELETE SET NULL. *)
Detached(gone) ==
  [i \in Live \ gone |->
     IF objects[i].parent \in gone THEN [objects[i] EXCEPT !.parent = Root] ELSE objects[i]]

(* The cascade deletes row by row.  A child whose parent goes before it    *)
(* stands for a moment at the root, where its name may be taken: the       *)
(* statement fails and is undone.                                          *)
CascadeFails(s) ==
  \E i \in In(s) : ~ IsUnique(Detached({j \in In(s) : j <= i}))

Bug_OnlyRootsGo(s) ==
  /\ s \in spaces /\ ~ CascadeFails(s)
  /\ spaces' = spaces \ {s}
  /\ objects' = Detached({i \in In(s) : objects[i].parent = Root})
  /\ variables' = [v \in {v \in DOMAIN variables : v.space # s} |-> variables[v]]

DeleteNamespace(s) ==
  /\ s \in spaces /\ ~ CascadeFails(s)
  /\ spaces' = spaces \ {s}
  /\ objects' = Detached(In(s))
  /\ variables' = [v \in {v \in DOMAIN variables : v.space # s} |->
                     IF variables[v] \in In(s) THEN Root ELSE variables[v]]

-----------------------------------------------------------------------------
(***************************************************************************)
(* Object nodes.  The parent need not be of the same namespace.            *)
(***************************************************************************)
depth[i \in Live \cup {Root}] ==
  IF i = Root THEN 0 ELSE 1 + depth[objects[i].parent]

DepthAllows(p) == depth[p] < MaxDepth

PostObject ==
  \E o \in Object :
    LET id == 1 + Max(Live \cup {0})
        new == [i \in Live \cup {id} |-> IF i = id THEN o ELSE objects[i]]
    IN  /\ id \in Ids
        /\ o.space \in spaces
        /\ o.parent \in Live \cup {Root} /\ DepthAllows(o.parent)
        /\ IsUnique(new)
        /\ objects' = new
        /\ UNCHANGED <<spaces, variables>>

ToParent(i) ==
  [v \in DOMAIN variables |->
     IF variables[v] = i THEN objects[i].parent ELSE variables[v]]

ChildrenToParent(i) ==
  [j \in Live |->
     IF objects[j].parent = i THEN [objects[j] EXCEPT !.parent = objects[i].parent] ELSE objects[j]]

Bug_DeleteObjectToRoot(i) ==
  /\ i \in Live
  /\ variables' = [v \in DOMAIN variables |-> IF variables[v] = i THEN Root ELSE variables[v]]
  /\ objects' = Detached({i})
  /\ UNCHANGED spaces

(* The children move up after the variables, and may find their name, or   *)
(* that of the object node itself, taken: then only the variables moved.   *)
DeleteObject(i) ==
  /\ i \in Live
  /\ variables' = ToParent(i)
  /\ IF IsUnique(ChildrenToParent(i))
     THEN objects' = [j \in Live \ {i} |-> ChildrenToParent(i)[j]]
     ELSE UNCHANGED objects
  /\ UNCHANGED spaces

(* The API crashes before the last statement. *)
DeleteObjectCut(i) ==
  /\ i \in Live
  /\ variables' = ToParent(i)
  /\ \/ UNCHANGED objects
     \/ IsUnique(ChildrenToParent(i)) /\ objects' = ChildrenToParent(i)
  /\ UNCHANGED spaces

-----------------------------------------------------------------------------
(***************************************************************************)
(* Variables.                                                              *)
(***************************************************************************)
CanCreate(v) == v.space \in spaces /\ v \notin DOMAIN variables

With(new) ==
  [v \in DOMAIN variables \cup DOMAIN new |->
     IF v \in DOMAIN variables THEN variables[v] ELSE new[v]]

PostNode ==
  \E v \in Variable, p \in Live \cup {Root} :
    /\ Cardinality(DOMAIN variables) < MaxVariables
    /\ CanCreate(v)
    /\ variables' = With([w \in {v} |-> p])
    /\ UNCHANGED <<spaces, objects>>

PutNode ==
  \E v \in DOMAIN variables, w \in Variable, p \in Live \cup {Root} :
    LET others == DOMAIN variables \ {v}
    IN  /\ w.space = v.space /\ w \notin others
        /\ variables' = [x \in others \cup {w} |-> IF x = w THEN p ELSE variables[x]]
        /\ UNCHANGED <<spaces, objects>>

DeleteNode ==
  \E v \in DOMAIN variables :
    /\ variables' = [w \in DOMAIN variables \ {v} |-> variables[w]]
    /\ UNCHANGED <<spaces, objects>>

-----------------------------------------------------------------------------
(***************************************************************************)
(* The file.  Its paths go on in other namespaces; the import looks in one *)
(* namespace, part by part.                                                *)
(***************************************************************************)
exportPath[i \in Live \cup {Root}] ==
  IF i = Root THEN <<>> ELSE exportPath[objects[i].parent] \o objects[i].name

Bug_ReachedByName(s, path) ==
  IF path = <<>> THEN {Root} ELSE {i \in In(s) : objects[i].name = <<Last(path)>>}

Reached(s, path) ==
  LET found[k \in 0 .. Len(path)] ==
        IF k = 0 THEN {Root}
        ELSE {i \in In(s) : objects[i].name = <<path[k]>> /\ objects[i].parent \in found[k - 1]}
  IN  found[Len(path)]

Paths == UNION {[1 .. k -> Words] : k \in 0 .. MaxDepth}

(* A file gives variables their paths.  Each row is created or refused for *)
(* itself; the files with one row per variable that may be created do.     *)
Import ==
  \E vs \in {vs \in SUBSET Variable : Cardinality(vs) <= MaxVariables} : \E file \in [vs -> Paths] :
    LET good == {v \in vs : CanCreate(v) /\ Reached(v.space, file[v]) # {}}
    IN  /\ good # {} /\ Cardinality(DOMAIN variables \cup good) <= MaxVariables
        /\ variables' = With([v \in good |-> CHOOSE i \in Reached(v.space, file[v]) : TRUE])
        /\ UNCHANGED <<spaces, objects>>

-----------------------------------------------------------------------------
(***************************************************************************)
(* The tree of a namespace, level by level, as the UI gets it and as the   *)
(* config nests it, and the ids below the namespace.                       *)
(***************************************************************************)
Bug_RootsOfNull(s) == {i \in In(s) : objects[i].parent = Root}

RootsOf(s) == {i \in In(s) : objects[i].parent \notin In(s)}

buildTree(s) ==
  LET level[k \in 1 .. MaxDepth] ==
        IF k = 1 THEN RootsOf(s) ELSE {i \in In(s) : objects[i].parent \in level[k - 1]}
  IN  UNION {level[k] : k \in 1 .. MaxDepth}

objectPath[i \in Live] ==
  LET p == objects[i].parent
  IN  IF p \in In(objects[i].space) THEN objectPath[p] \o objects[i].name ELSE objects[i].name

ParentPath(v) == IF variables[v] \in In(v.space) THEN objectPath[variables[v]] ELSE <<>>

Bug_IdWithoutFolders(v) == v.name

VariableId(v) == ParentPath(v) \o v.name

(* The object nodes are there before the variables. *)
IsServed(v) ==
  /\ VariableId(v) \notin {objectPath[i] : i \in buildTree(v.space)}
  /\ \A w \in DOMAIN variables \ {v} : w.space = v.space => VariableId(w) # VariableId(v)

-----------------------------------------------------------------------------
Next ==
  \/ PostNamespace
  \/ \E s \in Spaces : DeleteNamespace(s)
  \/ PostObject
  \/ \E i \in Ids : DeleteObject(i) \/ DeleteObjectCut(i)
  \/ PostNode
  \/ PutNode
  \/ DeleteNode
  \/ Import

Spec == Init /\ [][Next]_vars

-----------------------------------------------------------------------------
MayMove(p, q) ==
  \/ q = p
  \/ p # Root /\ q = objects[p].parent
  \/ p # Root /\ q = Root /\ objects[p].space \notin spaces'

(* A deletion, also one that fails or is cut halfway, takes no variable   *)
(* with it, and moves what remains one level up and never elsewhere; only  *)
(* the end of a namespace takes variables away, or sends what hung from    *)
(* its object nodes to the root of another one.                            *)
DeletesMoveUp ==
  [][\/ PutNode
     \/ DeleteNode
     \/ /\ \A v \in DOMAIN variables : v.space \in spaces' =>
              v \in DOMAIN variables' /\ MayMove(variables[v], variables'[v])
        /\ \A i \in Live \cap Live' : MayMove(objects[i].parent, objects'[i].parent)]_vars

(* Every object node of a namespace is in its tree, those too whose parent *)
(* is of another namespace, which buildTree says should not happen; and no *)
(* sequence of creations and deletions makes it deeper than MAX_DEPTH.     *)
TreeComplete == \A s \in spaces : buildTree(s) = In(s)

InOneSpace(v) ==
  LET above[i \in Live \cup {Root}] ==
        i = Root \/ (objects[i].space = v.space /\ Len(objects[i].name) = 1 /\ above[objects[i].parent])
  IN  above[variables[v]]

(* What an export says of a variable leads an import back to its place, if *)
(* the path stays in the namespace and no name on it holds a slash.        *)
ExportImports ==
  \A v \in DOMAIN variables :
    InOneSpace(v) => Reached(v.space, exportPath[variables[v]]) = {variables[v]}

(* Without dots in names, the id of a variable is free when the runtime    *)
(* creates it, unless an object node has its name at its place.            *)
ServedUnlessNamesake ==
  \A v \in DOMAIN variables :
    (\A i \in In(v.space) : objects[i].name \in PlainNames) =>
      \/ IsServed(v)
      \/ \E i \in In(v.space) :
           objects[i].name = v.name /\ objectPath[i] = ParentPath(v) \o v.name

(* "SHALL remove the namespace and all associated folders and nodes".      *)
NamespacesDeletable == \A s \in spaces : ~ CascadeFails(s)
=============================================================================

--------------------------- MODULE ObjectTreeProofs ---------------------------
(***************************************************************************)
(* Proofs about ObjectTree, for every number of namespaces, words, rows    *)
(* and levels.  What the model computes along the parents of a row is      *)
(* defined by recursion; the first lemmas show that such a definition has  *)
(* a value, by the least counterexample, and what it is at each row.       *)
(***************************************************************************)
EXTENDS ObjectTree, WellFoundedInduction, TLAPS

(* Some number of a set is the smallest. *)
LEMMA LeastNumber ==
  ASSUME NEW T \in SUBSET Nat, T # {}
  PROVE  \E x \in T : \A y \in T : x <= y
<1>1. IsWellFoundedOn(OpToRel(<, Nat), Nat)
  BY NatLessThanWellFounded
<1>2. PICK x \in T : \A y \in T : ~ (<<y, x>> \in OpToRel(<, Nat))
  BY <1>1, WFMin
<1>3. \A y \in T : ~ (y < x)
  BY <1>2 DEF OpToRel
<1> QED
  BY <1>3

(* And the greatest, if there is a bound. *)
LEMMA GreatestNumber ==
  ASSUME NEW T \in SUBSET Nat, T # {}, NEW n \in Nat, \A x \in T : x <= n
  PROVE  \E x \in T : \A y \in T : y <= x
<1> DEFINE bounds == {b \in Nat : \A x \in T : x <= b}
<1>1. PICK b \in bounds : \A c \in bounds : b <= c
  BY LeastNumber
<1>2. CASE b \in T
  BY <1>1, <1>2
<1>3. CASE b \notin T
  <2>1. \A x \in T : x <= b - 1
    BY <1>1, <1>3
  <2>2. PICK x \in T : TRUE
    OBVIOUS
  <2>3. x \in Nat /\ b \in Nat /\ x <= b - 1
    BY <1>1, <2>1, <2>2
  <2>4. b - 1 \in Nat
    BY <2>3
  <2>5. b - 1 \in bounds
    BY <2>1, <2>4
  <2> QED
    BY <1>1, <2>3, <2>5
<1> QED
  BY <1>2, <1>3

(* above leads from each number of S to a smaller one, and at last to 0. *)
LeadsToZero(above, S) ==
  /\ S \subseteq Nat \ {0}
  /\ above \in [S -> S \cup {0}] /\ \A i \in S : above[i] < i

IsStep(step, S, A) == step \in [S \X A -> A]

(* f is a at 0, and elsewhere what step makes of its value one further up. *)
Solves(f, above, S, A, a, step) ==
  f \in [S \cup {0} -> A] /\ f[0] = a /\ \A i \in S : f[i] = step[<<i, f[above[i]]>>]

(***************************************************************************)
(* What is defined at each number by its value at a smaller one, or at 0   *)
(* outright, is a function.  step is a function, so that it can be given.  *)
(***************************************************************************)
LEMMA RecursiveFunction ==
  ASSUME NEW n \in Nat, NEW S \in SUBSET (0 .. n), NEW above, LeadsToZero(above, S),
         NEW A, NEW a \in A, NEW step, IsStep(step, S, A)
  PROVE  \E f : Solves(f, above, S, A, a, step)
<1> DEFINE Upto(m) == {i \in S \cup {0} : i <= m}
           SolvesTo(f, m) == f \in [Upto(m) -> A] /\ f[0] = a
                           /\ \A i \in S : i <= m => f[i] = step[<<i, f[above[i]]>>]
           Unsolved == {m \in Nat : ~ \E f : SolvesTo(f, m)}
<1>0. /\ \A i \in S : i \in Nat /\ i # 0 /\ i <= n /\ above[i] \in S \cup {0} /\ above[i] < i
      /\ \A i \in S \cup {0} : i \in Nat /\ i <= n
  <2>1. \A i \in S : i \in 0 .. n /\ i # 0
    BY DEF LeadsToZero
  <2> QED
    BY <2>1 DEF LeadsToZero
<1>1. SUFFICES ASSUME Unsolved # {} PROVE FALSE
  <2>1. PICK f : SolvesTo(f, n)
    BY <1>1
  <2>2. Upto(n) = S \cup {0} /\ \A i \in S : i <= n
    BY <1>0
  <2> QED
    BY <2>1, <2>2 DEF Solves
<1>2. PICK m \in Unsolved : \A k \in Unsolved : m <= k
  BY <1>1, LeastNumber
<1>3. CASE m = 0
  <2> DEFINE f == [i \in Upto(0) |-> a]
  <2>0. ASSUME NEW i \in S PROVE ~ (i <= 0)
    <3>1. i \in Nat /\ i # 0
      BY <1>0
    <3> QED
      BY <3>1
  <2>1. 0 \in Upto(0)
    OBVIOUS
  <2>2. SolvesTo(f, 0)
    BY <2>0, <2>1
  <2> QED
    BY <1>2, <1>3, <2>2
<1>4. CASE m # 0
  <2>0. m \in Nat /\ m - 1 \in Nat /\ ~ (m <= m - 1)
    BY <1>2, <1>4
  <2>1. m - 1 \notin Unsolved
    BY <1>2, <2>0
  <2>2. PICK f : SolvesTo(f, m - 1)
    BY <2>0, <2>1
  <2>3. CASE m \notin S
    <3>0. \A i \in S \cup {0} : i <= m <=> i <= m - 1
      BY <1>0, <1>4, <2>0, <2>3
    <3>1. Upto(m) = Upto(m - 1) /\ \A i \in S : i <= m => i <= m - 1
      BY <3>0
    <3>2. SolvesTo(f, m)
      BY <2>2, <3>1
    <3> QED
      BY <1>2, <3>2
  <2>4. CASE m \in S
    <3> DEFINE g == [i \in Upto(m) |-> IF i = m THEN step[<<m, f[above[m]]>>] ELSE f[i]]
    <3>1. \A i \in S \cup {0} : i <= m <=> i <= m - 1 \/ i = m
      BY <1>0, <2>0, <2>4
    <3>2. Upto(m) = Upto(m - 1) \cup {m} /\ m \notin Upto(m - 1)
      BY <2>0, <2>4, <3>1
    <3>3. \A i \in S : i <= m => above[i] \in Upto(m - 1)
      <4> SUFFICES ASSUME NEW i \in S, i <= m PROVE above[i] \in Upto(m - 1)
        OBVIOUS
      <4>1. i \in Nat /\ above[i] \in S \cup {0} /\ above[i] \in Nat /\ above[i] < i
        BY <1>0
      <4>2. above[i] <= m - 1
        BY <2>0, <4>1
      <4> QED
        BY <4>1, <4>2
    <3>4. f[above[m]] \in A /\ step[<<m, f[above[m]]>>] \in A
      BY <2>0, <2>2, <2>4, <3>3 DEF IsStep
    <3>5. \A i \in Upto(m - 1) : g[i] = f[i]
      BY <3>2
    <3>6. g \in [Upto(m) -> A]
      BY <2>2, <3>2, <3>4
    <3>7. g[0] = a
      BY <1>4, <2>0, <2>2, <3>5
    <3>8. \A i \in S : i <= m => g[i] = step[<<i, g[above[i]]>>]
      <4> SUFFICES ASSUME NEW i \in S, i <= m PROVE g[i] = step[<<i, g[above[i]]>>]
        OBVIOUS
      <4>1. g[above[i]] = f[above[i]]
        BY <3>3, <3>5
      <4>2. CASE i = m
        <5>1. g[m] = step[<<m, f[above[m]]>>]
          BY <3>2
        <5> QED
          BY <4>1, <4>2, <5>1
      <4>3. CASE i # m
        <5>1. i <= m - 1 /\ i \in Upto(m - 1)
          BY <3>1, <4>3
        <5>2. g[i] = f[i]
          BY <3>5, <5>1
        <5> QED
          BY <2>2, <4>1, <5>1, <5>2
      <4> QED
        BY <4>2, <4>3
    <3>9. SolvesTo(g, m)
      BY <3>6, <3>7, <3>8
    <3> QED
      BY <1>2, <3>9
  <2> QED
    BY <2>3, <2>4
<1> QED
  BY <1>3, <1>4

(* Two functions that agree at 0 and one step further agree everywhere. *)
Agree(f, g, above, S) ==
  f[0] = g[0] /\ \A i \in S : f[above[i]] = g[above[i]] => f[i] = g[i]

LEMMA OneSolution ==
  ASSUME NEW S, NEW above, LeadsToZero(above, S), NEW f, NEW g, Agree(f, g, above, S)
  PROVE  \A i \in S \cup {0} : f[i] = g[i]
<1> USE DEF LeadsToZero, Agree
<1> DEFINE differ == {i \in S : f[i] # g[i]}
<1>1. SUFFICES ASSUME differ # {} PROVE FALSE
  OBVIOUS
<1>2. PICK i \in differ : \A j \in differ : i <= j
  BY <1>1, LeastNumber
<1>3. i \in Nat /\ above[i] \in S \cup {0} /\ above[i] < i
  BY <1>2
<1>4. above[i] \in Nat /\ ~ (i <= above[i])
  <2>1. above[i] \in Nat
    BY <1>3
  <2> QED
    BY <1>3, <2>1
<1>5. above[i] \notin differ
  BY <1>2, <1>4
<1> QED
  BY <1>2, <1>3, <1>5

-----------------------------------------------------------------------------
(* Rowids grow, so that a parent, which is there first, has a smaller one. *)
RowsGrow == \A i \in Live : objects[i].parent < i

RowsInv == TypeOK /\ RowsGrow

(* The parents of the rows, as RecursiveFunction takes them. *)
Parents == [i \in Live |-> objects[i].parent]

LEMMA ParentsAreRows ==
  ASSUME RowsInv
  PROVE  /\ MaxObjects \in Nat /\ Live \in SUBSET (0 .. MaxObjects) /\ Root = 0
         /\ LeadsToZero(Parents, Live)
         /\ \A i \in Live : Parents[i] = objects[i].parent /\ Parents[i] \in Live \cup {0}
<1>1. Live \subseteq 1 .. MaxObjects /\ MaxObjects \in Nat
  BY ObjectTreeAssumption DEF RowsInv, TypeOK, Ids
<1>2. \A i \in Live : Parents[i] = objects[i].parent /\ Parents[i] \in Live \cup {0}
  BY DEF RowsInv, TypeOK, Parents, Root
<1>3. LeadsToZero(Parents, Live)
  <2>1. Parents \in [Live -> Live \cup {0}]
    BY <1>2 DEF Parents
  <2> QED
    BY <1>1, <1>2, <2>1 DEF LeadsToZero, RowsInv, RowsGrow
<1> QED
  BY <1>1, <1>2, <1>3 DEF Root

(* computeDepth: the depth of a row is one more than that of its parent. *)
Depths ==
  /\ depth \in [Live \cup {Root} -> Nat] /\ depth[Root] = 0
  /\ \A i \in Live : depth[i] = 1 + depth[objects[i].parent]

LEMMA DepthOf == RowsInv => Depths
<1> SUFFICES ASSUME RowsInv PROVE Depths
  OBVIOUS
<1> DEFINE step == [x \in Live \X Nat |-> 1 + x[2]]
<1>1. IsStep(step, Live, Nat) /\ 0 \in Nat
  BY DEF IsStep
<1>2. PICK f : Solves(f, Parents, Live, Nat, 0, step)
  <2> HIDE DEF step
  <2> QED
    BY <1>1, ParentsAreRows, RecursiveFunction, Zenon
<1>3. /\ f \in [Live \cup {0} -> Nat] /\ f[0] = 0
      /\ \A i \in Live : f[i] = 1 + f[objects[i].parent]
  BY <1>2, ParentsAreRows DEF Solves
<1>4. f = [i \in Live \cup {Root} |-> IF i = Root THEN 0 ELSE 1 + f[objects[i].parent]]
  BY <1>3, ParentsAreRows DEF LeadsToZero
<1>5. depth = [i \in Live \cup {Root} |-> IF i = Root THEN 0 ELSE 1 + depth[objects[i].parent]]
  BY <1>4 DEF depth
<1>6. depth[Root] = 0 /\ \A i \in Live : depth[i] = 1 + depth[objects[i].parent]
  BY <1>5, ParentsAreRows DEF LeadsToZero
<1>7. \A i \in Live \cup {0} : depth[i] = f[i]
  <2>1. Agree(depth, f, Parents, Live)
    BY <1>3, <1>6, ParentsAreRows DEF Agree
  <2> QED
    BY <2>1, ParentsAreRows, OneSolution
<1>8. \A i \in Live \cup {Root} : depth[i] \in Nat
  BY <1>3, <1>7, ParentsAreRows
<1> QED
  BY <1>5, <1>6, <1>8 DEF Depths

-----------------------------------------------------------------------------
(* A new row has the greatest rowid. *)
LEMMA NewRowid ==
  ASSUME RowsInv
  PROVE  LET id == 1 + Max(Live \cup {0}) IN id \in Nat \ {0} /\ \A i \in Live : i < id
<1> DEFINE T == Live \cup {0}
<1>1. T \in SUBSET Nat /\ 0 \in T /\ \A i \in T : i <= MaxObjects
  BY ParentsAreRows
<1>2. PICK x \in T : \A y \in T : y <= x
  BY <1>1, ParentsAreRows, GreatestNumber
<1>3. \A y \in T : x >= y
  BY <1>1, <1>2
<1>4. Max(T) \in T /\ \A y \in T : Max(T) >= y
  <2> HIDE DEF T
  <2> QED
    BY <1>2, <1>3 DEF Max
<1> QED
  BY <1>1, <1>4

(* Rows that are gone leave their children at the root, and their parents.  *)
LEMMA DetachedRows ==
  ASSUME RowsInv, NEW gone \in SUBSET Live
  PROVE  Detached(gone) \in [Live \ gone -> Object]
<1>1. \A i \in Live : objects[i] \in Object
  BY DEF RowsInv, TypeOK
<1> QED
  BY <1>1 DEF Detached, Object

(* A cascade that does not fail ends with rows that are unique. *)
LEMMA CascadeUnique ==
  ASSUME RowsInv, NEW s, ~ CascadeFails(s)
  PROVE  IsUnique(Detached(In(s)))
<1>1. In(s) \in SUBSET Nat /\ \A i \in In(s) : i <= MaxObjects
  BY ParentsAreRows DEF In
<1>2. CASE In(s) = {}
  <2>1. DOMAIN Detached(In(s)) = Live /\ \A i \in Live : Detached(In(s))[i] = objects[i]
    BY <1>2 DEF Detached
  <2> QED
    BY <2>1 DEF RowsInv, TypeOK, IsUnique
<1>3. CASE In(s) # {}
  <2>1. PICK x \in In(s) : \A y \in In(s) : y <= x
    BY <1>1, <1>3, ParentsAreRows, GreatestNumber
  <2>2. In(s) = {j \in In(s) : j <= x}
    BY <2>1
  <2> QED
    BY <2>1, <2>2 DEF CascadeFails
<1> QED
  BY <1>2, <1>3

(* What hangs from a row that is deleted moves to its parent. *)
LEMMA ChildrenMoved ==
  ASSUME RowsInv, NEW i \in Live
  PROVE  /\ ChildrenToParent(i) \in [Live -> Object]
         /\ \A j \in Live :
              /\ ChildrenToParent(i)[j].space = objects[j].space
              /\ ChildrenToParent(i)[j].name = objects[j].name
              /\ ChildrenToParent(i)[j].parent =
                   IF objects[j].parent = i THEN objects[i].parent ELSE objects[j].parent
              /\ ChildrenToParent(i)[j].parent \in (Live \ {i}) \cup {Root}
              /\ ChildrenToParent(i)[j].parent < j
<1>1. \A j \in Live : objects[j] \in Object /\ objects[j].parent \in Live \cup {Root}
                      /\ objects[j].parent < j /\ j \in Nat
  BY ParentsAreRows DEF RowsInv, RowsGrow, TypeOK
<1>2. objects[i].parent # i /\ objects[i].parent \in Ids \cup {Root}
  BY <1>1, ObjectTreeAssumption DEF Object
<1>3. \A j \in Live : ChildrenToParent(i)[j] =
          IF objects[j].parent = i THEN [objects[j] EXCEPT !.parent = objects[i].parent]
          ELSE objects[j]
  BY DEF ChildrenToParent
<1>4. ASSUME NEW j \in Live
      PROVE  /\ ChildrenToParent(i)[j] \in Object
             /\ ChildrenToParent(i)[j].space = objects[j].space
             /\ ChildrenToParent(i)[j].name = objects[j].name
             /\ ChildrenToParent(i)[j].parent =
                  IF objects[j].parent = i THEN objects[i].parent ELSE objects[j].parent
  BY <1>1, <1>2, <1>3 DEF Object
<1>5. \A p : p \in Live \cup {Root} => p \in Nat
  BY ParentsAreRows
<1>6. ASSUME NEW j \in Live
      PROVE  /\ ChildrenToParent(i)[j].parent \in (Live \ {i}) \cup {Root}
             /\ ChildrenToParent(i)[j].parent < j
  <2>1. CASE objects[j].parent = i
    BY <1>1, <1>2, <1>4, <1>5, <2>1
  <2>2. CASE objects[j].parent # i
    BY <1>1, <1>4, <2>2
  <2> QED
    BY <2>1, <2>2
<1>7. ChildrenToParent(i) \in [Live -> Object]
  BY <1>4 DEF ChildrenToParent
<1> QED
  BY <1>4, <1>6, <1>7

(* RowsInv, table by table. *)
ObjectsInv ==
  /\ Live \subseteq Ids /\ objects \in [Live -> Object] /\ IsUnique(objects)
  /\ \A i \in Live : /\ objects[i].space \in spaces
                     /\ objects[i].parent \in Live \cup {Root} /\ objects[i].parent < i

VariablesInv ==
  /\ DOMAIN variables \subseteq Variable
  /\ \A v \in DOMAIN variables : v.space \in spaces /\ variables[v] \in Live \cup {Root}

LEMMA RowsByTable == RowsInv <=> spaces \subseteq Spaces /\ ObjectsInv /\ VariablesInv
BY DEF RowsInv, TypeOK, RowsGrow, ObjectsInv, VariablesInv

(* A deleted object node and what hung from it. *)
LEMMA DeleteObjectRows ==
  ASSUME RowsInv, NEW i \in Ids, DeleteObject(i)
  PROVE  RowsInv'
<1>0. i \in Live /\ ObjectsInv /\ VariablesInv
  BY RowsByTable DEF DeleteObject
<1>1. \A v \in DOMAIN variables : ToParent(i)[v] =
         IF variables[v] = i THEN objects[i].parent ELSE variables[v]
  BY DEF ToParent
<1>2. objects[i].parent \in (Live \ {i}) \cup {Root}
  BY <1>0, ChildrenMoved, ParentsAreRows DEF ObjectsInv
<1>3. DOMAIN variables' = DOMAIN variables
      /\ \A v \in DOMAIN variables : variables'[v] \in (Live \ {i}) \cup {Root}
  BY <1>0, <1>1, <1>2 DEF DeleteObject, ToParent, VariablesInv
<1>4. CASE IsUnique(ChildrenToParent(i))
  <2>1. Live' = Live \ {i} /\ \A j \in Live' : objects'[j] = ChildrenToParent(i)[j]
    BY <1>4 DEF DeleteObject, Live
  <2>2. ObjectsInv'
    <3>1. IsUnique(objects')
      <4>1. DOMAIN objects' = Live' /\ DOMAIN ChildrenToParent(i) = Live
        BY DEF Live, ChildrenToParent
      <4> QED
        BY <1>4, <2>1, <4>1 DEF IsUnique
    <3>2. objects' \in [Live' -> Object]
      <4>1. \A j \in Live' : objects'[j] \in Object
        BY <1>0, <2>1, ChildrenMoved
      <4>2. objects' = [j \in Live' |-> objects'[j]]
        BY <1>4, <2>1 DEF DeleteObject, Live
      <4> QED
        BY <4>1, <4>2
    <3> QED
      BY <1>0, <2>1, <3>1, <3>2, ChildrenMoved DEF ObjectsInv, DeleteObject
  <2>3. VariablesInv'
    BY <1>0, <1>3, <2>1 DEF VariablesInv, DeleteObject
  <2> QED
    BY <2>2, <2>3, RowsByTable DEF RowsInv, TypeOK, RowsGrow, ObjectsInv, VariablesInv, DeleteObject
<1>5. CASE ~ IsUnique(ChildrenToParent(i))
  <2>1. UNCHANGED <<spaces, objects, Live>>
    BY <1>5 DEF DeleteObject, Live
  <2>2. spaces \subseteq Spaces /\ ObjectsInv' /\ VariablesInv'
    BY <1>0, <1>3, <2>1, RowsByTable DEF ObjectsInv, VariablesInv
  <2> QED
    BY <2>1, <2>2 DEF RowsInv, TypeOK, RowsGrow, ObjectsInv, VariablesInv
<1> QED
  BY <1>4, <1>5

(* The same, cut before its last statement. *)
LEMMA DeleteObjectCutRows ==
  ASSUME RowsInv, NEW i \in Ids, DeleteObjectCut(i)
  PROVE  RowsInv'
<1>0. i \in Live /\ ObjectsInv /\ VariablesInv
  BY RowsByTable DEF DeleteObjectCut
<1>1. \A v \in DOMAIN variables : ToParent(i)[v] \in Live \cup {Root}
  BY <1>0 DEF ToParent, ObjectsInv, VariablesInv
<1>2. DOMAIN variables' = DOMAIN variables
      /\ \A v \in DOMAIN variables : variables'[v] \in Live \cup {Root}
  BY <1>1 DEF DeleteObjectCut, ToParent
<1>3. CASE UNCHANGED objects
  <2>1. UNCHANGED <<spaces, objects, Live>>
    BY <1>3 DEF DeleteObjectCut, Live
  <2>2. spaces \subseteq Spaces /\ ObjectsInv' /\ VariablesInv'
    BY <1>0, <1>2, <2>1, RowsByTable DEF ObjectsInv, VariablesInv
  <2> QED
    BY <2>1, <2>2 DEF RowsInv, TypeOK, RowsGrow, ObjectsInv, VariablesInv
<1>4. CASE IsUnique(ChildrenToParent(i)) /\ objects' = ChildrenToParent(i)
  <2>1. Live' = Live
    BY <1>4 DEF ChildrenToParent, Live
  <2>2. ObjectsInv'
    BY <1>0, <1>4, <2>1, ChildrenMoved DEF DeleteObjectCut, ObjectsInv
  <2>3. VariablesInv'
    BY <1>0, <1>2, <2>1 DEF DeleteObjectCut, VariablesInv
  <2> QED
    BY <2>2, <2>3 DEF RowsInv, TypeOK, RowsGrow, ObjectsInv, VariablesInv, DeleteObjectCut
<1> QED
  BY <1>3, <1>4 DEF DeleteObjectCut

(* The end of a namespace. *)
LEMMA DeleteNamespaceRows ==
  ASSUME RowsInv, NEW s \in Spaces, DeleteNamespace(s)
  PROVE  RowsInv'
<1>0. ObjectsInv /\ VariablesInv /\ spaces \subseteq Spaces
  BY RowsByTable
<1>1. In(s) \in SUBSET Live /\ \A i \in Live \ In(s) : objects[i].space # s
  BY DEF In
<1>2. objects' = Detached(In(s)) /\ spaces' = spaces \ {s} /\ Live' = Live \ In(s)
  BY DEF DeleteNamespace, Detached, Live
<1>3. IsUnique(objects')
  BY <1>2, CascadeUnique DEF DeleteNamespace
<1>4. ASSUME NEW i \in Live \ In(s)
      PROVE  /\ Detached(In(s))[i].space = objects[i].space
             /\ Detached(In(s))[i].parent =
                  IF objects[i].parent \in In(s) THEN Root ELSE objects[i].parent
  <2>1. objects[i] \in Object
    BY <1>0 DEF ObjectsInv
  <2> QED
    BY <2>1 DEF Detached, Object
<1>5. ObjectsInv'
  <2>1. objects' \in [Live' -> Object] /\ Live' \subseteq Ids
    BY <1>0, <1>1, <1>2, DetachedRows DEF ObjectsInv
  <2>2. ASSUME NEW i \in Live'
        PROVE  /\ objects'[i].space \in spaces'
               /\ objects'[i].parent \in Live' \cup {Root} /\ objects'[i].parent < i
    <3>1. i \in Live \ In(s) /\ i \in Nat /\ i > 0
      BY <1>2, ParentsAreRows DEF LeadsToZero
    <3>2. objects'[i].space = objects[i].space
          /\ objects'[i].parent = IF objects[i].parent \in In(s) THEN Root ELSE objects[i].parent
      <4>1. objects'[i] = Detached(In(s))[i]
        BY <1>2
      <4> QED
        BY <1>4, <3>1, <4>1
    <3> QED
      BY <1>0, <1>1, <1>2, <3>1, <3>2 DEF ObjectsInv, Root
  <2> QED
    BY <1>3, <2>1, <2>2 DEF ObjectsInv
<1>6. VariablesInv'
  <2>1. \A v \in DOMAIN variables' : v \in DOMAIN variables /\ v.space # s
          /\ variables'[v] = IF variables[v] \in In(s) THEN Root ELSE variables[v]
    BY DEF DeleteNamespace
  <2> QED
    BY <1>0, <1>2, <2>1 DEF VariablesInv
<1>7. spaces' \subseteq Spaces
  BY <1>0, <1>2
<1> QED
  BY <1>5, <1>6, <1>7 DEF RowsInv, TypeOK, RowsGrow, ObjectsInv, VariablesInv

(* A new object node. *)
LEMMA PostObjectRows ==
  ASSUME RowsInv, PostObject
  PROVE  RowsInv'
<1> DEFINE id == 1 + Max(Live \cup {0})
<1>0. ObjectsInv /\ VariablesInv /\ spaces \subseteq Spaces
  BY RowsByTable
<1>1. id \in Nat \ {0} /\ \A i \in Live : i < id
  BY NewRowid
<1> HIDE DEF id
<1>2. PICK o \in Object :
        LET new == [i \in Live \cup {id} |-> IF i = id THEN o ELSE objects[i]]
        IN  /\ id \in Ids
            /\ o.space \in spaces
            /\ o.parent \in Live \cup {Root} /\ DepthAllows(o.parent)
            /\ IsUnique(new)
            /\ objects' = new
            /\ UNCHANGED <<spaces, variables>>
  BY DEF PostObject, id
<1>3. /\ Live' = Live \cup {id} /\ IsUnique(objects')
      /\ \A i \in Live' : objects'[i] = IF i = id THEN o ELSE objects[i]
  BY <1>2 DEF Live
<1>4. id \notin Live /\ o.parent < id
  BY <1>1, <1>2, ParentsAreRows
<1>5. ObjectsInv'
  <2>1. objects' \in [Live' -> Object] /\ Live' \subseteq Ids
    BY <1>0, <1>2, <1>3 DEF ObjectsInv, Live
  <2>2. ASSUME NEW i \in Live'
        PROVE  /\ objects'[i].space \in spaces'
               /\ objects'[i].parent \in Live' \cup {Root} /\ objects'[i].parent < i
    BY <1>0, <1>2, <1>3, <1>4 DEF ObjectsInv
  <2> QED
    BY <1>3, <2>1, <2>2 DEF ObjectsInv
<1>6. VariablesInv' /\ spaces' \subseteq Spaces
  BY <1>0, <1>2, <1>3 DEF VariablesInv
<1> QED
  BY <1>5, <1>6 DEF RowsInv, TypeOK, RowsGrow, ObjectsInv, VariablesInv

-----------------------------------------------------------------------------
(* What the import finds at a part of a path, below what it found before. *)
Below(s, word, found) == {i \in In(s) : objects[i].name = <<word>> /\ objects[i].parent \in found}

IsFound(found, s, path) ==
  /\ found \in [0 .. Len(path) -> SUBSET (Live \cup {Root})]
  /\ found[0] = {Root}
  /\ \A k \in 1 .. Len(path) : found[k] = Below(s, path[k], found[k - 1])

(* findObjectNodeByPath, part by part. *)
LEMMA ReachedByParts ==
  ASSUME NEW s, NEW path, Len(path) \in Nat
  PROVE  \E found : IsFound(found, s, path) /\ Reached(s, path) = found[Len(path)]
<1> DEFINE S == 1 .. Len(path)
           A == SUBSET (Live \cup {Root})
           above == [k \in S |-> k - 1]
           step == [x \in S \X A |-> Below(s, path[x[1]], x[2])]
           Solution(f) == f = [k \in 0 .. Len(path) |->
                                 IF k = 0 THEN {Root} ELSE Below(s, path[k], f[k - 1])]
<1>1. LeadsToZero(above, S)
  BY DEF LeadsToZero
<1>2. \A word, found : Below(s, word, found) \in A
  BY DEF Below, In
<1>3. IsStep(step, S, A)
  BY <1>2 DEF IsStep
<1>4. {Root} \in A /\ S \in SUBSET (0 .. Len(path)) /\ S \cup {0} = 0 .. Len(path)
  OBVIOUS
<1>5. PICK f : Solves(f, above, S, A, {Root}, step)
  <2> HIDE DEF S, A, above, step
  <2> QED
    BY <1>1, <1>3, <1>4, RecursiveFunction, Zenon
<1>6. Solution(f) /\ IsFound(f, s, path)
  <2>1. f \in [0 .. Len(path) -> A] /\ f[0] = {Root}
    BY <1>4, <1>5 DEF Solves
  <2>2. ASSUME NEW k \in S PROVE f[k] = Below(s, path[k], f[k - 1])
    <3>1. f[k] = step[<<k, f[k - 1]>>]
      BY <1>5 DEF Solves
    <3>2. f[k - 1] \in A
      BY <2>1
    <3> QED
      BY <3>1, <3>2
  <2>3. Solution(f)
    BY <2>1, <2>2
  <2> QED
    BY <2>1, <2>2, <2>3 DEF IsFound
<1> DEFINE chosen == CHOOSE g : Solution(g)
<1>7. Solution(chosen)
  <2> HIDE DEF Solution
  <2> QED
    BY <1>6
<1>8. Reached(s, path) = chosen[Len(path)]
  BY DEF Reached, Below
<1>9. IsFound(chosen, s, path)
  <2>1. \A k \in 0 .. Len(path) : chosen[k] = IF k = 0 THEN {Root} ELSE Below(s, path[k], chosen[k - 1])
    BY <1>7
  <2>2. \A k \in 0 .. Len(path) : chosen[k] \in A
    <3> HIDE DEF chosen
    <3> SUFFICES ASSUME NEW k \in 0 .. Len(path) PROVE chosen[k] \in A
      OBVIOUS
    <3>1. chosen[k] = {Root} \/ chosen[k] = Below(s, path[k], chosen[k - 1])
      BY <2>1
    <3>2. {Root} \in A /\ Below(s, path[k], chosen[k - 1]) \in A
      BY <1>2, <1>4
    <3> QED
      BY <3>1, <3>2
  <2>3. chosen = [k \in 0 .. Len(path) |-> chosen[k]]
    BY <1>7
  <2> HIDE DEF chosen, Solution
  <2>4. chosen \in [0 .. Len(path) -> A]
    BY <2>2, <2>3
  <2> QED
    BY <2>1, <2>4 DEF IsFound
<1> QED
  BY <1>8, <1>9

LEMMA ReachedRows ==
  ASSUME NEW s, NEW path, Len(path) \in Nat
  PROVE  Reached(s, path) \subseteq Live \cup {Root}
<1>1. PICK found : IsFound(found, s, path) /\ Reached(s, path) = found[Len(path)]
  BY ReachedByParts
<1> QED
  BY <1>1 DEF IsFound

(* The rows of variables, when only they change. *)
LEMMA VariablesOnly ==
  ASSUME RowsInv, UNCHANGED <<spaces, objects>>,
         DOMAIN variables' \subseteq Variable,
         \A v \in DOMAIN variables' : v.space \in spaces /\ variables'[v] \in Live \cup {Root}
  PROVE  RowsInv'
BY DEF RowsInv, TypeOK, RowsGrow, Live

(* Every request keeps the tables. *)
LEMMA RowsStep ==
  ASSUME RowsInv, [Next]_vars
  PROVE  RowsInv'
<1>0. ObjectsInv /\ VariablesInv /\ spaces \subseteq Spaces
  BY RowsByTable
<1>1. CASE PostNamespace
  <2>1. spaces \subseteq spaces' /\ spaces' \subseteq Spaces /\ UNCHANGED <<objects, variables, Live>>
    BY <1>0, <1>1 DEF PostNamespace, Live
  <2> QED
    BY <1>0, <2>1 DEF RowsInv, TypeOK, RowsGrow, ObjectsInv, VariablesInv
<1>2. CASE \E s \in Spaces : DeleteNamespace(s)
  BY <1>2, DeleteNamespaceRows
<1>3. CASE PostObject
  BY <1>3, PostObjectRows
<1>4. CASE \E i \in Ids : DeleteObject(i) \/ DeleteObjectCut(i)
  BY <1>4, DeleteObjectRows, DeleteObjectCutRows
<1>5. CASE PostNode
  <2>1. PICK v \in Variable, p \in Live \cup {Root} :
          CanCreate(v) /\ variables' = With([w \in {v} |-> p]) /\ UNCHANGED <<spaces, objects>>
    BY <1>5 DEF PostNode
  <2>2. /\ DOMAIN variables' = DOMAIN variables \cup {v}
        /\ \A w \in DOMAIN variables' :
             variables'[w] = IF w \in DOMAIN variables THEN variables[w] ELSE p
    BY <2>1 DEF With
  <2> QED
    BY <1>0, <2>1, <2>2, VariablesOnly DEF VariablesInv, CanCreate
<1>6. CASE PutNode
  <2>1. PICK v \in DOMAIN variables, w \in Variable, p \in Live \cup {Root} :
          /\ w.space = v.space /\ UNCHANGED <<spaces, objects>>
          /\ variables' = [x \in (DOMAIN variables \ {v}) \cup {w} |->
                             IF x = w THEN p ELSE variables[x]]
    BY <1>6 DEF PutNode
  <2> QED
    BY <1>0, <2>1, VariablesOnly DEF VariablesInv
<1>7. CASE DeleteNode
  BY <1>0, <1>7, VariablesOnly DEF VariablesInv, DeleteNode
<1>8. CASE Import
  <2>0. PICK vs \in SUBSET Variable : \E file \in [vs -> Paths] :
          LET good == {v \in vs : CanCreate(v) /\ Reached(v.space, file[v]) # {}}
          IN  /\ variables' = With([v \in good |-> CHOOSE i \in Reached(v.space, file[v]) : TRUE])
              /\ UNCHANGED <<spaces, objects>>
    BY <1>8 DEF Import
  <2>1. PICK file \in [vs -> Paths] :
          LET good == {v \in vs : CanCreate(v) /\ Reached(v.space, file[v]) # {}}
          IN  /\ variables' = With([v \in good |-> CHOOSE i \in Reached(v.space, file[v]) : TRUE])
              /\ UNCHANGED <<spaces, objects>>
    BY <2>0
  <2> DEFINE good == {v \in vs : CanCreate(v) /\ Reached(v.space, file[v]) # {}}
             chosen(v) == CHOOSE i \in Reached(v.space, file[v]) : TRUE
  <2>2. \A v \in good : chosen(v) \in Live \cup {Root}
    <3> SUFFICES ASSUME NEW v \in good PROVE chosen(v) \in Live \cup {Root}
      OBVIOUS
    <3>1. Len(file[v]) \in Nat
      <4>1. PICK k \in 0 .. MaxDepth : file[v] \in [1 .. k -> Words]
        BY DEF Paths
      <4> QED
        BY <4>1, ObjectTreeAssumption
    <3>2. Reached(v.space, file[v]) \subseteq Live \cup {Root}
      BY <3>1, ReachedRows
    <3> QED
      BY <3>2
  <2>3. /\ DOMAIN variables' = DOMAIN variables \cup good
        /\ \A v \in DOMAIN variables' :
             variables'[v] = IF v \in DOMAIN variables THEN variables[v] ELSE chosen(v)
    <3> DEFINE new == [v \in good |-> chosen(v)]
    <3>1. variables' = With(new)
      BY <2>1
    <3>2. DOMAIN new = good /\ \A v \in good : new[v] = chosen(v)
      OBVIOUS
    <3> HIDE DEF new, good, chosen
    <3> QED
      BY <3>1, <3>2 DEF With
  <2>4. \A v \in good : v \in Variable /\ v.space \in spaces
    BY DEF CanCreate
  <2> HIDE DEF good, chosen
  <2> QED
    BY <1>0, <2>1, <2>2, <2>3, <2>4, VariablesOnly DEF VariablesInv
<1>9. CASE UNCHANGED vars
  BY <1>9, VariablesOnly DEF vars, RowsInv, TypeOK
<1> QED
  BY <1>1, <1>2, <1>3, <1>4, <1>5, <1>6, <1>7, <1>8, <1>9 DEF Next

(* The tables keep to their types, their keys and the order of the rowids. *)
THEOREM RowsInvariant == Spec => []RowsInv
<1>1. Init => RowsInv
  BY DEF Init, RowsInv, TypeOK, RowsGrow, IsUnique, Live
<1>2. RowsInv /\ [Next]_vars => RowsInv'
  BY RowsStep
<1> QED
  BY <1>1, <1>2, PTL DEF Spec

(* References lead to rows, and names are unique, whatever is cut or fails. *)
THEOREM TreeTypeCorrect == Spec => []TypeOK
<1>1. RowsInv => TypeOK
  BY DEF RowsInv
<1> QED
  BY <1>1, RowsInvariant, PTL

-----------------------------------------------------------------------------
(* What a step may do to the variables, and to the object nodes. *)
VariablesMoveUp ==
  \A v \in DOMAIN variables : v.space \in spaces' =>
     v \in DOMAIN variables' /\ MayMove(variables[v], variables'[v])

ObjectsMoveUp ==
  \A i \in Live \cap Live' : MayMove(objects[i].parent, objects'[i].parent)

LEMMA MoveUp ==
  ASSUME RowsInv, Next, ~ PutNode, ~ DeleteNode
  PROVE  VariablesMoveUp /\ ObjectsMoveUp
<1>0. ObjectsInv /\ VariablesInv
  BY RowsByTable
<1>1. CASE PostNamespace
  BY <1>1 DEF PostNamespace, VariablesMoveUp, ObjectsMoveUp, MayMove
<1>2. CASE \E s \in Spaces : DeleteNamespace(s)
  <2>1. PICK s \in Spaces : DeleteNamespace(s)
    BY <1>2
  <2>2. \A p \in In(s) : p # Root /\ objects[p].space \notin spaces'
    BY <2>1, ParentsAreRows DEF In, DeleteNamespace, LeadsToZero
  <2>3. VariablesMoveUp
    BY <1>0, <2>1, <2>2 DEF DeleteNamespace, VariablesMoveUp, VariablesInv, MayMove
  <2>4. ASSUME NEW i \in Live \cap Live'
        PROVE  MayMove(objects[i].parent, objects'[i].parent)
    <3>1. i \in Live \ In(s) /\ objects[i] \in Object /\ objects'[i] = Detached(In(s))[i]
      BY <1>0, <2>1 DEF DeleteNamespace, Detached, ObjectsInv, Live
    <3>2. objects'[i].parent = IF objects[i].parent \in In(s) THEN Root ELSE objects[i].parent
      BY <3>1 DEF Detached, Object
    <3> QED
      BY <2>2, <3>2 DEF MayMove
  <2> QED
    BY <2>3, <2>4 DEF ObjectsMoveUp
<1>3. CASE PostObject
  <2>1. VariablesMoveUp
    BY <1>3 DEF PostObject, VariablesMoveUp, MayMove
  <2>2. \A i \in Live \cap Live' : objects'[i] = objects[i]
    <3> DEFINE id == 1 + Max(Live \cup {0})
    <3>1. id \notin Live
      BY NewRowid
    <3> HIDE DEF id
    <3>2. PICK o \in Object : objects' = [i \in Live \cup {id} |-> IF i = id THEN o ELSE objects[i]]
      BY <1>3 DEF PostObject, id
    <3> QED
      BY <3>1, <3>2
  <2> QED
    BY <2>1, <2>2 DEF ObjectsMoveUp, MayMove
<1>4. CASE \E i \in Ids : DeleteObject(i) \/ DeleteObjectCut(i)
  <2>1. PICK i \in Ids : DeleteObject(i) \/ DeleteObjectCut(i)
    BY <1>4
  <2>2. i \in Live /\ i # Root /\ variables' = ToParent(i)
    BY <2>1, ParentsAreRows DEF DeleteObject, DeleteObjectCut, LeadsToZero
  <2>3. VariablesMoveUp
    BY <2>2 DEF ToParent, VariablesMoveUp, MayMove
  <2>4. \A j \in Live \cap Live' : objects'[j] = objects[j] \/ objects'[j] = ChildrenToParent(i)[j]
    BY <2>1 DEF DeleteObject, DeleteObjectCut, Live
  <2>5. \A j \in Live : ChildrenToParent(i)[j].parent =
          IF objects[j].parent = i THEN objects[i].parent ELSE objects[j].parent
    BY <2>2, ChildrenMoved
  <2> QED
    BY <2>2, <2>3, <2>4, <2>5 DEF ObjectsMoveUp, MayMove
<1>5. CASE PostNode \/ Import
  <2>1. PICK new : variables' = With(new) /\ UNCHANGED objects
    BY <1>5 DEF PostNode, Import
  <2>2. \A v \in DOMAIN variables : v \in DOMAIN variables' /\ variables'[v] = variables[v]
    BY <2>1 DEF With
  <2> QED
    BY <2>1, <2>2 DEF VariablesMoveUp, ObjectsMoveUp, MayMove, Live
<1> QED
  BY <1>1, <1>2, <1>3, <1>4, <1>5 DEF Next

(* A deletion moves what remains one level up, and nowhere else. *)
THEOREM TreeMovesUp == Spec => DeletesMoveUp
<1>1. RowsInv /\ [Next]_vars =>
        [PutNode \/ DeleteNode \/ (VariablesMoveUp /\ ObjectsMoveUp)]_vars
  BY MoveUp
<1>2. DeletesMoveUp <=> [][PutNode \/ DeleteNode \/ (VariablesMoveUp /\ ObjectsMoveUp)]_vars
  BY PTL DEF DeletesMoveUp, VariablesMoveUp, ObjectsMoveUp
<1> QED
  BY <1>1, <1>2, RowsInvariant, PTL DEF Spec

-----------------------------------------------------------------------------
(* No row is deeper than create allows. *)
DepthInv == \A i \in Live : depth[i] <= MaxDepth

(* Rows that move up are no deeper than before. *)
LEMMA Shallower ==
  ASSUME RowsInv, RowsInv', ObjectsMoveUp
  PROVE  \A i \in Live \cap Live' : depth'[i] <= depth[i]
<1>0. Depths /\ Depths'
  BY DepthOf, PTL
<1>1. /\ depth \in [Live \cup {Root} -> Nat] /\ depth[Root] = 0
      /\ \A i \in Live : depth[i] = 1 + depth[objects[i].parent]
  BY <1>0 DEF Depths
<1>2. /\ depth' \in [Live' \cup {Root} -> Nat] /\ depth'[Root] = 0
      /\ \A i \in Live' : depth'[i] = 1 + depth'[objects'[i].parent]
  BY <1>0 DEF Depths, Root
<1> DEFINE deeper == {i \in Live \cap Live' : ~ (depth'[i] <= depth[i])}
<1>3. SUFFICES ASSUME deeper # {} PROVE FALSE
  OBVIOUS
<1>4. deeper \in SUBSET Nat
  BY ParentsAreRows
<1>5. PICK i \in deeper : \A j \in deeper : i <= j
  BY <1>3, <1>4, LeastNumber
<1> DEFINE p == objects'[i].parent
           q == objects[i].parent
<1>6. /\ i \in Live \cap Live' /\ i \in Nat
      /\ p \in Live' \cup {Root} /\ p < i
      /\ q \in Live \cup {Root} /\ MayMove(q, p)
      /\ q # Root => objects[q].parent \in Live \cup {Root}
  BY <1>4, <1>5 DEF RowsInv, RowsGrow, TypeOK, ObjectsMoveUp
<1> HIDE DEF p, q
<1>7. p \in Live \cup {Root} /\ depth[p] <= depth[q]
  <2>1. CASE p = q
    BY <1>1, <1>6, <2>1
  <2>2. CASE q # Root /\ p = objects[q].parent
    <3>1. q \in Live /\ p \in Live \cup {Root}
      BY <1>6, <2>2
    <3>2. depth[q] = 1 + depth[p] /\ depth[p] \in Nat
      BY <1>1, <2>2, <3>1
    <3> QED
      BY <3>1, <3>2
  <2>3. CASE p = Root
    <3>1. depth[p] = 0 /\ depth[q] \in Nat
      BY <1>1, <1>6, <2>3
    <3> QED
      BY <2>3, <3>1
  <2> QED
    BY <1>6, <2>1, <2>2, <2>3 DEF MayMove
<1>8. depth'[p] <= depth[p]
  <2>1. CASE p = Root
    BY <1>1, <1>2, <2>1
  <2>2. CASE p # Root
    <3>1. p \in Live \cap Live' /\ p \in Nat
      BY <1>6, <1>7, <2>2, ParentsAreRows
    <3>2. p \notin deeper
      BY <1>5, <1>6, <3>1
    <3> QED
      BY <3>1, <3>2
  <2> QED
    BY <2>1, <2>2
<1>9. depth[i] = 1 + depth[q] /\ depth'[i] = 1 + depth'[p]
  BY <1>1, <1>2, <1>6 DEF p, q
<1>10. depth[p] \in Nat /\ depth[q] \in Nat /\ depth'[p] \in Nat
  BY <1>1, <1>2, <1>6, <1>7
<1> QED
  BY <1>5, <1>7, <1>8, <1>9, <1>10

LEMMA DepthStep ==
  ASSUME RowsInv, DepthInv, [Next]_vars
  PROVE  DepthInv'
<1>1. RowsInv'
  BY RowsStep
<1>2. ObjectsMoveUp
  <2>1. CASE UNCHANGED objects
    BY <2>1 DEF ObjectsMoveUp, MayMove
  <2> QED
    BY <2>1, MoveUp DEF PutNode, DeleteNode, vars
<1>3. \A i \in Live \cap Live' : depth'[i] <= depth[i]
  BY <1>1, <1>2, Shallower
<1>0. Depths /\ Depths'
  BY <1>1, DepthOf, PTL
<1>4. /\ depth \in [Live \cup {Root} -> Nat] /\ depth[Root] = 0
  BY <1>0 DEF Depths
<1>5. /\ depth' \in [Live' \cup {Root} -> Nat] /\ depth'[Root] = 0
      /\ \A i \in Live' : depth'[i] = 1 + depth'[objects'[i].parent]
  BY <1>0 DEF Depths, Root
<1>6. \A i \in Live \cap Live' : depth'[i] <= MaxDepth
  BY <1>3, <1>4, <1>5, ObjectTreeAssumption DEF DepthInv
<1>7. CASE PostObject
  <2> DEFINE id == 1 + Max(Live \cup {0})
  <2>1. id \notin Live
    BY NewRowid
  <2> HIDE DEF id
  <2>2. PICK o \in Object :
          /\ objects' = [i \in Live \cup {id} |-> IF i = id THEN o ELSE objects[i]]
          /\ o.parent \in Live \cup {Root} /\ depth[o.parent] < MaxDepth
    BY <1>7 DEF PostObject, DepthAllows, id
  <2>3. Live' = Live \cup {id} /\ objects'[id] = o
    BY <2>2 DEF Live
  <2>4. depth'[o.parent] <= depth[o.parent]
    BY <1>3, <1>4, <1>5, <2>2, <2>3
  <2>5. depth'[id] = 1 + depth'[o.parent]
    BY <1>5, <2>3
  <2>6. depth[o.parent] \in Nat /\ depth'[o.parent] \in Nat
    BY <1>4, <1>5, <2>2, <2>3
  <2>7. depth'[id] <= MaxDepth
    BY <2>2, <2>4, <2>5, <2>6, ObjectTreeAssumption
  <2> QED
    BY <1>6, <2>3, <2>7 DEF DepthInv
<1>8. CASE Live' \subseteq Live
  BY <1>6, <1>8 DEF DepthInv
<1>9. PostObject \/ Live' \subseteq Live
  BY DEF Next, vars, PostNamespace, DeleteNamespace, Detached, DeleteObject, DeleteObjectCut,
         ChildrenToParent, PostNode, PutNode, DeleteNode, Import, Live
<1> QED
  BY <1>7, <1>8, <1>9

(* No sequence of requests makes an object node deeper than MAX_DEPTH. *)
THEOREM DepthIsBounded == Spec => []DepthInv
<1>1. Init => DepthInv
  BY DEF Init, DepthInv, Live
<1>2. RowsInv /\ DepthInv /\ [Next]_vars => DepthInv'
  BY DepthStep
<1> QED
  BY <1>1, <1>2, RowsInvariant, PTL DEF Spec

-----------------------------------------------------------------------------
(* The levels of buildTree: the roots, and the children of the level before. *)
NextLevel(s, k, last) ==
  IF k = 1 THEN RootsOf(s) ELSE {i \in In(s) : objects[i].parent \in last}

LEMMA LevelsOfTree ==
  ASSUME NEW s
  PROVE  \E level : /\ \A k \in 1 .. MaxDepth : level[k] = NextLevel(s, k, level[k - 1])
                    /\ buildTree(s) = UNION {level[k] : k \in 1 .. MaxDepth}
<1> DEFINE S == 1 .. MaxDepth
           A == SUBSET Live
           above == [k \in S |-> k - 1]
           step == [x \in S \X A |-> NextLevel(s, x[1], x[2])]
           Solution(f) == f = [k \in S |-> NextLevel(s, k, f[k - 1])]
<1>0. MaxDepth \in Nat
  BY ObjectTreeAssumption
<1>1. LeadsToZero(above, S)
  BY <1>0 DEF LeadsToZero
<1>2. \A k, last : NextLevel(s, k, last) \in A
  BY DEF NextLevel, RootsOf, In
<1>3. IsStep(step, S, A)
  BY <1>2 DEF IsStep
<1>4. {} \in A /\ S \in SUBSET (0 .. MaxDepth) /\ S \cup {0} = 0 .. MaxDepth
  BY <1>0
<1>5. PICK f : Solves(f, above, S, A, {}, step)
  <2> HIDE DEF S, A, above, step
  <2> QED
    BY <1>0, <1>1, <1>3, <1>4, RecursiveFunction, Zenon
<1> DEFINE g == [k \in S |-> f[k]]
<1>6. Solution(g)
  <2>1. ASSUME NEW k \in S PROVE f[k] = NextLevel(s, k, f[k - 1])
    <3>1. f[k] = step[<<k, f[k - 1]>>]
      BY <1>5 DEF Solves
    <3>2. k - 1 \in 0 .. MaxDepth
      BY <1>0
    <3>3. f[k - 1] \in A
      BY <1>4, <1>5, <3>2 DEF Solves
    <3> QED
      BY <3>1, <3>3
  <2>2. ASSUME NEW k \in S PROVE NextLevel(s, k, g[k - 1]) = NextLevel(s, k, f[k - 1])
    <3>1. CASE k = 1
      BY <3>1 DEF NextLevel
    <3>2. CASE k # 1
      <4>1. k - 1 \in S
        BY <1>0, <3>2
      <4>2. g[k - 1] = f[k - 1]
        BY <4>1
      <4> QED
        BY <4>2
    <3> QED
      BY <3>1, <3>2
  <2>3. \A k \in S : g[k] = NextLevel(s, k, g[k - 1])
    BY <2>1, <2>2
  <2>4. g = [k \in S |-> g[k]]
    OBVIOUS
  <2> HIDE DEF g
  <2> QED
    BY <2>3, <2>4
<1> DEFINE chosen == CHOOSE h : Solution(h)
<1>7. Solution(chosen)
  <2> HIDE DEF Solution, g
  <2> QED
    BY <1>6
<1>8. buildTree(s) = UNION {chosen[k] : k \in 1 .. MaxDepth}
  BY DEF buildTree, NextLevel
<1>9. \A k \in 1 .. MaxDepth : chosen[k] = NextLevel(s, k, chosen[k - 1])
  <2> HIDE DEF chosen
  <2> QED
    BY <1>7
<1> QED
  BY <1>8, <1>9

(* A row at depth k is in one of the first k levels. *)
LEMMA TreeHasAll ==
  ASSUME RowsInv, DepthInv, NEW s
  PROVE  buildTree(s) = In(s)
<1>1. PICK level : /\ \A k \in 1 .. MaxDepth : level[k] = NextLevel(s, k, level[k - 1])
                   /\ buildTree(s) = UNION {level[k] : k \in 1 .. MaxDepth}
  BY LevelsOfTree
<1>2. MaxDepth \in Nat \ {0} /\ In(s) \subseteq Live /\ Root = 0
  BY ObjectTreeAssumption DEF In, Root
<1>3. \A k \in 1 .. MaxDepth : level[k] \subseteq In(s)
  <2>1. \A k, last : NextLevel(s, k, last) \subseteq In(s)
    BY DEF NextLevel, RootsOf
  <2> QED
    BY <1>1, <2>1
<1>4. /\ depth \in [Live \cup {Root} -> Nat]
      /\ \A i \in Live : depth[i] = 1 + depth[objects[i].parent]
  BY DepthOf DEF Depths
<1> DEFINE IsPlaced(i) == \E k \in 1 .. MaxDepth : k <= depth[i] /\ i \in level[k]
           missing == {i \in In(s) : ~ IsPlaced(i)}
<1>5. SUFFICES ASSUME missing # {} PROVE FALSE
  <2>1. \A i \in In(s) : IsPlaced(i)
    BY <1>5
  <2>2. \A i \in In(s) : \E k \in 1 .. MaxDepth : i \in level[k]
    BY <2>1
  <2> HIDE DEF IsPlaced, missing
  <2> QED
    BY <1>1, <1>3, <2>2
<1>6. missing \in SUBSET Nat
  BY <1>2, ParentsAreRows
<1>7. PICK i \in missing : \A j \in missing : i <= j
  BY <1>5, <1>6, LeastNumber
<1> DEFINE p == objects[i].parent
<1>8. /\ i \in In(s) /\ i \in Live /\ i \in Nat /\ p \in Live \cup {Root} /\ p < i
      /\ p \in Nat
  BY <1>2, <1>6, <1>7, ParentsAreRows DEF RowsInv, RowsGrow, TypeOK
<1>9. depth[i] = 1 + depth[p] /\ depth[p] \in Nat /\ depth[i] <= MaxDepth
  BY <1>4, <1>8 DEF DepthInv
<1>10. CASE p \notin In(s)
  <2>0. \A last : NextLevel(s, 1, last) = RootsOf(s)
    BY DEF NextLevel
  <2>1. 1 \in 1 .. MaxDepth /\ level[1] = RootsOf(s)
    BY <1>1, <1>2, <2>0
  <2>2. i \in RootsOf(s)
    BY <1>8, <1>10 DEF RootsOf
  <2>3. IsPlaced(i)
    BY <1>9, <2>1, <2>2
  <2> QED
    BY <1>7, <2>3
<1>11. CASE p \in In(s)
  <2>1. p \notin missing
    BY <1>7, <1>8
  <2>2. PICK k \in 1 .. MaxDepth : k <= depth[p] /\ p \in level[k]
    BY <1>11, <2>1
  <2>3. k + 1 \in 1 .. MaxDepth /\ (k + 1) - 1 = k /\ k + 1 <= depth[i] /\ k + 1 # 1
    BY <1>2, <1>9, <2>2
  <2>4. level[k + 1] = {j \in In(s) : objects[j].parent \in level[k]}
    <3>1. level[k + 1] = NextLevel(s, k + 1, level[k])
      BY <1>1, <2>3
    <3> QED
      BY <2>3, <3>1 DEF NextLevel
  <2>5. i \in level[k + 1]
    BY <1>8, <2>2, <2>4
  <2>6. IsPlaced(i)
    BY <2>3, <2>5
  <2> QED
    BY <1>7, <2>6
<1> QED
  BY <1>10, <1>11

(* Every object node is in the tree of its namespace. *)
THEOREM TreeIsComplete == Spec => []TreeComplete
<1>1. RowsInv /\ DepthInv => TreeComplete
  BY TreeHasAll DEF TreeComplete
<1> QED
  BY <1>1, RowsInvariant, DepthIsBounded, PTL

-----------------------------------------------------------------------------
LEMMA NamesAreWords == Names \subseteq Seq(Words)
<1>1. ASSUME NEW n \in Words \X Words PROVE n \in Seq(Words)
  <2>1. PICK a \in Words, b \in Words : n = <<a, b>>
    BY <1>1
  <2>2. <<a, b>> \in Seq(Words)
    OBVIOUS
  <2> QED
    BY <2>1, <2>2
<1>2. ASSUME NEW w \in Words PROVE <<w>> \in Seq(Words)
  OBVIOUS
<1> QED
  BY <1>1, <1>2 DEF Names, PlainNames

(* The path of an object node below its namespace ends with its name. *)
ObjectPaths ==
  /\ objectPath \in [Live -> Seq(Words)]
  /\ \A i \in Live :
       objectPath[i] = IF objects[i].parent \in In(objects[i].space)
                       THEN objectPath[objects[i].parent] \o objects[i].name
                       ELSE objects[i].name

LEMMA ObjectPathOf == RowsInv => ObjectPaths
<1> SUFFICES ASSUME RowsInv PROVE ObjectPaths
  OBVIOUS
<1> DEFINE A == Seq(Words)
           Nested(i) == objects[i].parent \in In(objects[i].space)
           step == [x \in Live \X A |-> IF Nested(x[1]) THEN x[2] \o objects[x[1]].name
                                        ELSE objects[x[1]].name]
           Solution(f) == f = [i \in Live |-> IF Nested(i) THEN f[objects[i].parent] \o objects[i].name
                                              ELSE objects[i].name]
<1>1. \A i \in Live : objects[i].name \in A
  BY NamesAreWords DEF RowsInv, TypeOK, Object
<1>2. IsStep(step, Live, A) /\ <<>> \in A
  <2>1. \A i \in Live, p \in A : p \o objects[i].name \in A
    BY <1>1
  <2>2. \A x \in Live \X A : x[1] \in Live /\ x[2] \in A
    OBVIOUS
  <2>3. \A x \in Live \X A : (IF Nested(x[1]) THEN x[2] \o objects[x[1]].name
                              ELSE objects[x[1]].name) \in A
    <3> HIDE DEF A, Nested
    <3> QED
      BY <1>1, <2>1, <2>2
  <2>4. <<>> \in A
    OBVIOUS
  <2> HIDE DEF A, Nested
  <2> QED
    BY <2>3, <2>4 DEF IsStep
<1>3. PICK f : Solves(f, Parents, Live, A, <<>>, step)
  <2> HIDE DEF step, A
  <2> QED
    BY <1>2, ParentsAreRows, RecursiveFunction, Zenon
<1> HIDE DEF A, Nested
<1>4. /\ \A i \in Live \cup {0} : f[i] \in A
      /\ \A i \in Live : f[i] = IF Nested(i) THEN f[objects[i].parent] \o objects[i].name
                                ELSE objects[i].name
  <2>1. \A i \in Live : /\ f[i] = step[<<i, f[objects[i].parent]>>]
                        /\ objects[i].parent \in Live \cup {0}
    BY <1>3, ParentsAreRows DEF Solves
  <2>2. \A i \in Live \cup {0} : f[i] \in A
    BY <1>3 DEF Solves
  <2>3. \A i \in Live, p \in A : step[<<i, p>>] = IF Nested(i) THEN p \o objects[i].name
                                                  ELSE objects[i].name
    OBVIOUS
  <2> HIDE DEF step
  <2> QED
    BY <2>1, <2>2, <2>3
<1> DEFINE g == [i \in Live |-> f[i]]
<1>5. Solution(g)
  <2>1. \A i \in Live : Nested(i) => objects[i].parent \in Live
    BY DEF Nested, In
  <2>2. \A i \in Live : g[i] = f[i]
    OBVIOUS
  <2>3. g = [i \in Live |-> g[i]]
    OBVIOUS
  <2>4. \A i \in Live : g[i] = IF Nested(i) THEN g[objects[i].parent] \o objects[i].name
                               ELSE objects[i].name
    <3> HIDE DEF g
    <3> QED
      BY <1>4, <2>1, <2>2
  <2> HIDE DEF g
  <2> QED
    BY <2>3, <2>4
<1>6. objectPath = CHOOSE h : Solution(h)
  BY DEF objectPath, Nested
<1>7. Solution(objectPath)
  <2> HIDE DEF Solution, g
  <2> QED
    BY <1>5, <1>6
<1>8. \A i \in Live : objectPath[i] = IF Nested(i) THEN objectPath[objects[i].parent] \o objects[i].name
                                      ELSE objects[i].name
  BY <1>7
<1>9. \A i \in Live : objectPath[i] = f[i]
  <2> DEFINE differ == {i \in Live : objectPath[i] # f[i]}
  <2>1. SUFFICES ASSUME differ # {} PROVE FALSE
    OBVIOUS
  <2>2. differ \in SUBSET Nat
    BY ParentsAreRows
  <2>3. PICK i \in differ : \A j \in differ : i <= j
    BY <2>1, <2>2, LeastNumber
  <2>4. i \in Live /\ i \in Nat /\ objects[i].parent \in Nat /\ ~ (i <= objects[i].parent)
    BY <2>2, <2>3, ParentsAreRows DEF RowsInv, RowsGrow
  <2>5. objects[i].parent \notin differ
    BY <2>3, <2>4
  <2>6. Nested(i) => objects[i].parent \in Live
    BY DEF Nested, In
  <2> QED
    BY <1>4, <1>8, <2>3, <2>4, <2>5, <2>6
<1>10. objectPath \in [Live -> A]
  <2>1. DOMAIN objectPath = Live /\ objectPath = [i \in Live |-> objectPath[i]]
    BY <1>7
  <2> QED
    BY <1>4, <1>9, <2>1
<1> QED
  BY <1>8, <1>10 DEF ObjectPaths, A, Nested

LEMMA LastWordsEqual ==
  ASSUME NEW p \in Seq(Words), NEW q \in Seq(Words), NEW a \in Words, NEW b \in Words,
         p \o <<a>> = q \o <<b>>
  PROVE  a = b
<1>1. Len(p \o <<a>>) = Len(p) + 1 /\ Len(q \o <<b>>) = Len(q) + 1
  OBVIOUS
<1>2. Len(p) = Len(q) /\ Len(p) \in Nat /\ Len(q) \in Nat
  BY <1>1
<1>3. (p \o <<a>>)[Len(p) + 1] = a /\ (q \o <<b>>)[Len(q) + 1] = b
  OBVIOUS
<1> QED
  BY <1>2, <1>3

(* Two rows whose ids end in the same word have one name. *)
LEMMA NamesEqual ==
  ASSUME NEW p \in Seq(Words), NEW q \in Seq(Words),
         NEW m \in PlainNames, NEW n \in PlainNames, p \o m = q \o n
  PROVE  m = n
<1>1. PICK a \in Words, b \in Words : m = <<a>> /\ n = <<b>>
  BY DEF PlainNames
<1> QED
  BY <1>1, LastWordsEqual

LEMMA Served == RowsInv => ServedUnlessNamesake
<1> SUFFICES ASSUME RowsInv, NEW v \in DOMAIN variables,
                    \A i \in In(v.space) : objects[i].name \in PlainNames, ~ IsServed(v)
             PROVE  \E i \in In(v.space) :
                      objects[i].name = v.name /\ objectPath[i] = ParentPath(v) \o v.name
  BY DEF ServedUnlessNamesake
<1>1. /\ objectPath \in [Live -> Seq(Words)]
      /\ \A i \in Live :
           objectPath[i] = IF objects[i].parent \in In(objects[i].space)
                           THEN objectPath[objects[i].parent] \o objects[i].name
                           ELSE objects[i].name
  BY ObjectPathOf DEF ObjectPaths
<1>2. \A s : In(s) \subseteq Live
  BY DEF In
<1>3. \A w \in DOMAIN variables : /\ ParentPath(w) \in Seq(Words)
                                 /\ VariableId(w) = ParentPath(w) \o w.name
                                 /\ w \in Variable /\ w.name \in PlainNames
  <2>1. \A w \in DOMAIN variables : ParentPath(w) \in Seq(Words)
    BY <1>1, <1>2 DEF ParentPath
  <2> QED
    BY <2>1 DEF VariableId, RowsInv, TypeOK, Variable
<1>4. ASSUME NEW w \in DOMAIN variables \ {v}, w.space = v.space, VariableId(w) = VariableId(v)
      PROVE  FALSE
  <2>1. w.name = v.name
    BY <1>3, <1>4, NamesEqual
  <2>2. w \in Variable /\ v \in Variable
    BY <1>3
  <2>3. w = v
    BY <1>4, <2>1, <2>2 DEF Variable
  <2> QED
    BY <2>3
<1>5. PICK i \in buildTree(v.space) : objectPath[i] = VariableId(v)
  BY <1>4 DEF IsServed
<1>6. i \in In(v.space) /\ i \in Live /\ objects[i].name \in PlainNames
  <2>1. PICK level : /\ \A k \in 1 .. MaxDepth :
                            level[k] = NextLevel(v.space, k, level[k - 1])
                     /\ buildTree(v.space) = UNION {level[k] : k \in 1 .. MaxDepth}
    BY LevelsOfTree
  <2>2. \A k, last : NextLevel(v.space, k, last) \subseteq In(v.space)
    BY DEF NextLevel, RootsOf
  <2>3. i \in In(v.space)
    BY <1>5, <2>1, <2>2
  <2> QED
    BY <1>2, <2>3
<1>7. \E p \in Seq(Words) : objectPath[i] = p \o objects[i].name
  <2>1. CASE objects[i].parent \in In(objects[i].space)
    BY <1>1, <1>2, <1>6, <2>1
  <2>2. CASE objects[i].parent \notin In(objects[i].space)
    <3>1. objects[i].name \in Seq(Words)
      BY <1>1, <1>6, <2>2
    <3>2. <<>> \in Seq(Words) /\ <<>> \o objects[i].name = objects[i].name
      BY <3>1
    <3> QED
      BY <1>1, <1>6, <2>2, <3>2
  <2> QED
    BY <2>1, <2>2
<1>8. objects[i].name = v.name
  <2>1. PICK p \in Seq(Words) : objectPath[i] = p \o objects[i].name
    BY <1>7
  <2>2. p \o objects[i].name = ParentPath(v) \o v.name
    BY <1>3, <1>5, <2>1
  <2>3. /\ ParentPath(v) \in Seq(Words)
        /\ v.name \in PlainNames /\ objects[i].name \in PlainNames
    BY <1>3, <1>6
  <2> QED
    BY <2>2, <2>3, NamesEqual
<1> QED
  BY <1>3, <1>5, <1>6, <1>8

(* A variable whose names have no dots is served, but for a namesake. *)
THEOREM TreeIsServed == Spec => []ServedUnlessNamesake
BY Served, RowsInvariant, PTL

-----------------------------------------------------------------------------
(* The path of the file ends, too, with the name of the object node. *)
ExportPaths ==
  /\ exportPath \in [Live \cup {Root} -> Seq(Words)] /\ exportPath[Root] = <<>>
  /\ \A i \in Live : exportPath[i] = exportPath[objects[i].parent] \o objects[i].name

LEMMA ExportPathOf == RowsInv => ExportPaths
<1> SUFFICES ASSUME RowsInv PROVE ExportPaths
  OBVIOUS
<1> DEFINE A == Seq(Words)
           step == [x \in Live \X A |-> x[2] \o objects[x[1]].name]
           Solution(f) == f = [i \in Live \cup {Root} |->
                                 IF i = Root THEN <<>> ELSE f[objects[i].parent] \o objects[i].name]
<1>1. \A i \in Live : objects[i].name \in A
  BY NamesAreWords DEF RowsInv, TypeOK, Object
<1>2. IsStep(step, Live, A) /\ <<>> \in A
  <2>1. \A x \in Live \X A : x[2] \o objects[x[1]].name \in A
    BY <1>1
  <2> QED
    BY <2>1 DEF IsStep
<1>3. PICK f : Solves(f, Parents, Live, A, <<>>, step)
  <2> HIDE DEF step, A
  <2> QED
    BY <1>2, ParentsAreRows, RecursiveFunction, Zenon
<1> HIDE DEF A
<1>4. /\ f \in [Live \cup {0} -> A] /\ f[0] = <<>>
      /\ \A i \in Live : f[i] = f[objects[i].parent] \o objects[i].name
  <2>1. f \in [Live \cup {0} -> A] /\ f[0] = <<>>
    BY <1>3 DEF Solves
  <2>2. \A i \in Live : /\ f[i] = step[<<i, f[objects[i].parent]>>]
                        /\ f[objects[i].parent] \in A
    BY <1>3, <2>1, ParentsAreRows DEF Solves
  <2>3. \A i \in Live, p \in A : step[<<i, p>>] = p \o objects[i].name
    OBVIOUS
  <2> HIDE DEF step
  <2> QED
    BY <2>1, <2>2, <2>3
<1>5. Solution(f)
  BY <1>4, ParentsAreRows DEF LeadsToZero
<1>6. exportPath = CHOOSE h : Solution(h)
  BY DEF exportPath
<1>7. Solution(exportPath)
  <2> HIDE DEF Solution
  <2> QED
    BY <1>5, <1>6
<1>8. /\ exportPath[Root] = <<>>
      /\ \A i \in Live : exportPath[i] = exportPath[objects[i].parent] \o objects[i].name
  BY <1>7, ParentsAreRows DEF LeadsToZero
<1>9. \A i \in Live \cup {0} : exportPath[i] = f[i]
  <2>0. exportPath[0] = f[0]
    BY <1>4, <1>8 DEF Root
  <2>1. ASSUME NEW i \in Live, exportPath[Parents[i]] = f[Parents[i]]
        PROVE  exportPath[i] = f[i]
    <3>1. Parents[i] = objects[i].parent
      BY ParentsAreRows
    <3> QED
      BY <1>4, <1>8, <2>1, <3>1
  <2>2. Agree(exportPath, f, Parents, Live)
    BY <2>0, <2>1 DEF Agree
  <2> QED
    BY <2>2, ParentsAreRows, OneSolution
<1>10. exportPath \in [Live \cup {Root} -> A]
  <2>1. exportPath = [i \in Live \cup {Root} |-> exportPath[i]]
    BY <1>7
  <2>2. \A i \in Live \cup {Root} : exportPath[i] \in A
    BY <1>4, <1>9, ParentsAreRows
  <2> QED
    BY <2>1, <2>2
<1> QED
  BY <1>8, <1>10 DEF ExportPaths, A

(* One part more looks below what the parts before it reach. *)
LEMMA ReachedOneMore ==
  ASSUME NEW s, NEW path \in Seq(Words), NEW w \in Words
  PROVE  Reached(s, path \o <<w>>) = Below(s, w, Reached(s, path))
<1> DEFINE n == Len(path)
           longer == path \o <<w>>
<1>1. /\ n \in Nat /\ Len(longer) = n + 1 /\ longer[n + 1] = w
      /\ \A k \in 1 .. n : longer[k] = path[k]
  OBVIOUS
<1> HIDE DEF longer
<1>2. PICK f : IsFound(f, s, path) /\ Reached(s, path) = f[n]
  BY <1>1, ReachedByParts
<1>3. PICK g : IsFound(g, s, longer) /\ Reached(s, longer) = g[n + 1]
  BY <1>1, ReachedByParts
<1>4. \A k \in 0 .. n : g[k] = f[k]
  <2> DEFINE differ == {k \in 0 .. n : g[k] # f[k]}
  <2>1. SUFFICES ASSUME differ # {} PROVE FALSE
    OBVIOUS
  <2>2. differ \in SUBSET Nat
    BY <1>1
  <2>3. PICK k \in differ : \A j \in differ : k <= j
    BY <2>1, <2>2, LeastNumber
  <2>4. k # 0
    BY <1>2, <1>3, <2>3 DEF IsFound
  <2>5. k \in 1 .. n /\ k \in 1 .. Len(longer) /\ k - 1 \in 0 .. n /\ ~ (k <= k - 1)
    BY <1>1, <2>3, <2>4
  <2>6. g[k - 1] = f[k - 1]
    BY <2>3, <2>5
  <2>7. f[k] = Below(s, path[k], f[k - 1]) /\ g[k] = Below(s, longer[k], g[k - 1])
    BY <1>2, <1>3, <2>5 DEF IsFound
  <2> QED
    BY <1>1, <2>3, <2>5, <2>6, <2>7
<1>5. n + 1 \in 1 .. Len(longer) /\ (n + 1) - 1 = n /\ n \in 0 .. n
  BY <1>1
<1>6. g[n + 1] = Below(s, longer[n + 1], g[n])
  <2>1. g[n + 1] = Below(s, longer[n + 1], g[(n + 1) - 1])
    BY <1>3, <1>5 DEF IsFound
  <2> QED
    BY <1>5, <2>1
<1> QED
  BY <1>1, <1>2, <1>3, <1>4, <1>5, <1>6 DEF longer

(* Where the path of a row stays in the namespace of v, without slashes. *)
IsPlain(v, plain) ==
  \A i \in Live : plain[i] = TRUE =>
    objects[i].space = v.space /\ Len(objects[i].name) = 1 /\ plain[objects[i].parent] = TRUE

LEMMA PlainAbove ==
  ASSUME RowsInv, NEW v \in DOMAIN variables, InOneSpace(v)
  PROVE  \E plain : IsPlain(v, plain) /\ plain[variables[v]] = TRUE
<1> DEFINE A == BOOLEAN
           Here(i) == objects[i].space = v.space /\ Len(objects[i].name) = 1
           step == [x \in Live \X A |-> Here(x[1]) /\ x[2]]
           Solution(f) == f = [i \in Live \cup {Root} |->
                                 i = Root \/ (objects[i].space = v.space
                                              /\ Len(objects[i].name) = 1 /\ f[objects[i].parent])]
<1>1. IsStep(step, Live, A) /\ TRUE \in A
  BY DEF IsStep
<1>2. PICK f : Solves(f, Parents, Live, A, TRUE, step)
  <2> HIDE DEF step, A
  <2> QED
    BY <1>1, ParentsAreRows, RecursiveFunction, Zenon
<1>3. Solution(f)
  <2>1. f \in [Live \cup {0} -> BOOLEAN] /\ f[0] = TRUE
    BY <1>2 DEF Solves
  <2>2. ASSUME NEW i \in Live PROVE f[i] = (Here(i) /\ f[objects[i].parent])
    <3>1. f[i] = step[<<i, f[objects[i].parent]>>]
      BY <1>2, ParentsAreRows DEF Solves
    <3>2. f[objects[i].parent] \in A
      BY <2>1, ParentsAreRows
    <3> QED
      BY <3>1, <3>2
  <2>3. \A i \in Live : i # Root
    BY ParentsAreRows DEF LeadsToZero
  <2>4. \A i \in Live \cup {Root} : f[i] = (i = Root \/ (Here(i) /\ f[objects[i].parent]))
    BY <2>1, <2>2, <2>3 DEF Root
  <2>5. f = [i \in Live \cup {Root} |-> f[i]]
    BY <2>1 DEF Root
  <2> QED
    BY <2>4, <2>5
<1> DEFINE above == CHOOSE h : Solution(h)
<1>4. Solution(above)
  <2> HIDE DEF Solution
  <2> QED
    BY <1>3
<1>5. above[variables[v]]
  BY DEF InOneSpace
<1> HIDE DEF above
<1>6. \A i \in Live \cup {Root} : above[i] = (i = Root \/ (Here(i) /\ above[objects[i].parent]))
  BY <1>4
<1>7. variables[v] \in Live \cup {Root} /\ \A i \in Live : i # Root
  BY ParentsAreRows DEF LeadsToZero, RowsInv, TypeOK
<1> DEFINE plain == [i \in Live \cup {Root} |-> IF above[i] THEN TRUE ELSE FALSE]
<1>8. \A i \in Live : objects[i].parent \in Live \cup {Root}
  BY DEF RowsInv, TypeOK
<1>9. IsPlain(v, plain)
  BY <1>6, <1>7, <1>8 DEF IsPlain
<1>10. plain[variables[v]] = TRUE
  BY <1>5, <1>7
<1> QED
  BY <1>9, <1>10

LEMMA PathLeadsBack ==
  ASSUME RowsInv, NEW v \in DOMAIN variables, InOneSpace(v)
  PROVE  Reached(v.space, exportPath[variables[v]]) = {variables[v]}
<1>1. PICK plain : IsPlain(v, plain) /\ plain[variables[v]] = TRUE
  BY PlainAbove
<1>2. variables[v] \in Live \cup {Root}
  BY DEF RowsInv, TypeOK
<1>3. /\ exportPath \in [Live \cup {Root} -> Seq(Words)] /\ exportPath[Root] = <<>>
      /\ \A i \in Live : exportPath[i] = exportPath[objects[i].parent] \o objects[i].name
  BY ExportPathOf DEF ExportPaths
<1> DEFINE s == v.space
           LeadsBack(i) == Reached(s, exportPath[i]) = {i}
           lost == {i \in Live \cup {Root} : plain[i] = TRUE /\ ~ LeadsBack(i)}
<1>4. SUFFICES ASSUME lost # {} PROVE FALSE
  BY <1>1, <1>2
<1>5. lost \in SUBSET Nat
  BY ParentsAreRows
<1>6. PICK i \in lost : \A j \in lost : i <= j
  BY <1>4, <1>5, LeastNumber
<1>7. CASE i = Root
  <2>1. Len(<<>>) = 0
    OBVIOUS
  <2>2. PICK found : IsFound(found, s, <<>>) /\ Reached(s, <<>>) = found[0]
    BY <2>1, ReachedByParts
  <2>3. Reached(s, <<>>) = {Root}
    BY <2>2 DEF IsFound
  <2> QED
    BY <1>3, <1>6, <1>7, <2>3
<1>8. CASE i \in Live
  <2> DEFINE p == objects[i].parent
  <2>1. /\ objects[i].space = s /\ Len(objects[i].name) = 1 /\ plain[p] = TRUE
        /\ p \in Live \cup {Root} /\ p < i /\ i \in Nat /\ p \in Nat
    BY <1>1, <1>5, <1>6, <1>8, ParentsAreRows DEF IsPlain, RowsInv, RowsGrow, TypeOK
  <2>2. PICK w \in Words : objects[i].name = <<w>>
    <3>1. objects[i].name \in Names
      BY <1>8 DEF RowsInv, TypeOK, Object
    <3>2. \A n \in Words \X Words : Len(n) = 2
      OBVIOUS
    <3> QED
      BY <2>1, <3>1, <3>2 DEF Names, PlainNames
  <2>3. p \notin lost
    BY <1>6, <2>1
  <2>4. Reached(s, exportPath[p]) = {p}
    BY <2>1, <2>3
  <2>5. exportPath[p] \in Seq(Words) /\ exportPath[i] = exportPath[p] \o <<w>>
    BY <1>3, <1>8, <2>1, <2>2
  <2>6. Reached(s, exportPath[i]) = Below(s, w, {p})
    <3>1. Reached(s, exportPath[p] \o <<w>>) = Below(s, w, Reached(s, exportPath[p]))
      BY <2>5, ReachedOneMore
    <3> QED
      BY <2>4, <2>5, <3>1
  <2>7. Below(s, w, {p}) = {j \in In(s) : objects[j].name = <<w>> /\ objects[j].parent = p}
    BY DEF Below
  <2>8. i \in Below(s, w, {p})
    BY <1>8, <2>1, <2>2, <2>7 DEF In
  <2>9. ASSUME NEW j \in Below(s, w, {p}) PROVE j = i
    <3>1. /\ j \in Live /\ objects[j].space = s
          /\ objects[j].name = <<w>> /\ objects[j].parent = p
      BY <2>7, <2>9 DEF In
    <3>2. objects[i] \in Object /\ objects[j] \in Object
      BY <1>8, <3>1 DEF RowsInv, TypeOK
    <3>3. objects[i] = objects[j]
      BY <2>1, <2>2, <3>1, <3>2 DEF Object
    <3> QED
      BY <1>8, <3>1, <3>3 DEF RowsInv, TypeOK, IsUnique
  <2>10. LeadsBack(i)
    BY <2>6, <2>8, <2>9
  <2> QED
    BY <1>6, <2>10
<1> QED
  BY <1>6, <1>7, <1>8

(* The file of an export leads an import back to where the variables are. *)
THEOREM TreeExportImports == Spec => []ExportImports
<1>1. RowsInv => ExportImports
  BY PathLeadsBack DEF ExportImports
<1> QED
  BY <1>1, RowsInvariant, PTL
=============================================================================

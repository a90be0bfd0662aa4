----------------------------- MODULE RBTreeProofs -----------------------------
(***************************************************************************)
(* The tree of rbtree.c, for any set of addresses: its links agree at      *)
(* every moment, it stays balanced, and a search finds what is there.      *)
(*                                                                         *)
(* What a recursive definition would say of a tree is said by a labelling  *)
(* of its nodes that a step changes in a few places: the nodes below each  *)
(* one, and the black nodes on every path down from it.  No labelling is   *)
(* computed; each action shows how the new one comes from the old.         *)
(***************************************************************************)
EXTENDS RBTreeProperties, FiniteSetTheorems, WellFoundedInduction, TLAPS

(* b[n] is what is in the subtree of n: it is a search tree. *)
Ordered(b) ==
    /\ b \in [Node -> SUBSET nodes]
    /\ b[Nil] = {}
    /\ b[root] = nodes
    /\ \A n \in nodes : \A m \in nodes :
          m \in b[n] <=> m = n \/ \E s \in Side : m \in b[child[s][n]]
    /\ \A n \in nodes : \A s \in Side : \A m \in b[child[s][n]] : m # n /\ Way(m, n) = s
    /\ \A n \in nodes : \A m \in b[n] : b[m] \subseteq b[n] /\ (m # n => parent[m] \in b[n])

(* h[n] is the number of black nodes on every path down from n. *)
Heights(h) ==
    /\ h \in [Node -> Nat]
    /\ \A n \in nodes : \A s \in Side : BlackOn(h, s, n) = h[n]

(* What is not in the tree has no fields; what is has a struct of its own. *)
Fields ==
    /\ \A n \in Node \ nodes :
          color[n] = "BLACK" /\ item[n] = NULL /\ \A s \in Side : child[s][n] = Nil
    /\ \A n \in nodes : item[n] \in Structs[n]

RedsApart ==
    \A n \in nodes :
       color[n] = "RED" /\ (n = root \/ color[parent[n]] = "RED") => BeingFixed(n)

-----------------------------------------------------------------------------
(* What the local variables of the operation under way say of the tree *)

(* The key, if it is there, is below x; it belongs where x hangs below y. *)
DescendOK(b) ==
    op.pc = "descend" =>
       /\ op.z \in Keys /\ op.val \in Structs[op.z]
       /\ op.x \in nodes \cup {Nil} /\ op.y \in nodes \cup {Nil}
       /\ op.z \in nodes => op.z \in b[op.x]
       /\ op.y = Nil => op.x = root
       /\ op.y # Nil => op.z # op.y /\ op.x = child[Way(op.z, op.y)][op.y]
       /\ \A n \in nodes : op.y \in b[n] /\ n # op.y => op.z # n /\ Way(op.z, n) = Way(op.y, n)

InsertFixupOK == op.pc = "insert_fixup" => op.z \in nodes /\ color[op.z] = "RED"

(* The least key above z is y's or below y. *)
SuccessorOK(b) ==
    op.pc = "successor" =>
       /\ op.z \in nodes /\ op.y \in nodes
       /\ op.y = op.z => Left(op.z) = Nil \/ Right(op.z) = Nil
       /\ op.y # op.z =>
             /\ op.y \in b[Right(op.z)]
             /\ \A k \in b[Right(op.z)] : k \in b[op.y] \/ (k # op.y /\ Way(k, op.y) = "right")

(* Nil has a place of its own while it is the node that is a black short. *)
DeleteFixupOK ==
    op.pc = "delete_fixup" =>
       /\ op.x \in nodes \cup {Nil}
       /\ op.x = Nil /\ root # Nil =>
             parent[Nil] \in nodes /\ child[SideOf(Nil)][parent[Nil]] = Nil

(* The inductive invariant *)
Inv ==
    /\ TypeOK
    /\ Coherent
    /\ Fields
    /\ RedsApart
    /\ \E b : Ordered(b) /\ DescendOK(b) /\ SuccessorOK(b)
    /\ \E h : Heights(h)
    /\ InsertFixupOK
    /\ DeleteFixupOK

-----------------------------------------------------------------------------
(* The shape of a search tree *)

(* Two sides, each the opposite of the other *)
LEMMA SideFacts ==
    /\ Side = {"left", "right"} /\ "left" # "right"
    /\ \A s \in Side : Opposite[s] \in Side /\ Opposite[s] # s /\ Opposite[Opposite[s]] = s
    /\ \A s \in Side : \A t \in Side : t = s \/ t = Opposite[s]
    /\ Nil \notin Keys /\ Nil \in Node
    /\ Opposite["left"] = "right" /\ Opposite["right"] = "left"
  BY KeyAssumption DEF Side, Opposite, Nil, Node

(* Addresses are in a linear order. *)
LEMMA WayFacts ==
    /\ \A k, n \in Keys : Way(k, n) \in Side
    /\ \A k, n \in Keys : k # n => Way(n, k) = Opposite[Way(k, n)]
    /\ \A s \in Side : \A k, m, n \in Keys :
          k # m /\ n # m /\ Way(k, m) = s /\ Way(n, m) = Opposite[s] => k # n /\ Way(k, n) = s
  <1>1. \A k \in Keys : k \in Nat
    BY KeyAssumption
  <1> QED
    BY <1>1, SideFacts DEF Way, Side, Opposite

(* Nodes and fields are what their types say; nil is no linked node. *)
LEMMA NodeFacts ==
    ASSUME TypeOK
    PROVE  /\ \A n \in nodes : n \in Keys /\ n \in Node /\ n # Nil
           /\ \A n \in Node : n # Nil => n \in Keys
           /\ \A s \in Side : \A n \in Node : child[s][n] \in Node
           /\ \A n \in Node : parent[n] \in Node /\ SideOf(n) \in Side
           /\ nodes \subseteq Node
  BY SideFacts DEF TypeOK, Node, SideOf

(* A child: whose it is, and that nothing is above itself. *)
LEMMA ChildFacts ==
    ASSUME TypeOK, Coherent, NEW b, Ordered(b), NEW n \in nodes, NEW s \in Side,
           child[s][n] # Nil
    PROVE  LET c == child[s][n] IN
           /\ c \in nodes /\ c # n /\ c # root /\ parent[c] = n /\ SideOf(c) = s
           /\ c \in b[c] /\ c \in b[n] /\ n \notin b[c] /\ Way(c, n) = s
           /\ b[c] \subseteq b[n]
           /\ child[Opposite[s]][n] # c
  <1> DEFINE c == child[s][n]
  <1>1. c \in nodes /\ parent[c] = n /\ n # Nil
    BY NodeFacts DEF Coherent
  <1>2. c \in b[c]
    BY <1>1 DEF Ordered
  <1>3. c # n /\ Way(c, n) = s /\ n \notin b[c] /\ c \in b[n]
    BY <1>1, <1>2 DEF Ordered
  <1>4. c # root
    BY <1>1 DEF Coherent
  <1>5. child[Opposite[s]][n] # c
    BY <1>1, SideFacts DEF Coherent, Left, Right
  <1>6. SideOf(c) = s
    BY <1>1, <1>5, SideFacts DEF SideOf, Left
  <1>7. b[c] \subseteq b[n]
    BY <1>3 DEF Ordered
  <1> QED
    BY <1>1, <1>2, <1>3, <1>4, <1>5, <1>6, <1>7

(* A parent: every node but the root hangs below one, in one place. *)
LEMMA ParentFacts ==
    ASSUME TypeOK, Coherent, NEW b, Ordered(b), NEW n \in nodes
    PROVE  /\ n \in b[n] /\ root \in nodes
           /\ n = root <=> parent[n] = Nil
           /\ n # root => /\ parent[n] \in nodes /\ parent[n] # n /\ SideOf(n) \in Side
                          /\ child[SideOf(n)][parent[n]] = n
                          /\ \A t \in Side : child[t][parent[n]] = n => t = SideOf(n)
           /\ \A m \in Node : \A t \in Side : child[t][m] = n /\ m \in nodes => m = parent[n] /\ t = SideOf(n)
  <1>1. n \in b[n] /\ root \in nodes /\ n # Nil /\ (n = root <=> parent[n] = Nil)
    BY NodeFacts DEF Ordered, Coherent
  <1>2. ASSUME NEW m \in nodes, NEW t \in Side, child[t][m] = n
        PROVE  m = parent[n] /\ t = SideOf(n) /\ n # m
    BY <1>1, <1>2, ChildFacts
  <1>3. n # root => parent[n] \in nodes /\ \E s \in Side : child[s][parent[n]] = n
    BY DEF Coherent
  <1> QED
    BY <1>1, <1>2, <1>3, NodeFacts

-----------------------------------------------------------------------------
(* left_rotate and right_rotate *)

TypeOfTree ==
    /\ nodes \subseteq Keys
    /\ root \in Node
    /\ child \in [Side -> [Node -> Node]]
    /\ parent \in [Node -> Node]

(* A write to one link keeps the type of the links. *)
LEMMA ExceptType ==
    ASSUME NEW f \in [Side -> [Node -> Node]], NEW s \in Side, NEW n \in Node, NEW m \in Node
    PROVE  [f EXCEPT ![s][n] = m] \in [Side -> [Node -> Node]]
  OBVIOUS

(* Which links a rotation writes. *)
LEMMA RotateWrites ==
    ASSUME TypeOfTree, NEW x \in Node, NEW s \in Side, Rotate(x, s),
           LET y == child[Opposite[s]][x]
               inner == child[s][y]
           IN  y # x /\ inner # x /\ inner # y
    PROVE  LET o == Opposite[s]
               y == child[o][x]
               inner == child[s][y]
           IN  /\ \A t \in Side : \A n \in Node :
                     child'[t][n] = IF parent[x] # Nil /\ n = parent[x] /\ t = SideOf(x) THEN y
                                    ELSE IF t = s /\ n = y THEN x
                                    ELSE IF t = o /\ n = x THEN inner
                                    ELSE child[t][n]
               /\ root' = IF parent[x] = Nil THEN y ELSE root
               /\ \A n \in Node :
                     parent'[n] = IF n = x THEN y ELSE IF n = y THEN parent[x]
                                  ELSE IF n = inner /\ n # Nil THEN x ELSE parent[n]
               /\ root' \in Node /\ child' \in [Side -> [Node -> Node]] /\ parent' \in [Node -> Node]
  <1> DEFINE o == Opposite[s]
             y == child[o][x]
             inner == child[s][y]
             turned == [child EXCEPT ![o][x] = inner, ![s][y] = x]
             above == [n \in Node |-> CASE n = x -> y
                                        [] n = y -> parent[x]
                                        [] n = inner /\ n # Nil -> x
                                        [] OTHER -> parent[n]]
  <1>1. o \in Side /\ o # s /\ parent[x] \in Node /\ SideOf(x) \in Side
    BY SideFacts DEF TypeOfTree, SideOf, Side
  <1>2. y \in Node /\ inner \in Node /\ y # x /\ inner # x /\ inner # y
    BY <1>1 DEF TypeOfTree
  <1>3. /\ IF parent[x] = Nil
           THEN root' = y /\ child' = turned
           ELSE child' = [turned EXCEPT ![SideOf(x)][parent[x]] = y] /\ UNCHANGED root
        /\ parent' = above
    BY Zenon DEF Rotate
  <1>4. \A n \in Node :
           above[n] = IF n = x THEN y ELSE IF n = y THEN parent[x]
                      ELSE IF n = inner /\ n # Nil THEN x ELSE parent[n]
    <2> HIDE DEF o, y, inner
    <2> TAKE n \in Node
    <2>1. CASE n = x
      BY <2>1, <1>2
    <2>2. CASE n # x /\ n = y
      BY <2>2, <1>2
    <2>3. CASE n # x /\ n # y /\ n = inner /\ n # Nil
      BY <2>3
    <2>4. CASE n # x /\ n # y /\ ~(n = inner /\ n # Nil)
      BY <2>4
    <2> QED
      BY <2>1, <2>2, <2>3, <2>4
  <1>5. /\ turned \in [Side -> [Node -> Node]]
        /\ \A t \in Side : \A n \in Node :
              turned[t][n] = IF t = s /\ n = y THEN x
                             ELSE IF t = o /\ n = x THEN inner
                             ELSE child[t][n]
    <2> HIDE DEF o, y, inner
    <2> QED
      BY <1>1, <1>2 DEF TypeOfTree
  <1> HIDE DEF o, y, inner, turned, above
  <1>6. \A t \in Side : \A n \in Node :
           child'[t][n] = IF parent[x] # Nil /\ n = parent[x] /\ t = SideOf(x) THEN y
                          ELSE turned[t][n]
    BY <1>1, <1>2, <1>3, <1>5
  <1>7. /\ \A t \in Side : \A n \in Node :
              child'[t][n] = IF parent[x] # Nil /\ n = parent[x] /\ t = SideOf(x) THEN y
                             ELSE IF t = s /\ n = y THEN x
                             ELSE IF t = o /\ n = x THEN inner
                             ELSE child[t][n]
        /\ root' = IF parent[x] = Nil THEN y ELSE root
        /\ \A n \in Node :
              parent'[n] = IF n = x THEN y ELSE IF n = y THEN parent[x]
                           ELSE IF n = inner /\ n # Nil THEN x ELSE parent[n]
    BY <1>3, <1>4, <1>5, <1>6
  <1>8. root' \in Node /\ child' \in [Side -> [Node -> Node]]
    <2>1. CASE parent[x] = Nil
      BY <2>1, <1>2, <1>3, <1>5
    <2>2. CASE parent[x] # Nil
      <3>1. [turned EXCEPT ![SideOf(x)][parent[x]] = y] \in [Side -> [Node -> Node]]
        BY <1>1, <1>2, <1>5, ExceptType
      <3> QED
        BY <2>2, <3>1, <1>3 DEF TypeOfTree
    <2> QED
      BY <2>1, <2>2
  <1>9. parent' \in [Node -> Node]
    <2>1. \A n \in Node : above[n] \in Node
      BY <1>1, <1>2, <1>4 DEF TypeOfTree
    <2> QED
      BY <2>1, <1>3 DEF above
  <1> QED
    BY <1>7, <1>8, <1>9 DEF o, y, inner

(* A rotation at x that lifts y: p is above them, i changes sides. *)
Turned(x, s, p, y, i) ==
    /\ x \in nodes /\ s \in Side /\ y \in nodes /\ p \in Node /\ i \in Node
    /\ p = parent[x] /\ y = child[Opposite[s]][x] /\ i = child[s][y] /\ parent[y] = x
    /\ y # x /\ p # x /\ p # y /\ i # x /\ i # y /\ y # root
    /\ SideOf(y) = Opposite[s] /\ Way(y, x) = Opposite[s]
    /\ i # Nil => /\ i \in nodes /\ parent[i] = y /\ SideOf(i) = s
                  /\ Way(i, x) = Opposite[s] /\ Way(i, y) = s
    /\ p # Nil => p \in nodes /\ x # root /\ SideOf(x) \in Side /\ child[SideOf(x)][p] = x
    /\ p = Nil => x = root
    /\ \A t \in Side : \A n \in Node :
          child'[t][n] = IF p # Nil /\ n = p /\ t = SideOf(x) THEN y
                         ELSE IF t = s /\ n = y THEN x
                         ELSE IF t = Opposite[s] /\ n = x THEN i
                         ELSE child[t][n]
    /\ root' = IF p = Nil THEN y ELSE root
    /\ \A n \in Node :
          parent'[n] = IF n = x THEN y ELSE IF n = y THEN p
                       ELSE IF n = i /\ n # Nil THEN x ELSE parent[n]
    /\ nodes' = nodes

(* A rotation in a tree whose links agree: who is related to whom *)
LEMMA RotateTurns ==
    ASSUME TypeOK, Coherent, NEW b, Ordered(b),
           NEW x \in nodes, NEW s \in Side, child[Opposite[s]][x] # Nil,
           Rotate(x, s), UNCHANGED nodes
    PROVE  /\ Turned(x, s, parent[x], child[Opposite[s]][x], child[s][child[Opposite[s]][x]])
           /\ TypeOfTree'
  <1> DEFINE o == Opposite[s]
             y == child[o][x]
             p == parent[x]
             i == child[s][y]
  <1>1. /\ o \in Side /\ o # s /\ \A t \in Side : t = s \/ t = o
        /\ x \in Node /\ x # Nil /\ y \in nodes /\ y \in Node /\ y # Nil /\ parent[y] = x
        /\ p \in Node /\ i \in Node
        /\ \A n \in nodes : n \in Node /\ n # Nil
    BY SideFacts DEF TypeOK, Coherent, Node
  <1>2. /\ i # Nil => i \in nodes /\ parent[i] = y
        /\ p # Nil => p \in nodes /\ x # root
        /\ p = Nil => x = root
        /\ root \in nodes /\ parent[root] = Nil
    BY <1>1 DEF Coherent
  <1>3. y # x /\ p # x /\ p # y /\ i # x /\ i # y /\ y # root
    <2>1. x \in b[x] /\ x \notin b[y] /\ y \in b[y] /\ y # x /\ y # root
      BY <1>1, ParentFacts, ChildFacts
    <2>2. p # Nil => x \in b[p] /\ p # x /\ p \notin b[x]
      BY <1>1, <1>2, ParentFacts, ChildFacts
    <2>3. i # Nil => i # y /\ y \notin b[i] /\ i \in b[y]
      BY <1>1, <1>2, ParentFacts, ChildFacts
    <2>4. y \in b[x]
      BY <1>1, ChildFacts
    <2> QED
      BY <2>1, <2>2, <2>3, <2>4, <1>1
  <1>4. p # Nil => /\ SideOf(x) \in Side /\ child[SideOf(x)][p] = x
                   /\ \A t \in Side : child[t][p] = x => t = SideOf(x)
    BY <1>1, <1>2, SideFacts DEF Coherent, SideOf, Left, Right
  <1>5. /\ \A t \in Side : \A n \in Node :
              child'[t][n] = IF p # Nil /\ n = p /\ t = SideOf(x) THEN y
                             ELSE IF t = s /\ n = y THEN x
                             ELSE IF t = o /\ n = x THEN i
                             ELSE child[t][n]
        /\ root' = IF p = Nil THEN y ELSE root
        /\ \A n \in Node :
              parent'[n] = IF n = x THEN y ELSE IF n = y THEN p
                           ELSE IF n = i /\ n # Nil THEN x ELSE parent[n]
        /\ root' \in Node /\ child' \in [Side -> [Node -> Node]] /\ parent' \in [Node -> Node]
    <2>1. Rotate(x, s) /\ x \in Node
      BY <1>1
    <2>2. TypeOfTree
      BY DEF TypeOK, TypeOfTree
    <2> QED
      BY <2>1, <2>2, <1>3, RotateWrites
  <1>6. SideOf(y) = o /\ Way(y, x) = o /\ y \in b[x] /\ b[y] \subseteq b[x] /\ Opposite[o] = s
    BY <1>1, ChildFacts, SideFacts
  <1>7. i # Nil => i \in b[y] /\ SideOf(i) = s /\ Way(i, y) = s
    BY <1>1, ChildFacts
  <1>8. i # Nil => Way(i, x) = o
    BY <1>1, <1>7 DEF Ordered
  <1>9. /\ x \in nodes /\ s \in Side /\ y \in nodes /\ i \in Node /\ p \in Node
        /\ p = parent[x] /\ y = child[o][x] /\ i = child[s][y] /\ parent[y] = x
    BY <1>1
  <1> HIDE DEF o, y, p, i
  <1>10. Turned(x, s, p, y, i)
    BY <1>1, <1>2, <1>3, <1>4, <1>5, <1>6, <1>7, <1>8, <1>9 DEF Turned, o
  <1>11. TypeOfTree'
    BY <1>5 DEF TypeOK, TypeOfTree
  <1> QED
    BY <1>10, <1>11 DEF o, y, p, i

(***************************************************************************)
(* left_rotate and right_rotate (rbtree.c:57): both directions of every    *)
(* link agree after a rotation if they did before, so that a search by     *)
(* another thread follows only links between nodes of the tree.            *)
(***************************************************************************)
THEOREM RotateKeepsCoherent ==
    ASSUME TypeOK, Coherent, NEW b, Ordered(b),
           NEW x \in nodes, NEW s \in Side, child[Opposite[s]][x] # Nil,
           Rotate(x, s), UNCHANGED nodes
    PROVE  Coherent'
  <1> DEFINE o == Opposite[s]
  <1> PICK y, p, i : Turned(x, s, p, y, i)
    BY RotateTurns
  <1>1. /\ o \in Side /\ o # s /\ \A t \in Side : t = s \/ t = o
        /\ x \in Node /\ x # Nil /\ y \in Node /\ y # Nil
        /\ \A n \in nodes : n \in Node /\ n # Nil
    BY SideFacts, NodeFacts DEF Turned
  <1> DEFINE moved(t, n) == \/ p # Nil /\ n = p /\ t = SideOf(x)
                            \/ t = s /\ n = y
                            \/ t = o /\ n = x
  <1>2. root' \in nodes /\ parent'[root'] = Nil /\ root' # Nil
    BY <1>1, ParentFacts DEF Turned
  <1>3. \A t \in Side : \A n \in nodes : ~moved(t, n) => child'[t][n] = child[t][n]
    BY <1>1 DEF Turned
  <1>4. /\ p # Nil => child'[SideOf(x)][p] = y
        /\ child'[s][y] = x /\ child'[o][x] = i
        /\ parent'[y] = p /\ parent'[x] = y /\ (i # Nil => parent'[i] = x)
    BY <1>1 DEF Turned
  <1>5. ASSUME NEW n \in nodes, NEW t \in Side, child'[t][n] # Nil
        PROVE  child'[t][n] \in nodes /\ parent'[child'[t][n]] = n
    <2>1. CASE moved(t, n)
      BY ZenonT(20), <2>1, <1>1, <1>4, <1>5 DEF Turned
    <2>2. CASE ~moved(t, n)
      <3> DEFINE m == child[t][n]
      <3>1. child'[t][n] = m /\ m # Nil /\ m \in nodes /\ parent[m] = n /\ SideOf(m) = t
        BY <2>2, <1>3, <1>5, ChildFacts
      <3>2. m # x /\ m # y /\ m # i
        BY <3>1, <2>2, <1>1 DEF Turned
      <3> QED
        BY SMTT(20), <3>1, <3>2, <1>1 DEF Turned
    <2> QED
      BY <2>1, <2>2
  <1>6. ASSUME NEW n \in nodes \ {root'}
        PROVE  parent'[n] \in nodes /\ \E t \in Side : child'[t][parent'[n]] = n
    <2>1. CASE n \in {x, y, i}
      BY ZenonT(20), <2>1, <1>1, <1>4 DEF Turned
    <2>2. CASE n \notin {x, y, i}
      <3>1. n # root /\ parent'[n] = parent[n]
        BY <2>2, <1>1 DEF Turned
      <3>2. parent[n] \in nodes /\ SideOf(n) \in Side /\ child[SideOf(n)][parent[n]] = n
        BY <3>1, ParentFacts
      <3>3. ~moved(SideOf(n), parent[n])
        BY <3>2, <2>2 DEF Turned
      <3> QED
        BY <3>1, <3>2, <3>3, <1>3
    <2> QED
      BY <2>1, <2>2
  <1>7. ASSUME NEW n \in nodes, child'["left"][n] # Nil
        PROVE  child'["left"][n] # child'["right"][n]
    <2>1. CASE n = p
      <3> DEFINE q == SideOf(x)
                 r == Opposite[q]
      <3>1. p # Nil /\ p \in nodes /\ q \in Side /\ r \in Side /\ r # q
        BY <2>1, <1>1, <1>7, SideFacts DEF Turned
      <3>2. child'[q][p] = y /\ child'[r][p] = child[r][p]
        <4>1. ~moved(r, p)
          BY <3>1 DEF Turned
        <4> QED
          BY <4>1, <3>1, <1>3, <1>4
      <3>3. child[r][p] # y
        BY <3>1, <1>1 DEF Turned, Coherent
      <3>4. "left" \in Side /\ "right" \in Side /\ \A t \in Side : t = q \/ t = r
        BY <3>1, SideFacts
      <3> QED
        BY <2>1, <3>2, <3>3, <3>4
    <2>2. CASE n = y
      <3>1. ~moved(o, y) /\ child[o][y] # x
        BY SMTT(20), <1>1, ParentFacts DEF Turned
      <3>2. child'[o][y] # child'[s][y]
        BY <3>1, <1>1, <1>3, <1>4 DEF Turned
      <3> QED
        BY <2>2, <3>2, <1>1, SideFacts
    <2>3. CASE n = x
      <3>1. ~moved(s, x) /\ (i # Nil => child[s][x] # i)
        BY <1>1, ParentFacts DEF Turned
      <3>2. child'[o][x] # Nil => child'[o][x] # child'[s][x]
        BY <3>1, <1>1, <1>3, <1>4 DEF Turned
      <3> QED
        BY <2>3, <3>2, <1>1, <1>7, SideFacts
    <2>4. CASE n \notin {p, x, y}
      BY <2>4, <1>3, <1>7, SideFacts DEF Coherent, Left, Right
    <2> QED
      BY <2>1, <2>2, <2>3, <2>4
  <1> QED
    BY ZenonT(20), <1>2, <1>5, <1>6, <1>7 DEF Coherent, Left, Right, Turned

(* A rotation keeps the order: only what is below x and y changes. *)
LEMMA RotateKeepsOrder ==
    ASSUME TypeOK, Coherent, NEW b, Ordered(b),
           NEW x, NEW s, NEW p, NEW y, NEW i, Turned(x, s, p, y, i)
    PROVE  \E bb : Ordered(bb)'
  <1> DEFINE o == Opposite[s]
             a == child[s][x]
  <1>p. PICK bb : bb = [b EXCEPT ![y] = b[x], ![x] = {x} \cup b[a] \cup b[i]]
    OBVIOUS
  <1>1. /\ o \in Side /\ o # s /\ \A t \in Side : t = s \/ t = o
        /\ x \in Node /\ x # Nil /\ y \in Node /\ y # Nil /\ x \in nodes /\ y \in nodes /\ x # y
        /\ \A n \in nodes : n \in Node /\ n # Nil
        /\ a \in Node /\ i \in Node /\ nodes' = nodes
        /\ b \in [Node -> SUBSET nodes] /\ b[Nil] = {}
    BY SideFacts, NodeFacts DEF Turned, Ordered
  <1>2. /\ y \in b[x] /\ x \in b[x] /\ y \in b[y] /\ b[y] \subseteq b[x] /\ x \notin b[y]
        /\ a # Nil => a # x /\ a # y /\ a \in nodes /\ parent[a] = x /\ a \in b[a]
        /\ b[a] \subseteq b[x] /\ x \notin b[a]
        /\ b[i] \subseteq b[y] /\ y \notin b[i]
    <2>1. \A t \in Side : child[t][x] # Nil =>
             /\ child[t][x] \in nodes /\ child[t][x] # x /\ parent[child[t][x]] = x
             /\ child[t][x] \in b[child[t][x]] /\ child[t][x] \in b[x]
             /\ x \notin b[child[t][x]] /\ b[child[t][x]] \subseteq b[x]
      BY <1>1, ChildFacts
    <2>2. a # Nil => child[o][x] # a
      BY SMTT(20), <1>1, ChildFacts DEF Turned
    <2>3. i # Nil => y \notin b[i] /\ b[i] \subseteq b[y]
      BY <1>1, ChildFacts DEF Turned
    <2> QED
      BY <2>1, <2>2, <2>3, <1>1, ParentFacts DEF Turned
  <1> DEFINE c == child[o][y]
  <1>k. c \in Node /\ child[o][x] = y /\ child[s][y] = i
    BY <1>1, NodeFacts DEF Turned
  <1>3. /\ \A m \in nodes : m \in b[x] <=> m = x \/ m \in b[a] \/ m \in b[y]
        /\ \A m \in nodes : m \in b[y] <=> m = y \/ m \in b[i] \/ m \in b[c]
    <2>1. \A n \in nodes : \A m \in nodes :
             m \in b[n] <=> m = n \/ \E t \in Side : m \in b[child[t][n]]
      BY DEF Ordered
    <2>2. s \in Side
      BY DEF Turned
    <2> QED
      BY <2>1, <2>2, <1>1, <1>k
  <1>4. /\ \A m \in b[a] : m \in nodes /\ m # x /\ Way(m, x) = s
        /\ \A m \in b[i] : m \in nodes /\ m # y /\ Way(m, y) = s
        /\ \A m \in b[c] : m \in nodes /\ m # y /\ Way(m, y) = o
        /\ \A m \in b[y] : m \in nodes /\ m # x /\ Way(m, x) = o
    <2>1. \A n \in nodes : \A t \in Side : \A m \in b[child[t][n]] : m # n /\ Way(m, n) = t
      BY DEF Ordered
    <2>2. \A n \in Node : b[n] \subseteq nodes
      BY <1>1
    <2>3. s \in Side
      BY DEF Turned
    <2> QED
      BY <2>1, <2>2, <2>3, <1>1, <1>k
  <1>m. \A m \in b[a] : m # y /\ Way(m, y) = s
    <2> TAKE m \in b[a]
    <2>1. m \in Keys /\ x \in Keys /\ y \in Keys /\ s \in Side
      BY <1>1, <1>4, NodeFacts DEF Turned
    <2>2. Way(y, x) = o /\ Way(m, x) = s /\ m # x /\ y # x
      BY <1>1, <1>4 DEF Turned
    <2> QED
      BY <2>1, <2>2, WayFacts
  <1>5. Way(x, y) = s
    BY SMTT(20), <1>1, WayFacts, NodeFacts, SideFacts DEF Turned
  <1>6. /\ bb[y] = b[x] /\ bb[x] = {x} \cup b[a] \cup b[i]
        /\ \A n \in Node : n # x /\ n # y => bb[n] = b[n]
        /\ bb \in [Node -> SUBSET nodes]
    BY <1>1, <1>2, <1>p
  <1>7. bb[Nil] = {} /\ bb[root'] = nodes
    <2>1. root' = (IF p = Nil THEN y ELSE root) /\ (p = Nil => x = root) /\ (p # Nil => x # root) /\ y # root
      BY DEF Turned
    <2>2. b[root] = nodes /\ root \in Node
      BY DEF Ordered, TypeOK
    <2> QED
      BY <2>1, <2>2, <1>1, <1>6, SideFacts
  <1>l. /\ \A t \in Side : \A n \in nodes :
              n # x /\ n # y => child'[t][n] = IF n = p /\ t = SideOf(x) THEN y ELSE child[t][n]
        /\ child'[s][x] = a /\ child'[o][x] = i /\ child'[s][y] = x /\ child'[o][y] = c
        /\ p \in nodes => child[SideOf(x)][p] = x /\ p # x /\ p # y
    BY SMTT(20), <1>1, <1>k DEF Turned
  <1>v. bb[a] = b[a] /\ bb[i] = b[i] /\ bb[c] = b[c]
    <2>1. c # y /\ c # x
      BY SMTT(20), <1>1, ParentFacts DEF Turned
    <2>2. a # x /\ a # y /\ i # x /\ i # y
      BY <1>1, <1>2 DEF Turned
    <2> QED
      BY <2>1, <2>2, <1>1, <1>6, <1>k
  <1>w. s \in Side /\ \A t \in Side : t = s \/ t = o
    BY <1>1 DEF Turned
  <1>x. /\ \A n \in nodes : \A m \in nodes : m \in b[n] <=> m = n \/ \E t \in Side : m \in b[child[t][n]]
        /\ \A n \in nodes : \A t \in Side : \A m \in b[child[t][n]] : m # n /\ Way(m, n) = t
    BY DEF Ordered
  <1>n. ASSUME NEW n \in nodes, n # x, n # y, NEW t \in Side
        PROVE  bb[child'[t][n]] = b[child[t][n]] /\ bb[n] = b[n]
    <2>1. child[t][n] # y /\ (child[t][n] = x => n = p /\ t = SideOf(x)) /\ child[t][n] \in Node
      BY SMTT(20), <1>1, <1>n, ParentFacts, NodeFacts DEF Turned
    <2> QED
      BY <2>1, <1>1, <1>6, <1>l, <1>n
  <1>8. ASSUME NEW n \in nodes, NEW m \in nodes
        PROVE  m \in bb[n] <=> m = n \/ \E t \in Side : m \in bb[child'[t][n]]
    <2>1. (\E t \in Side : m \in bb[child'[t][n]]) <=> m \in bb[child'[s][n]] \/ m \in bb[child'[o][n]]
      BY <1>w, <1>1
    <2>2. CASE n = x
      BY <2>1, <2>2, <1>6, <1>l, <1>v
    <2>3. CASE n = y
      BY <2>1, <2>3, <1>2, <1>3, <1>6, <1>l, <1>v
    <2>4. CASE n # x /\ n # y
      <3>1. bb[n] = b[n] /\ \A t \in Side : bb[child'[t][n]] = b[child[t][n]]
        BY <2>4, <1>n, SideFacts
      <3> QED
        BY <3>1, <1>x
    <2> QED
      BY <2>2, <2>3, <2>4
  <1>9. ASSUME NEW n \in nodes, NEW t \in Side, NEW m \in bb[child'[t][n]]
        PROVE  m # n /\ Way(m, n) = t
    <2>1. t = s \/ t = o
      BY <1>w
    <2>2. CASE n = x
      BY <2>1, <2>2, <1>2, <1>4, <1>9, <1>l, <1>v
    <2>3. CASE n = y
      BY <2>1, <2>3, <1>1, <1>2, <1>4, <1>5, <1>6, <1>9, <1>l, <1>m, <1>v
    <2>4. CASE n # x /\ n # y
      BY <2>4, <1>9, <1>n, <1>x
    <2> QED
      BY <2>2, <2>3, <2>4
  <1>t. /\ \A n \in nodes : \A m \in b[n] : b[m] \subseteq b[n] /\ (m # n => parent[m] \in b[n])
        /\ \A n \in nodes : b[n] \subseteq nodes
    BY <1>1 DEF Ordered
  <1>u. bb[x] \subseteq b[x] /\ y \notin bb[x] /\ \A n \in nodes : n # y => bb[n] \subseteq b[n]
    BY <1>1, <1>2, <1>6, <1>m
  <1>z. /\ \A m \in b[a] : a \in nodes /\ b[m] \subseteq b[a]
        /\ \A m \in b[i] : i \in nodes /\ b[m] \subseteq b[i]
    BY ZenonT(20), <1>1, <1>2, <1>t DEF Turned
  <1>10. ASSUME NEW n \in nodes, NEW m \in bb[n]
         PROVE  bb[m] \subseteq bb[n]
    <2>1. m \in nodes
      BY <1>1, <1>6, <1>t
    <2>2. CASE n = y
      BY <2>1, <2>2, <1>1, <1>2, <1>6, <1>t, <1>u
    <2>3. CASE n = x
      <3>1. m # y
        BY <2>3, <1>u
      <3>2. CASE m = x
        BY <2>3, <3>2
      <3>3. CASE m # x
        <4>1. bb[m] = b[m] /\ (m \in b[a] \/ m \in b[i])
          BY <2>1, <2>3, <3>1, <3>3, <1>1, <1>6
        <4> QED
          BY <4>1, <2>3, <1>6, <1>z
      <3> QED
        BY <3>2, <3>3
    <2>4. CASE n # x /\ n # y
      <3>1. bb[n] = b[n]
        BY <2>4, <1>1, <1>6
      <3>2. m = y => x \in b[n]
        BY <2>4, <3>1, <1>t DEF Turned
      <3> QED
        BY <2>1, <2>4, <3>1, <3>2, <1>1, <1>2, <1>6, <1>t, <1>u
    <2> QED
      BY <2>2, <2>3, <2>4
  <1>q. /\ parent'[x] = y /\ parent'[y] = p /\ (i # Nil => parent'[i] = x)
        /\ \A n \in nodes : n # x /\ n # y /\ n # i => parent'[n] = parent[n]
        /\ parent[y] = x /\ parent[x] = p /\ (i # Nil => parent[i] = y) /\ i # x /\ i # y
    BY <1>1 DEF Turned
  <1>11. ASSUME NEW n \in nodes, NEW m \in bb[n], m # n
         PROVE  parent'[m] \in bb[n]
    <2>1. m \in nodes /\ m # Nil
      BY <1>1, <1>6, <1>t
    <2>2. CASE n = y
      BY <2>1, <2>2, <1>1, <1>2, <1>6, <1>11, <1>q, <1>t
    <2>3. CASE n = x
      <3>1. m # y /\ (m \in b[a] \/ m \in b[i])
        BY <2>3, <1>1, <1>6, <1>11, <1>u
      <3>2. CASE m = i
        BY <3>2, <2>1, <2>3, <1>6, <1>q
      <3>3. CASE m # i
        <4>1. parent'[m] = parent[m]
          BY <2>1, <2>3, <3>1, <3>3, <1>11, <1>q
        <4>2. (m \in b[a] /\ (m = a \/ parent[m] \in b[a])) \/ (m \in b[i] /\ parent[m] \in b[i])
          BY <3>1, <3>3, <1>t, <1>z
        <4>3. m = a => parent[m] = x
          BY <1>2, <2>1
        <4> QED
          BY <4>1, <4>2, <4>3, <2>3, <1>6
      <3> QED
        BY <3>2, <3>3
    <2>4. CASE n # x /\ n # y
      <3>1. bb[n] = b[n] /\ parent[m] \in b[n]
        BY <2>4, <1>1, <1>6, <1>11, <1>t
      <3>2. m = i => x \in b[n]
        BY <2>1, <2>4, <3>1, <1>q, <1>t
      <3>3. m = x => y \in b[n]
        BY <3>1, <2>4, <1>2, <1>11, <1>t
      <3>4. m = y => p \in b[n]
        BY <2>4, <3>1, <1>q, <1>t
      <3> QED
        BY <2>1, <2>4, <3>1, <3>2, <3>3, <3>4, <1>q
    <2> QED
      BY <2>2, <2>3, <2>4
  <1> HIDE DEF o, a, c
  <1> QED
    <2>1. bb \in [Node -> SUBSET nodes'] /\ nodes' = nodes
      BY <1>1, <1>6
    <2>2. /\ \A n \in nodes' : \A m \in nodes' :
                m \in bb[n] <=> m = n \/ \E t \in Side : m \in bb[child'[t][n]]
          /\ \A n \in nodes' : \A t \in Side : \A m \in bb[child'[t][n]] : m # n /\ Way(m, n) = t
      BY <2>1, <1>8, <1>9
    <2>3. \A n \in nodes' : \A m \in bb[n] : bb[m] \subseteq bb[n] /\ (m # n => parent'[m] \in bb[n])
      BY <2>1, <1>10, <1>11
    <2>4. Ordered(bb)'
      BY <2>1, <2>2, <2>3, <1>7 DEF Ordered, Way
    <2> QED
      BY <2>4

(* A rotation keeps the paths even that do not pass x and y, and those too *)
(* that do if the colours make it good: what is left to show of each case. *)
LEMMA RotateKeepsHeights ==
    ASSUME TypeOK, Coherent, NEW b, Ordered(b),
           NEW x, NEW s, NEW p, NEW y, NEW i, Turned(x, s, p, y, i),
           NEW h, Heights(h), NEW hh \in [Node -> Nat],
           \A n \in nodes : n # x /\ n # y => hh[n] = h[n],
           \A n \in nodes : \A t \in Side : n # x /\ n # y => (Hole(t, n)' <=> Hole(t, n)),
           p # Nil => Weight(hh, y)' = Weight(h, x),
           \A c \in nodes : c # root /\ c # x /\ c # y /\ parent[c] # x /\ parent[c] # y =>
              Weight(hh, c)' = Weight(h, c),
           \A t \in Side : BlackOn(hh, t, x)' = hh[x] /\ BlackOn(hh, t, y)' = hh[y]
    PROVE  Heights(hh)'
  <1>1. ASSUME NEW n \in nodes, NEW t \in Side, n # x, n # y
        PROVE  BlackOn(hh, t, n)' = hh[n]
    <2> PICK c : c = child[t][n]
      OBVIOUS
    <2>1. BlackOn(h, t, n) = h[n] /\ hh[n] = h[n] /\ n \in Node /\ n # Nil
      BY <1>1, NodeFacts DEF Heights
    <2>2. CASE n = p /\ t = SideOf(x)
      <3>1. child'[t][n] = y /\ c = x /\ x # Nil /\ y # Nil
        BY <2>1, <2>2, NodeFacts DEF Turned
      <3>2. BlackOn(hh, t, n)' = Weight(hh, y)'
        BY <3>1 DEF BlackOn, Weight, Short
      <3>3. BlackOn(h, t, n) = Weight(h, x)
        BY <3>1 DEF BlackOn
      <3> QED
        BY <2>1, <2>2, <3>2, <3>3
    <2>3. CASE ~(n = p /\ t = SideOf(x))
      <3>1. child'[t][n] = c
        BY ZenonT(20), <1>1, <2>1, <2>3 DEF Turned
      <3>2. CASE c = Nil
        <4>1. BlackOn(hh, t, n)' = Count(Hole(t, n)')
          BY <3>1, <3>2 DEF BlackOn, Count
        <4>2. BlackOn(h, t, n) = Count(Hole(t, n))
          BY <3>2 DEF BlackOn
        <4> QED
          BY <4>1, <4>2, <2>1, <1>1 DEF Count
      <3>3. CASE c # Nil
        <4>1. c \in nodes /\ parent[c] = n /\ c # root
          BY <2>1, <3>3 DEF Coherent
        <4>2. c # x /\ c # y
          BY SMTT(20), <4>1, <2>3, <1>1, ParentFacts DEF Turned
        <4>3. Weight(hh, c)' = Weight(h, c)
          BY <4>1, <4>2, <1>1
        <4>4. BlackOn(hh, t, n)' = Weight(hh, c)'
          BY <3>1, <3>3 DEF BlackOn, Weight, Short
        <4>5. BlackOn(h, t, n) = Weight(h, c)
          BY <3>3 DEF BlackOn
        <4> QED
          BY <2>1, <4>3, <4>4, <4>5
      <3> QED
        BY <3>2, <3>3
    <2> QED
      BY <2>2, <2>3
  <1>2. \A n \in nodes : \A t \in Side : BlackOn(hh, t, n)' = hh[n]
    BY <1>1
  <1>3. nodes' = nodes
    BY DEF Turned
  <1> QED
    BY <1>2, <1>3 DEF Heights

-----------------------------------------------------------------------------
(* The steps that only look at the tree *)

(* Without a fix-up no red node has a red parent. *)
LEMMA SameTree ==
    ASSUME Inv, UNCHANGED tree, op' \in Op,
           op.pc \notin {"insert_fixup", "delete_fixup"},
           op'.pc \notin {"insert_fixup", "delete_fixup"},
           NEW b, Ordered(b), DescendOK(b)', SuccessorOK(b)'
    PROVE  Inv'
  <1>1. /\ nodes' = nodes /\ root' = root /\ child' = child /\ parent' = parent
        /\ color' = color /\ item' = item
    BY DEF tree
  <1>2. TypeOK' /\ Coherent' /\ Fields'
    BY <1>1 DEF Inv, TypeOK, Coherent, Fields, Left, Right
  <1>3. Ordered(b)'
    BY <1>1 DEF Ordered, Way
  <1>4. \A n : ~Short(n) /\ ~Short(n)'
    BY DEF Short
  <1>5. RedsApart'
    <2>1. \A n : ~BeingFixed(n)
      BY <1>4 DEF BeingFixed
    <2> QED
      BY <2>1, <1>1 DEF Inv, RedsApart
  <1>6. ASSUME NEW h, Heights(h) PROVE Heights(h)'
    <2>1. ASSUME NEW n \in nodes, NEW s \in Side PROVE BlackOn(h, s, n)' = BlackOn(h, s, n)
      BY <1>1, <1>4 DEF BlackOn, Weight, Hole, Count
    <2> QED
      BY <1>1, <1>6, <2>1 DEF Heights
  <1>7. InsertFixupOK' /\ DeleteFixupOK'
    BY DEF InsertFixupOK, DeleteFixupOK
  <1> QED
    BY <1>2, <1>3, <1>5, <1>6, <1>7 DEF Inv

(* The descent starts at the root. *)
LEMMA InsertKeeps ==
    ASSUME Inv, NEW k \in Keys, NEW v \in Structs[k], Insert(k, v)
    PROVE  Inv'
  <1>1. /\ op.pc = "idle"
        /\ op' = [pc |-> "descend", x |-> root, y |-> Nil, z |-> k, val |-> v]
        /\ UNCHANGED tree
    BY DEF Insert, Idle
  <1>2. v \in Vals /\ root \in Node /\ k \in Node /\ Nil \in Node
    BY SideFacts DEF Vals, Inv, TypeOK, Node
  <1>3. op' \in Op
    BY <1>1, <1>2 DEF Op
  <1>4. PICK b : Ordered(b)
    BY DEF Inv
  <1>5. /\ op'.pc = "descend" /\ op'.x = root /\ op'.y = Nil /\ op'.z = k /\ op'.val = v
        /\ nodes' = nodes /\ root' = root
    BY <1>1 DEF tree
  <1>6. DescendOK(b)'
    <2>1. root \in nodes \cup {Nil}
      BY DEF Inv, Coherent
    <2>2. \A n \in nodes : Nil \notin b[n]
      BY <1>4, NodeFacts DEF Ordered, Inv
    <2>3. b[root] = nodes
      BY <1>4 DEF Ordered
    <2> QED
      BY <1>5, <2>1, <2>2, <2>3 DEF DescendOK
  <1>7. SuccessorOK(b)'
    BY <1>5 DEF SuccessorOK
  <1> QED
    BY <1>1, <1>3, <1>4, <1>5, <1>6, <1>7, SameTree

(* One step of the descent: the key belongs below the child, too. *)
LEMMA DescendKeeps ==
    ASSUME Inv, Descend
    PROVE  Inv'
  <1>1. PICK b : Ordered(b) /\ DescendOK(b)
    BY DEF Inv
  <1> DEFINE z == op.z
             x == op.x
             y == child[Way(z, x)][x]
  <1>2. op.pc = "descend" /\ x # Nil /\ UNCHANGED tree /\ op \in Op
    BY DEF Descend, Inv, TypeOK
  <1>3. /\ z \in Keys /\ op.val \in Structs[z] /\ x \in nodes
        /\ z \in nodes => z \in b[x]
        /\ \A n \in nodes : op.y \in b[n] /\ n # op.y => z # n /\ Way(z, n) = Way(op.y, n)
        /\ op.y \in nodes \cup {Nil}
        /\ op.y = Nil => x = root
        /\ op.y # Nil => z # op.y /\ x = child[Way(z, op.y)][op.y]
    BY <1>1, <1>2 DEF DescendOK
  <1>4. CASE z = x
    <2>1. op' = Idle
      BY <1>2, <1>4 DEF Descend
    <2>2. Idle \in Op /\ Idle.pc = "idle"
      BY SideFacts DEF Idle, Op
    <2>3. DescendOK(b)' /\ SuccessorOK(b)'
      BY <2>1, <2>2 DEF DescendOK, SuccessorOK
    <2> QED
      BY <1>1, <1>2, <2>1, <2>2, <2>3, SameTree
  <1>5. CASE z # x
    <2>1. op' = [op EXCEPT !.y = x, !.x = y]
      BY <1>2, <1>5 DEF Descend
    <2>2. x \in Keys /\ x \in Node /\ Way(z, x) \in Side
      BY <1>3, NodeFacts, WayFacts DEF Inv
    <2>3. y \in Node /\ (y # Nil => y \in nodes)
      BY <2>2, <1>3, NodeFacts DEF Inv, Coherent
    <2>4. op' \in Op /\ op'.pc = "descend" /\ op'.x = y /\ op'.y = x /\ op'.z = z /\ op'.val = op.val
      BY <2>1, <2>2, <2>3, <1>2 DEF Op
    <2>5. z \in nodes => z \in b[y]
      <3> SUFFICES ASSUME z \in nodes PROVE z \in b[y]
        OBVIOUS
      <3>1. PICK s \in Side : z \in b[child[s][x]]
        BY <1>1, <1>3, <1>5 DEF Ordered
      <3>2. Way(z, x) = s
        BY <1>1, <1>3, <3>1 DEF Ordered
      <3> QED
        BY <3>1, <3>2
    <2>6. ASSUME NEW n \in nodes, x \in b[n], n # x
          PROVE  z # n /\ Way(z, n) = Way(x, n)
      <3>1. parent[x] \in b[n] /\ x # root
        <4>0. b[n] \subseteq nodes
          BY <1>1, NodeFacts DEF Ordered, Inv
        <4>1. parent[x] \in b[n]
          BY <1>1, <2>6 DEF Ordered
        <4>2. root # Nil => parent[root] = Nil
          BY DEF Inv, Coherent
        <4>3. Nil \notin nodes
          BY NodeFacts DEF Inv
        <4> QED
          BY <4>0, <4>1, <4>2, <4>3, <1>2
      <3>2. op.y \in nodes /\ parent[x] = op.y /\ Way(x, op.y) = Way(z, op.y) /\ z # op.y
        <4>1. op.y # Nil /\ op.y \in Keys /\ Way(z, op.y) \in Side
          BY <1>3, <3>1, NodeFacts, WayFacts DEF Inv
        <4>2. child[Way(z, op.y)][op.y] # Nil
          BY <1>3, <4>1, NodeFacts DEF Inv
        <4> QED
          BY <4>1, <4>2, <1>1, <1>3, ChildFacts DEF Inv
      <3>3. CASE n = op.y
        BY <3>2, <3>3
      <3>4. CASE n # op.y
        <4>1. z # n /\ Way(z, n) = Way(op.y, n)
          BY <3>1, <3>2, <3>4, <1>3
        <4>2. PICK s \in Side : op.y \in b[child[s][n]]
          BY <3>1, <3>2, <3>4, <1>1, <2>6 DEF Ordered
        <4>3. Way(op.y, n) = s
          BY <4>2, <1>1 DEF Ordered
        <4>4. x \in b[child[s][n]]
          <5>1. child[s][n] \in nodes
            BY <4>2, <1>1, NodeFacts DEF Ordered, Inv, Coherent
          <5>2. x \in b[op.y]
            BY <3>2, <1>1, <1>3, ParentFacts, ChildFacts, NodeFacts DEF Inv
          <5> QED
            BY <5>1, <5>2, <4>2, <1>1 DEF Ordered
        <4>5. Way(x, n) = s
          BY <4>4, <1>1 DEF Ordered
        <4> QED
          BY <4>1, <4>3, <4>5
      <3> QED
        BY <3>3, <3>4
    <2>7. nodes' = nodes /\ root' = root /\ child' = child
      BY <1>2 DEF tree
    <2>8. x # Nil /\ z # x /\ y = child[Way(z, x)][x]
      BY <1>2, <1>5
    <2> HIDE DEF x, y, z
    <2>9. DescendOK(b)'
      BY <2>3, <2>4, <2>5, <2>6, <2>7, <2>8, <1>3 DEF DescendOK, Way
    <2>10. SuccessorOK(b)'
      BY <2>4 DEF SuccessorOK
    <2> QED
      BY <1>1, <1>2, <2>4, <2>9, <2>10, SameTree
  <1> QED
    BY <1>4, <1>5

(* The search for the successor starts at the right child. *)
LEMMA DeleteKeeps ==
    ASSUME Inv, NEW z \in Keys, Delete(z)
    PROVE  Inv'
  <1> DEFINE y == IF Left(z) = Nil \/ Right(z) = Nil THEN z ELSE Right(z)
  <1>1. /\ op.pc = "idle" /\ z \in nodes
        /\ op' = [pc |-> "successor", x |-> Nil, y |-> y, z |-> z, val |-> NULL]
        /\ UNCHANGED tree
    BY DEF Delete, Idle
  <1>2. PICK b : Ordered(b)
    BY DEF Inv
  <1>3. z \in Node /\ Nil \in Node /\ y \in Node
    BY <1>1, NodeFacts, SideFacts DEF Inv, Left, Right
  <1>4. op' \in Op
    BY <1>1, <1>3 DEF Op
  <1>5. op'.pc = "successor" /\ op'.y = y /\ op'.z = z /\ nodes' = nodes /\ child' = child
    BY <1>1 DEF tree
  <1>6. SuccessorOK(b)'
    <2>1. CASE y = z
      <3>1. Left(z) = Nil \/ Right(z) = Nil
        BY <2>1, <1>1, <1>2, SideFacts, ChildFacts DEF Inv, Right
      <3> QED
        BY <3>1, <2>1, <1>1, <1>5 DEF SuccessorOK, Left, Right
    <2>2. CASE y # z
      <3>1. y = child["right"][z] /\ y # Nil
        BY <2>2 DEF Left, Right
      <3>2. y \in nodes /\ y \in b[y]
        BY <3>1, <1>1, <1>2, SideFacts, ChildFacts DEF Inv
      <3> HIDE DEF y
      <3> QED
        BY <3>1, <3>2, <2>2, <1>1, <1>5 DEF SuccessorOK, Left, Right
    <2> QED
      BY <2>1, <2>2
  <1>7. DescendOK(b)'
    BY <1>5 DEF DescendOK
  <1> QED
    BY <1>1, <1>2, <1>4, <1>5, <1>6, <1>7, SameTree

(* One step of the search: the least key is on the left. *)
LEMMA SuccessorKeeps ==
    ASSUME Inv, Successor
    PROVE  Inv'
  <1>1. PICK b : Ordered(b) /\ SuccessorOK(b)
    BY DEF Inv
  <1> DEFINE z == op.z
             y == op.y
             c == Left(y)
  <1>2. /\ op.pc = "successor" /\ y # z /\ c # Nil /\ op' = [op EXCEPT !.y = c]
        /\ UNCHANGED tree /\ op \in Op
    BY DEF Successor, AtSuccessor, Inv, TypeOK
  <1>3. /\ z \in nodes /\ y \in nodes /\ y \in b[Right(z)]
        /\ \A k \in b[Right(z)] : k \in b[y] \/ (k # y /\ Way(k, y) = "right")
    BY <1>1, <1>2 DEF SuccessorOK
  <1>4. /\ c \in nodes /\ c \in Node /\ c \in b[c] /\ c # y /\ Way(c, y) = "left"
        /\ b[c] \subseteq b[y] /\ c \in b[y]
    BY <1>1, <1>2, <1>3, SideFacts, NodeFacts, ChildFacts DEF Left, Inv
  <1>5. op' \in Op /\ op'.pc = "successor" /\ op'.y = c /\ op'.z = z
    BY <1>2, <1>4 DEF Op
  <1>6. Right(z) \in nodes
    BY <1>1, <1>3, SideFacts, NodeFacts DEF Ordered, Inv, Coherent, Right
  <1>7. b[y] \subseteq b[Right(z)] /\ c \in b[Right(z)]
    BY <1>1, <1>3, <1>4, <1>6 DEF Ordered
  <1>8. c # z
    <2>1. Right(z) # Nil
      BY <1>6, NodeFacts DEF Inv
    <2>2. z \notin b[Right(z)]
      BY <2>1, <1>1, <1>3, SideFacts, ChildFacts DEF Inv, Right
    <2> QED
      BY <2>2, <1>7
  <1>9. ASSUME NEW k \in b[Right(z)]
        PROVE  k \in b[c] \/ (k # c /\ Way(k, c) = "right")
    <2>1. k \in nodes /\ k \in Keys /\ y \in Keys /\ c \in Keys
      BY <1>1, <1>3, <1>4, <1>6, NodeFacts DEF Ordered, Inv
    <2>2. Way(y, c) = "right"
      BY <1>4, <2>1, WayFacts, SideFacts
    <2>3. CASE k \in b[y]
      <3>1. k = y \/ k \in b[c] \/ k \in b[Right(y)]
        BY <2>1, <2>3, <1>1, <1>3, SideFacts DEF Ordered, Left, Right
      <3>2. k \in b[Right(y)] => k # y /\ Way(k, y) = "right"
        BY <1>1, <1>3, SideFacts DEF Ordered, Right
      <3>3. k # y /\ Way(k, y) = "right" => k # c /\ Way(k, c) = "right"
        BY <2>1, <1>4, WayFacts, SideFacts DEF Way
      <3> QED
        BY <3>1, <3>2, <3>3, <2>2, <1>4
    <2>4. CASE k # y /\ Way(k, y) = "right"
      BY <2>1, <2>4, <1>4, WayFacts, SideFacts
    <2> QED
      BY <2>3, <2>4, <1>3
  <1>10. nodes' = nodes /\ child' = child
    BY <1>2 DEF tree
  <1>11. SuccessorOK(b)'
    <2> HIDE DEF z, y, c
    <2> QED
      BY <1>4, <1>3, <1>5, <1>7, <1>8, <1>9, <1>10 DEF SuccessorOK, Right, Way
  <1>12. DescendOK(b)'
    BY <1>5 DEF DescendOK
  <1> QED
    BY <1>1, <1>2, <1>5, <1>11, <1>12, SameTree

-----------------------------------------------------------------------------
(* The new node is linked where the descent has ended. *)

(* A red leaf is linked where the descent ended. *)
LEMMA LinkKeeps ==
    ASSUME Inv, Link
    PROVE  Inv'
  <1>1. PICK b : Ordered(b) /\ DescendOK(b)
    BY DEF Inv
  <1>2. PICK z, y, w : z = op.z /\ y = op.y /\ w = Way(z, y)
    OBVIOUS
  <1>3. /\ op.pc = "descend" /\ op.x = Nil
        /\ nodes' = nodes \cup {z}
        /\ parent' = [parent EXCEPT ![z] = y]
        /\ color' = [color EXCEPT ![z] = "RED"]
        /\ item' = [item EXCEPT ![z] = op.val]
        /\ IF y = Nil
           THEN root' = z /\ UNCHANGED child
           ELSE child' = [child EXCEPT ![w][y] = z] /\ UNCHANGED root
        /\ op' = [pc |-> "insert_fixup", x |-> Nil, y |-> Nil, z |-> z, val |-> NULL]
    BY <1>2 DEF Link, Idle
  <1>4. /\ z \in Keys /\ op.val \in Structs[z] /\ y \in nodes \cup {Nil}
        /\ z \notin nodes
        /\ y = Nil => root = Nil
        /\ y # Nil => z # y /\ child[w][y] = Nil
        /\ \A n \in nodes : y \in b[n] /\ n # y => z # n /\ Way(z, n) = Way(y, n)
    BY <1>1, <1>2, <1>3 DEF DescendOK, Ordered
  <1>5. /\ z \in Node /\ z # Nil /\ Nil \in Node /\ y \in Node
        /\ \A n \in nodes : n \in Node /\ n # Nil /\ n \in Keys
        /\ y # Nil => w \in Side
        /\ y = Nil => nodes = {}
        /\ \A t \in Side : child[t][z] = Nil
    BY <1>2, <1>4, SideFacts, NodeFacts, WayFacts DEF Inv, Coherent, Fields, Node
  <1>6. /\ \A t \in Side : \A n \in Node :
              child'[t][n] = IF y # Nil /\ t = w /\ n = y THEN z ELSE child[t][n]
        /\ \A n \in Node : /\ parent'[n] = IF n = z THEN y ELSE parent[n]
                           /\ color'[n] = IF n = z THEN "RED" ELSE color[n]
                           /\ item'[n] = IF n = z THEN op.val ELSE item[n]
        /\ root' = IF y = Nil THEN z ELSE root
    <2>1. TypeOK
      BY DEF Inv
    <2>2. CASE y = Nil
      BY <2>1, <2>2, <1>3, <1>5 DEF TypeOK
    <2>3. CASE y # Nil
      BY <2>1, <2>3, <1>3, <1>5 DEF TypeOK
    <2> QED
      BY <2>2, <2>3
  <1>7. TypeOK'
    <2>1. TypeOK
      BY DEF Inv
    <2>2. op' \in Op
      BY <1>3, <1>5 DEF Op
    <2>3. op.val \in Vals
      BY <1>4 DEF Vals
    <2>4. child' \in [Side -> [Node -> Node]]
      <3>1. child \in [Side -> [Node -> Node]]
        BY <2>1 DEF TypeOK
      <3>2. CASE y = Nil
        BY <3>1, <3>2, <1>3
      <3>3. CASE y # Nil
        <4>1. child' = [child EXCEPT ![w][y] = z] /\ w \in Side /\ y \in Node /\ z \in Node
          BY <3>3, <1>3, <1>5
        <4>2. [child EXCEPT ![w][y] = z] \in [Side -> [Node -> Node]]
          BY <3>1, <4>1, ExceptType
        <4> QED
          BY <4>1, <4>2
      <3> QED
        BY <3>2, <3>3
    <2> QED
      BY <2>1, <2>2, <2>3, <2>4, <1>3, <1>4, <1>5 DEF TypeOK
  <1>8. \A t \in Side : \A n \in Node : child[t][n] # z /\ parent[n] \in Node /\ child[t][n] \in Node
    <2>1. \A t \in Side : \A n \in nodes : child[t][n] # z
      BY <1>4, <1>5 DEF Inv, Coherent
    <2>2. \A t \in Side : \A n \in Node \ nodes : child[t][n] # z
      BY <1>5 DEF Inv, Fields
    <2> QED
      BY <2>1, <2>2, NodeFacts DEF Inv
  <1>9. Coherent'
    <2>1. nodes' # {} /\ root' \in nodes' /\ root' # Nil /\ parent'[root'] = Nil
      BY <1>3, <1>4, <1>5, <1>6 DEF Inv, Coherent
    <2>2. ASSUME NEW n \in nodes', NEW t \in Side, child'[t][n] # Nil
          PROVE  child'[t][n] \in nodes' /\ parent'[child'[t][n]] = n
      BY <2>2, <1>3, <1>4, <1>5, <1>6, <1>8 DEF Inv, Coherent
    <2>3. ASSUME NEW n \in nodes' \ {root'}
          PROVE  parent'[n] \in nodes' /\ \E t \in Side : child'[t][parent'[n]] = n
      <3>1. CASE n = z
        BY <3>1, <2>3, <1>3, <1>4, <1>5, <1>6
      <3>2. CASE n # z
        <4>1. n \in nodes \ {root} /\ y # Nil
          BY <3>2, <2>3, <1>3, <1>5, <1>6
        <4>2. PICK t \in Side : parent[n] \in nodes /\ child[t][parent[n]] = n
          BY <4>1 DEF Inv, Coherent
        <4>3. n # Nil
          BY <4>1, <1>5
        <4> QED
          BY <3>2, <4>1, <4>2, <4>3, <1>3, <1>4, <1>5, <1>6
      <3> QED
        BY <3>1, <3>2
    <2>4. ASSUME NEW n \in nodes', child'["left"][n] # Nil
          PROVE  child'["left"][n] # child'["right"][n]
      BY <2>4, <1>3, <1>5, <1>6, <1>8, SideFacts DEF Inv, Coherent, Left, Right
    <2> QED
      BY <2>1, <2>2, <2>3, <2>4 DEF Coherent, Left, Right
  <1>10. PICK bb : bb = [n \in Node |-> IF n = z THEN {z}
                                        ELSE IF y \in b[n] THEN b[n] \cup {z} ELSE b[n]]
    OBVIOUS
  <1>11. Ordered(bb)'
    <2>1. /\ b \in [Node -> SUBSET nodes] /\ b[Nil] = {} /\ b[root] = nodes
          /\ \A n \in nodes : \A m \in nodes :
                m \in b[n] <=> m = n \/ \E t \in Side : m \in b[child[t][n]]
          /\ \A n \in nodes : \A t \in Side : \A m \in b[child[t][n]] : m # n /\ Way(m, n) = t
          /\ \A n \in nodes : \A m \in b[n] : b[m] \subseteq b[n] /\ (m # n => parent[m] \in b[n])
      BY <1>1 DEF Ordered
    <2>2. /\ bb[z] = {z} /\ bb[Nil] = {} /\ bb \in [Node -> SUBSET nodes']
          /\ \A n \in Node : n # z => \A m : m \in bb[n] <=> m \in b[n] \/ (m = z /\ y \in b[n])
          /\ \A n \in Node : b[n] \subseteq nodes
      BY <1>3, <1>5, <1>10, <2>1
    <2>k. \A n \in Node : n # z /\ y \notin b[n] => bb[n] = b[n]
      BY <1>10
    <2>3. bb[root'] = nodes'
      <3>1. CASE y = Nil
        BY <3>1, <2>2, <1>3, <1>5, <1>6
      <3>2. CASE y # Nil
        <4>1. y \in b[root] /\ root # z /\ root \in Node
          BY <3>2, <2>1, <1>4 DEF Inv, Coherent, TypeOK
        <4> QED
          BY <3>2, <4>1, <2>1, <1>3, <1>6, <1>10
      <3> QED
        BY <3>1, <3>2
    <2>4. /\ \A t \in Side : child'[t][z] = Nil
          /\ y # Nil => /\ child'[w][y] = z
                        /\ \A t \in Side : t # w => child'[t][y] = child[t][y]
          /\ \A t \in Side : \A n \in nodes : n # y => child'[t][n] = child[t][n]
      BY <1>4, <1>5, <1>6
    <2>5. y # Nil => y \in nodes /\ y \in b[y] /\ \A t \in Side : y \notin b[child[t][y]]
      BY <2>1, <1>4
    <2>6. ASSUME NEW n \in nodes', NEW m \in nodes'
          PROVE  m \in bb[n] <=> m = n \/ \E t \in Side : m \in bb[child'[t][n]]
      <3>1. CASE n = z
        BY <3>1, <2>2, <2>4
      <3>2. CASE n # z /\ n = y
        <4>1. y # Nil /\ y \in nodes /\ y # z
          BY <3>2, <1>3, <1>5
        <4>2. m \in bb[y] <=> m \in b[y] \/ m = z
          BY <4>1, <2>2, <2>5, <1>5
        <4>3. m # z => (m \in b[y] <=> m = y \/ \E t \in Side : m \in b[child[t][y]])
          BY <4>1, <2>1, <1>3
        <4>4. \A t \in Side : t # w => bb[child'[t][y]] = b[child[t][y]]
          BY <4>1, <2>4, <2>5, <2>k, <1>5, <1>8
        <4>5. bb[child'[w][y]] = {z} /\ b[child[w][y]] = {}
          BY <4>1, <2>1, <2>2, <2>4, <1>4
        <4>6. \A t \in Side : z \notin b[child[t][y]]
          BY <2>2, <1>4, <1>8, <1>5
        <4> QED
          BY <3>2, <4>1, <4>2, <4>3, <4>4, <4>5, <4>6, <1>5
      <3>3. CASE n # z /\ n # y
        <4>1. n \in nodes /\ \A t \in Side : child'[t][n] = child[t][n] /\ child[t][n] \in Node /\ child[t][n] # z
          BY <3>3, <2>4, <1>3, <1>8, <1>5
        <4>2. CASE m # z
          BY <3>3, <4>1, <4>2, <2>1, <2>2, <1>3, <1>5
        <4>3. CASE m = z
          <5>1. z \in bb[n] <=> y \in b[n]
            BY <3>3, <4>1, <2>2, <1>4, <1>5
          <5>2. \A t \in Side : z \in bb[child'[t][n]] <=> y \in b[child[t][n]]
            BY <4>1, <2>2, <1>4
          <5>3. y \in b[n] <=> \E t \in Side : y \in b[child[t][n]]
            BY <3>3, <4>1, <2>1, <2>2, <1>4, <1>5
          <5> QED
            BY <3>3, <4>3, <5>1, <5>2, <5>3
        <4> QED
          BY <4>2, <4>3
      <3> QED
        BY <3>1, <3>2, <3>3
    <2>7. ASSUME NEW n \in nodes', NEW t \in Side, NEW m \in bb[child'[t][n]]
          PROVE  m # n /\ Way(m, n) = t
      <3>1. CASE n = z
        BY <3>1, <2>2, <2>4, <2>7
      <3>2. CASE n # z /\ n = y
        <4>1. y # Nil /\ y \in nodes /\ y # z
          BY <3>2, <1>3, <1>5
        <4>2. CASE t = w
          BY <3>2, <4>1, <4>2, <2>2, <2>4, <2>7, <1>2
        <4>3. CASE t # w
          <5>1. bb[child'[t][y]] = b[child[t][y]]
            BY <4>1, <4>3, <2>4, <2>5, <2>k, <1>5, <1>8
          <5> QED
            BY <3>2, <4>1, <5>1, <2>1, <2>7
        <4> QED
          BY <4>2, <4>3
      <3>3. CASE n # z /\ n # y
        <4>1. n \in nodes /\ child'[t][n] = child[t][n] /\ child[t][n] \in Node /\ child[t][n] # z
          BY <3>3, <2>4, <1>3, <1>8, <1>5
        <4>2. CASE m \in b[child[t][n]]
          BY <4>1, <4>2, <2>1
        <4>3. CASE m = z /\ y \in b[child[t][n]]
          <5>1. Way(y, n) = t /\ y \in b[n]
            BY <4>1, <4>3, <2>1, <2>2
          <5> QED
            BY <3>3, <4>1, <4>3, <5>1, <1>4
        <4> QED
          BY <4>1, <4>2, <4>3, <2>2, <2>7
      <3> QED
        BY <3>1, <3>2, <3>3
    <2>8. ASSUME NEW n \in nodes', NEW m \in bb[n]
          PROVE  bb[m] \subseteq bb[n] /\ (m # n => parent'[m] \in bb[n])
      <3>1. CASE n = z
        BY <3>1, <2>2, <2>8
      <3>2. CASE n # z /\ m = z
        BY <3>2, <2>2, <2>8, <1>3, <1>4, <1>5, <1>6
      <3>3. CASE n # z /\ m # z
        <4>1. n \in nodes /\ m \in b[n] /\ m \in nodes
          BY <3>3, <2>2, <2>8, <1>3, <1>5
        <4>2. b[m] \subseteq b[n] /\ (m # n => parent[m] \in b[n])
          BY <4>1, <2>1
        <4> QED
          BY <3>3, <4>1, <4>2, <2>2, <1>5, <1>6
      <3> QED
        BY <3>1, <3>2, <3>3
    <2> QED
      BY <2>2, <2>3, <2>6, <2>7, <2>8 DEF Ordered, Way
  <1>12. DescendOK(bb)' /\ SuccessorOK(bb)' /\ DeleteFixupOK' /\ InsertFixupOK'
    BY <1>3, <1>5, <1>6 DEF DescendOK, SuccessorOK, DeleteFixupOK, InsertFixupOK
  <1>13. Fields'
    <2>1. ASSUME NEW n \in Node \ nodes'
          PROVE  color'[n] = "BLACK" /\ item'[n] = NULL /\ \A t \in Side : child'[t][n] = Nil
      BY <2>1, <1>3, <1>4, <1>6 DEF Inv, Fields
    <2>2. ASSUME NEW n \in nodes' PROVE item'[n] \in Structs[n]
      BY <2>2, <1>3, <1>4, <1>5, <1>6 DEF Inv, Fields
    <2> QED
      BY <2>1, <2>2 DEF Fields
  <1>14. RedsApart'
    <2>1. BeingFixed(z)'
      BY <1>3 DEF BeingFixed
    <2>2. ASSUME NEW n \in nodes, color'[n] = "RED", n = root' \/ color'[parent'[n]] = "RED"
          PROVE  FALSE
      <3>1. n # z /\ y # Nil /\ root' = root /\ parent[n] # z /\ parent[n] \in Node /\ n \in Node
        <4>1. y # Nil /\ n # z
          BY <1>4, <1>5
        <4>2. parent[n] # z
          BY <1>4, <1>5 DEF Inv, Coherent
        <4> QED
          BY <4>1, <4>2, <1>5, <1>6, <1>8, SideFacts
      <3>2. ~BeingFixed(n)
        BY <1>3 DEF BeingFixed, Short
      <3> QED
        BY <2>2, <3>1, <3>2, <1>6 DEF Inv, RedsApart
    <2> QED
      BY <2>1, <2>2, <1>3 DEF RedsApart
  <1>15. \E hh : Heights(hh)'
    <2>1. PICK h : Heights(h)
      BY DEF Inv
    <2>2. PICK hh : hh = [h EXCEPT ![z] = 0]
      OBVIOUS
    <2>3. /\ hh \in [Node -> Nat] /\ hh[z] = 0 /\ \A n \in Node : n # z => hh[n] = h[n]
          /\ \A n \in nodes : \A t \in Side : BlackOn(h, t, n) = h[n]
      BY <2>1, <2>2, <1>5 DEF Heights
    <2>4. \A n, t : ~Hole(t, n) /\ ~Hole(t, n)' /\ ~Short(n) /\ ~Short(n)'
      BY <1>3 DEF Hole, Short
    <2>5. ASSUME NEW n \in nodes', NEW t \in Side
          PROVE  BlackOn(hh, t, n)' = hh[n]
      <3>1. CASE n = z
        <4>1. child'[t][n] = Nil
          BY <3>1, <1>4, <1>5, <1>6
        <4> QED
          BY <3>1, <4>1, <2>3, <2>4 DEF BlackOn, Count
      <3>2. CASE n # z /\ child'[t][n] = child[t][n]
        <4>1. n \in nodes /\ hh[n] = h[n]
          BY <3>2, <2>3, <1>3, <1>5
        <4>2. child[t][n] # z /\ child[t][n] \in Node
          BY <4>1, <1>5, <1>8
        <4>3. BlackOn(hh, t, n)' = BlackOn(h, t, n)
          <5>1. CASE child[t][n] = Nil
            BY <3>2, <5>1, <2>4 DEF BlackOn, Count
          <5>2. CASE child[t][n] # Nil
            <6>1. hh[child[t][n]] = h[child[t][n]] /\ color'[child[t][n]] = color[child[t][n]]
              BY <4>2, <2>3, <1>6
            <6> QED
              BY <3>2, <5>2, <6>1, <2>4 DEF BlackOn, Weight, Count
          <5> QED
            BY <5>1, <5>2
        <4> QED
          BY <4>1, <4>3, <2>3
      <3>3. CASE n # z /\ child'[t][n] # child[t][n]
        <4>1. y # Nil /\ t = w /\ n = y /\ child'[t][n] = z /\ n \in nodes
          BY <3>3, <1>3, <1>5, <1>6
        <4>2. BlackOn(h, w, y) = 0
          BY <4>1, <1>4, <2>4 DEF BlackOn, Count
        <4>3. color'[z] = "RED"
          BY <1>5, <1>6
        <4>4. BlackOn(hh, t, n)' = 0
          <5>1. Weight(hh, z)' = 0
            BY <4>3, <2>3, <2>4 DEF Weight, Count
          <5>2. BlackOn(hh, t, n)' = Weight(hh, z)'
            BY <4>1, <1>5 DEF BlackOn, Weight, Short
          <5> QED
            BY <5>1, <5>2
        <4> QED
          BY <3>3, <4>1, <4>2, <4>4, <2>3, <1>5
      <3> QED
        BY <3>1, <3>2, <3>3
    <2> QED
      BY <2>3, <2>5 DEF Heights
  <1> QED
    BY <1>7, <1>9, <1>11, <1>12, <1>13, <1>14, <1>15 DEF Inv

-----------------------------------------------------------------------------
(* What every step of a fix-up keeps: the colours are left to show. *)

(* A step of a fix-up that only paints *)
LEMMA Recolored ==
    ASSUME Inv, UNCHANGED <<nodes, root, child, parent, item>>,
           color' \in [Node -> {"RED", "BLACK"}], \A n \in Node \ nodes : color'[n] = "BLACK",
           op' \in Op, op'.pc \in {"idle", "insert_fixup", "delete_fixup"},
           RedsApart', InsertFixupOK', DeleteFixupOK', \E hh : Heights(hh)'
    PROVE  Inv'
  <1>1. nodes' = nodes /\ root' = root /\ child' = child /\ parent' = parent /\ item' = item
    OBVIOUS
  <1>2. TypeOK' /\ Coherent' /\ Fields'
    BY <1>1 DEF Inv, TypeOK, Coherent, Fields, Left, Right
  <1>3. PICK b : Ordered(b)
    BY DEF Inv
  <1>4. Ordered(b)'
    BY <1>1, <1>3 DEF Ordered, Way
  <1>5. DescendOK(b)' /\ SuccessorOK(b)'
    BY DEF DescendOK, SuccessorOK
  <1> QED
    BY <1>2, <1>4, <1>5 DEF Inv

(* A step of a fix-up that rotates *)
LEMMA Rotated ==
    ASSUME Inv, NEW b, Ordered(b), NEW x \in nodes, NEW s \in Side,
           child[Opposite[s]][x] # Nil, Rotate(x, s), UNCHANGED <<nodes, item>>,
           color' \in [Node -> {"RED", "BLACK"}], \A n \in Node \ nodes : color'[n] = "BLACK",
           op' \in Op, op'.pc \in {"idle", "insert_fixup", "delete_fixup"},
           RedsApart', InsertFixupOK', DeleteFixupOK', \E hh : Heights(hh)'
    PROVE  Inv'
  <1>1. nodes' = nodes /\ item' = item /\ TypeOK /\ Coherent
    BY DEF Inv
  <1>2. Coherent'
    BY <1>1, RotateKeepsCoherent
  <1>3. PICK p, y, i : Turned(x, s, p, y, i) /\ TypeOfTree'
    BY <1>1, RotateTurns
  <1>4. TypeOK'
    BY <1>1, <1>3 DEF TypeOK, TypeOfTree
  <1>5. PICK bb : Ordered(bb)'
    BY <1>1, <1>3, RotateKeepsOrder
  <1>6. Fields'
    <2>1. ASSUME NEW n \in Node \ nodes, NEW t \in Side PROVE child'[t][n] = Nil
      <3>1. child'[t][n] = child[t][n]
        BY <1>3 DEF Turned
      <3> QED
        BY <3>1 DEF Inv, Fields
    <2> QED
      BY <2>1, <1>1 DEF Inv, Fields
  <1>7. DescendOK(bb)' /\ SuccessorOK(bb)'
    BY DEF DescendOK, SuccessorOK
  <1> QED
    BY <1>2, <1>4, <1>5, <1>6, <1>7 DEF Inv

(* The colours a step gives *)
Painted(blacks, reds) ==
    /\ color' \in [Node -> {"RED", "BLACK"}]
    /\ \A n \in Node : color'[n] = IF n \in blacks THEN "BLACK"
                                   ELSE IF n \in reds THEN "RED" ELSE color[n]

-----------------------------------------------------------------------------
(* rb_insert_fixup: z is red and its parent p is red; g is p's parent. *)

RedParent(z, p, g, s) ==
    /\ z \in nodes /\ p \in nodes /\ g \in nodes /\ s \in Side
    /\ z = op.z /\ p = parent[z] /\ g = parent[p] /\ s = SideOf(p)
    /\ z # p /\ p # g /\ z # g /\ z # root /\ p # root
    /\ child[s][g] = p
    /\ color[z] = "RED" /\ color[p] = "RED" /\ color[g] = "BLACK"
    /\ \A n \in nodes : color[n] = "RED" /\ (n = root \/ color[parent[n]] = "RED") => n = z
    /\ \A n : ~Short(n)
    /\ \A t, n : ~Hole(t, n)

(* rb_insert_fixup has work to do only on a red node below a red one. *)
LEMMA RedParentFacts ==
    ASSUME Inv, NEW b, Ordered(b), op.pc = "insert_fixup", color[parent[op.z]] = "RED"
    PROVE  RedParent(op.z, parent[op.z], parent[parent[op.z]], SideOf(parent[op.z]))
  <1> DEFINE z == op.z
             p == parent[z]
             g == parent[p]
  <1>1. z \in nodes /\ color[z] = "RED" /\ TypeOK /\ Coherent
    BY DEF Inv, InsertFixupOK
  <1>2. p \in nodes /\ z # root /\ z # p
    <2>1. p \in Node /\ p # Nil
      BY <1>1, NodeFacts, SideFacts DEF Inv, Fields
    <2> QED
      BY <2>1, <1>1, ParentFacts
  <1>3. \A n : ~Short(n)
    BY DEF Short
  <1>4. \A n \in nodes : color[n] = "RED" /\ (n = root \/ color[parent[n]] = "RED") => n = z
    BY <1>3 DEF Inv, RedsApart, BeingFixed
  <1>5. p # root /\ g \in nodes /\ p # g /\ color[g] # "RED" /\ child[SideOf(p)][g] = p /\ SideOf(p) \in Side
    BY <1>1, <1>2, <1>4, ParentFacts
  <1>6. color[g] = "BLACK"
    BY <1>5, <1>1, NodeFacts DEF TypeOK
  <1>7. z # g
    <2>1. z \in b[p] /\ p \notin b[z] /\ g \notin b[p]
      BY <1>1, <1>2, <1>5, NodeFacts, ParentFacts, ChildFacts
    <2> QED
      BY <2>1
  <1>8. \A t, n : ~Hole(t, n)
    BY <1>3 DEF Hole
  <1> QED
    BY <1>1, <1>2, <1>3, <1>4, <1>5, <1>6, <1>7, <1>8 DEF RedParent

(* The uncle is red: the red pair moves two levels up. *)
LEMMA UncleRed ==
    ASSUME Inv, NEW z, NEW p, NEW g, NEW s, RedParent(z, p, g, s),
           NEW u, u = child[Opposite[s]][g], color[u] = "RED", op.pc = "insert_fixup",
           Painted({p, u}, {g}),
           op' = [op EXCEPT !.z = g],
           UNCHANGED <<nodes, root, child, parent, item>>
    PROVE  Inv'
  <1> DEFINE o == Opposite[s]
  <1>1. PICK b : Ordered(b)
    BY DEF Inv
  <1>2. /\ z \in nodes /\ p \in nodes /\ g \in nodes /\ s \in Side /\ o \in Side /\ o # s
        /\ \A t \in Side : t = s \/ t = o
        /\ p # g /\ parent[z] = p /\ parent[p] = g /\ child[s][g] = p /\ z # root
        /\ TypeOK /\ Coherent /\ nodes \subseteq Node
    BY ZenonT(20), SideFacts, NodeFacts DEF RedParent, Inv
  <1>3. u \in nodes /\ u # p /\ u # g /\ parent[u] = g
    <2>1. u # Nil
      BY SideFacts DEF Inv, Fields, Coherent, TypeOK
    <2> QED
      BY <2>1, <1>1, <1>2, ChildFacts
  <1>4. /\ color' \in [Node -> {"RED", "BLACK"}]
        /\ color'[p] = "BLACK" /\ color'[u] = "BLACK" /\ color'[g] = "RED"
        /\ \A n \in Node : n # p /\ n # u /\ n # g => color'[n] = color[n]
    BY <1>2, <1>3 DEF Painted
  <1>5. op' \in Op /\ op'.pc = "insert_fixup" /\ op'.z = g
    BY <1>2, NodeFacts DEF TypeOK, Op
  <1>6. RedsApart'
    <2>1. ASSUME NEW n \in nodes, n # g, color'[n] = "RED", n = root \/ color'[parent[n]] = "RED"
          PROVE  FALSE
      <3>1. n # p /\ n # u /\ color[n] = "RED" /\ n \in Node /\ parent[n] \in Node
        BY <2>1, <1>2, <1>4, NodeFacts
      <3>2. parent[n] # g
        <4>1. ASSUME parent[n] = g PROVE n = child[s][g] \/ n = child[o][g]
          BY <4>1, <1>1, <1>2, NodeFacts, ParentFacts
        <4> QED
          BY <4>1, <3>1, <1>2
      <3>3. n = root \/ color[parent[n]] = "RED"
        BY <2>1, <3>1, <3>2, <1>4
      <3>4. n = z
        BY <3>1, <3>3 DEF RedParent
      <3> QED
        BY <2>1, <3>4, <1>2, <1>4
    <2>2. BeingFixed(g)'
      BY <1>5 DEF BeingFixed
    <2> QED
      BY <2>1, <2>2 DEF RedsApart
  <1>7. InsertFixupOK' /\ DeleteFixupOK'
    BY <1>2, <1>4, <1>5 DEF InsertFixupOK, DeleteFixupOK
  <1>8. \E hh : Heights(hh)'
    <2>1. PICK h : Heights(h)
      BY DEF Inv
    <2>2. PICK hh : hh = [h EXCEPT ![g] = h[g] + 1]
      OBVIOUS
    <2>3. /\ hh \in [Node -> Nat] /\ hh[g] = h[g] + 1 /\ h[g] \in Nat
          /\ \A n \in Node : n # g => hh[n] = h[n]
          /\ \A n \in nodes : \A t \in Side : BlackOn(h, t, n) = h[n]
      BY <2>1, <2>2, <1>2 DEF Heights
    <2>4. \A n : ~Short(n) /\ ~Short(n)'
      BY <1>5 DEF Short
    <2>5. /\ Weight(hh, p)' = 1 + h[p] /\ Weight(hh, u)' = 1 + h[u] /\ Weight(hh, g)' = h[g] + 1
          /\ Weight(h, p) = h[p] /\ Weight(h, u) = h[u] /\ Weight(h, g) = 1 + h[g]
          /\ h[p] \in Nat /\ h[u] \in Nat
      <3>1. /\ p \in Node /\ u \in Node /\ g \in Node /\ hh[p] = h[p] /\ hh[u] = h[u]
            /\ h[p] \in Nat /\ h[u] \in Nat /\ h[g] \in Nat /\ hh[g] = h[g] + 1
        BY <2>1, <2>3, <1>2, <1>3 DEF Heights
      <3>2. color[p] = "RED" /\ color[g] = "BLACK"
        BY DEF RedParent
      <3>3. Weight(hh, p)' = 1 + h[p] /\ Weight(h, p) = h[p]
        BY <3>1, <3>2, <2>4, <1>4 DEF Weight, Count
      <3>4. Weight(hh, u)' = 1 + h[u] /\ Weight(h, u) = h[u]
        BY <3>1, <2>4, <1>4 DEF Weight, Count
      <3>5. Weight(hh, g)' = h[g] + 1 /\ Weight(h, g) = 1 + h[g]
        BY <3>1, <3>2, <2>4, <1>4 DEF Weight, Count
      <3> QED
        BY <3>1, <3>3, <3>4, <3>5
    <2>6. \A c \in nodes : c # p /\ c # u /\ c # g => Weight(hh, c)' = Weight(h, c)
      <3> TAKE c \in nodes
      <3> HAVE c # p /\ c # u /\ c # g
      <3>1. hh[c] = h[c] /\ color'[c] = color[c]
        BY <2>3, <1>2, <1>4
      <3> QED
        BY <3>1, <2>4 DEF Weight, Count
    <2>7. ASSUME NEW n \in nodes, NEW t \in Side PROVE BlackOn(hh, t, n)' = hh[n]
      <3>1. PICK c : c = child[t][n]
        OBVIOUS
      <3>2. CASE c = Nil
        <4>1. n # g /\ n \in Node
          BY <3>1, <3>2, <1>2, <1>3, NodeFacts
        <4>2. BlackOn(hh, t, n)' = 0 /\ BlackOn(h, t, n) = 0
          BY <3>1, <3>2, <2>4 DEF BlackOn, Count, Hole
        <4> QED
          BY <4>1, <4>2, <2>3
      <3>3. CASE c # Nil
        <4>1. BlackOn(hh, t, n)' = Weight(hh, c)' /\ BlackOn(h, t, n) = Weight(h, c)
          BY <3>1, <3>3 DEF BlackOn, Weight, Short
        <4>2. c \in nodes /\ parent[c] = n /\ n \in Node
          BY <3>1, <3>3, <1>2 DEF Coherent
        <4>3. CASE n = g
          <5>1. c = p \/ c = u
            BY <3>1, <4>3, <1>2
          <5> QED
            BY <4>1, <4>3, <5>1, <2>3, <2>5
        <4>4. CASE n # g
          <5>1. c # p /\ c # u
            BY <4>2, <4>4, <1>2, <1>3
          <5>2. Weight(hh, c)' = Weight(h, c)
            BY <5>1, <4>2, <2>5, <2>6, <2>3
          <5> QED
            BY <4>1, <4>2, <4>4, <5>2, <2>3
        <4> QED
          BY <4>3, <4>4
      <3> QED
        BY <3>2, <3>3
    <2> QED
      BY <2>3, <2>7 DEF Heights
  <1>9. \A n \in Node \ nodes : color'[n] = "BLACK"
    BY <1>2, <1>3, <1>4 DEF Inv, Fields
  <1> QED
    BY <1>4, <1>5, <1>6, <1>7, <1>8, <1>9, Recolored

(* The same subtree below another node counts as it did. *)
LEMMA SameBranch ==
    ASSUME NEW h, NEW hh, NEW t, NEW n, NEW t2, NEW n2, NEW c,
           child'[t][n] = c, child[t2][n2] = c,
           c = Nil => (Hole(t, n)' <=> Hole(t2, n2)),
           c # Nil => color'[c] = color[c] /\ hh[c] = h[c] /\ (Short(c)' <=> Short(c))
    PROVE  BlackOn(hh, t, n)' = BlackOn(h, t2, n2)
  <1>1. CASE c = Nil
    BY <1>1 DEF BlackOn, Count
  <1>2. CASE c # Nil
    <2>1. Weight(hh, c)' = Weight(h, c)
      BY <1>2 DEF Weight, Count
    <2>2. BlackOn(hh, t, n)' = Weight(hh, c)' /\ BlackOn(h, t2, n2) = Weight(h, c)
      BY <1>2 DEF BlackOn, Weight, Short
    <2> QED
      BY <2>1, <2>2
  <1> QED
    BY <1>1, <1>2

(* What a child of its own adds after the step *)
LEMMA OtherBranch ==
    ASSUME NEW hh, NEW t, NEW n, NEW c, c # Nil, child'[t][n] = c
    PROVE  BlackOn(hh, t, n)' = Weight(hh, c)'
  BY DEF BlackOn, Weight, Short

(* The new red node is on the inner side: the red pair turns over. *)
LEMMA InnerGrandchild ==
    ASSUME Inv, NEW z, NEW p, NEW g, NEW s, RedParent(z, p, g, s), op.pc = "insert_fixup",
           z = child[Opposite[s]][p], Rotate(p, s), op' = [op EXCEPT !.z = p],
           UNCHANGED <<color, nodes, item>>
    PROVE  Inv'
  <1> DEFINE o == Opposite[s]
  <1>1. PICK b : Ordered(b)
    BY DEF Inv
  <1>2. /\ z \in nodes /\ p \in nodes /\ g \in nodes /\ s \in Side /\ o \in Side /\ o # s
        /\ \A t \in Side : t = s \/ t = o
        /\ TypeOK /\ Coherent /\ nodes \subseteq Node /\ z # Nil /\ p # Nil /\ g # Nil
        /\ color[z] = "RED" /\ color[p] = "RED" /\ color[g] = "BLACK" /\ z # p /\ z # g /\ p # g
        /\ p # root /\ z # root
    BY ZenonT(20), SideFacts, NodeFacts DEF RedParent, Inv
  <1>3. PICK i : Turned(p, s, g, z, i)
    BY <1>1, <1>2, RotateTurns DEF RedParent
  <1>4. /\ color' = color /\ nodes' = nodes /\ color \in [Node -> {"RED", "BLACK"}]
        /\ root' = root
    BY <1>2, <1>3 DEF TypeOK, Turned
  <1>5. op' \in Op /\ op'.pc = "insert_fixup" /\ op'.z = p
    BY <1>2, NodeFacts DEF TypeOK, Op
  <1>6. \A n : ~Short(n) /\ ~Short(n)'
    BY <1>5 DEF Short
  <1>7. \A t, n : ~Hole(t, n) /\ ~Hole(t, n)'
    BY <1>6 DEF Hole
  <1>8. /\ parent'[p] = z /\ parent'[z] = g /\ (i # Nil => parent'[i] = p)
        /\ \A n \in nodes : n # z /\ n # p /\ n # i => parent'[n] = parent[n]
        /\ i # Nil => i \in nodes /\ parent[i] = z /\ i # z
    BY <1>2, <1>3 DEF Turned
  <1>9. RedsApart'
    <2>1. ASSUME NEW n \in nodes, n # p, color[n] = "RED", n = root \/ color[parent'[n]] = "RED"
          PROVE  FALSE
      <3>1. n # z
        BY <2>1, <1>2, <1>8
      <3>2. CASE n = i
        BY <3>2, <2>1, <1>2, <1>8, NodeFacts DEF RedParent
      <3>3. CASE n # i
        BY <3>1, <3>3, <2>1, <1>8 DEF RedParent
      <3> QED
        BY <3>2, <3>3
    <2>2. BeingFixed(p)'
      BY <1>5 DEF BeingFixed
    <2> QED
      BY <2>1, <2>2, <1>4 DEF RedsApart
  <1>10. InsertFixupOK' /\ DeleteFixupOK'
    BY <1>2, <1>4, <1>5 DEF InsertFixupOK, DeleteFixupOK
  <1>11. PICK h : Heights(h)
    BY DEF Inv
  <1>12. h \in [Node -> Nat] /\ \A n \in nodes : \A t \in Side : BlackOn(h, t, n) = h[n]
    BY <1>11 DEF Heights
  <1>13. \A c \in Node : Weight(h, c)' = Weight(h, c)
    BY <1>4, <1>6 DEF Weight, Count
  <1>14. Weight(h, p) = h[p] /\ Weight(h, z) = h[z]
    BY <1>2, <1>6, <1>12 DEF Weight, Count
  <1>15. h[p] = h[z]
    <2>1. BlackOn(h, o, p) = Weight(h, z)
      BY <1>2 DEF BlackOn
    <2> QED
      BY <2>1, <1>2, <1>12, <1>14
  <1>16. BlackOn(h, s, p)' = h[p] /\ BlackOn(h, o, p)' = h[p]
    <2>1. child'[s][p] = child[s][p] /\ child'[o][p] = child[s][z]
      BY <1>2, <1>3 DEF Turned
    <2>2. BlackOn(h, s, p)' = BlackOn(h, s, p) /\ BlackOn(h, o, p)' = BlackOn(h, s, z)
      BY <2>1, <1>4, <1>6, <1>7, SameBranch
    <2> QED
      BY <2>2, <1>2, <1>12, <1>15
  <1>17. BlackOn(h, s, z)' = h[z] /\ BlackOn(h, o, z)' = h[z]
    <2>1. child'[s][z] = p /\ child'[o][z] = child[o][z]
      BY <1>2, <1>3 DEF Turned
    <2>2. BlackOn(h, s, z)' = Weight(h, p)' /\ BlackOn(h, o, z)' = BlackOn(h, o, z)
      BY <2>1, <1>2, <1>4, <1>6, <1>7, SameBranch, OtherBranch
    <2> QED
      BY <2>2, <1>2, <1>12, <1>13, <1>14, <1>15
  <1>18. Heights(h)'
    <2>1. Weight(h, z)' = Weight(h, p)
      BY <1>2, <1>13, <1>14, <1>15
    <2>2. \A t \in Side : BlackOn(h, t, p)' = h[p] /\ BlackOn(h, t, z)' = h[z]
      BY <1>2, <1>16, <1>17
    <2> QED
      BY <2>1, <2>2, <1>1, <1>2, <1>3, <1>7, <1>11, <1>12, <1>13, RotateKeepsHeights
  <1>19. \A n \in Node \ nodes : color'[n] = "BLACK"
    BY <1>4 DEF Inv, Fields
  <1> QED
    BY <1>1, <1>2, <1>4, <1>5, <1>9, <1>10, <1>18, <1>19, Rotated

(* It is on the outer side: the pair's black parent changes places with it. *)
LEMMA OuterGrandchild ==
    ASSUME Inv, NEW z, NEW p, NEW g, NEW s, RedParent(z, p, g, s), op.pc = "insert_fixup",
           color[child[Opposite[s]][g]] = "BLACK", z # child[Opposite[s]][p],
           Painted({p}, {g}),
           Rotate(g, Opposite[s]), UNCHANGED <<op, nodes, item>>
    PROVE  Inv'
  <1> DEFINE o == Opposite[s]
             u == child[o][g]
  <1>1. PICK b : Ordered(b)
    BY DEF Inv
  <1>2. /\ z \in nodes /\ p \in nodes /\ g \in nodes /\ s \in Side /\ o \in Side /\ o # s
        /\ \A t \in Side : t = s \/ t = o
        /\ Opposite[o] = s
        /\ TypeOK /\ Coherent /\ nodes \subseteq Node /\ z # Nil /\ p # Nil /\ g # Nil
        /\ color[z] = "RED" /\ color[p] = "RED" /\ color[g] = "BLACK" /\ z # p /\ z # g /\ p # g
        /\ p # root /\ z # root /\ child[s][g] = p /\ parent[z] = p /\ parent[p] = g
    BY ZenonT(20), SideFacts, NodeFacts DEF RedParent, Inv
  <1>3. PICK q, i : Turned(g, o, q, p, i)
    BY <1>1, <1>2, RotateTurns
  <1>4. /\ nodes' = nodes /\ color' \in [Node -> {"RED", "BLACK"}]
        /\ color'[p] = "BLACK" /\ color'[g] = "RED"
        /\ \A n \in Node : n # p /\ n # g => color'[n] = color[n]
    BY <1>2 DEF Painted
  <1>5. op' = op /\ op' \in Op /\ op'.pc = "insert_fixup" /\ op'.z = z
    BY <1>2 DEF TypeOK, RedParent
  <1>6. \A n : ~Short(n) /\ ~Short(n)'
    BY <1>5 DEF Short
  <1>7. \A t, n : ~Hole(t, n) /\ ~Hole(t, n)'
    BY <1>6 DEF Hole
  <1>8. /\ i = child[o][p] /\ root' \in {p, root} /\ (root' = root => root # g)
        /\ parent'[g] = p /\ parent'[p] = q /\ (i # Nil => parent'[i] = g)
        /\ \A n \in nodes : n # g /\ n # p /\ n # i => parent'[n] = parent[n]
        /\ i # Nil => i \in nodes /\ parent[i] = p /\ i # g /\ i # p
        /\ i # z
    BY <1>2, <1>3 DEF Turned
  <1>9. u # Nil => u \in nodes /\ u # p /\ u # g /\ parent[u] = g
    BY <1>1, <1>2, ChildFacts
  <1>10. i # Nil => color[i] = "BLACK"
    <2> SUFFICES ASSUME i # Nil, color[i] = "RED" PROVE FALSE
      BY <1>2, <1>8 DEF TypeOK
    <2> QED
      BY <1>2, <1>8 DEF RedParent
  <1>11. RedsApart'
    <2>1. ASSUME NEW n \in nodes, color'[n] = "RED", n = root' \/ color'[parent'[n]] = "RED"
          PROVE  FALSE
      <3>1. n # p /\ n \in Node /\ parent[n] \in Node
        BY <2>1, <1>2, <1>4, NodeFacts
      <3>2. n # g
        BY <2>1, <1>2, <1>4, <1>8
      <3>3. n # i
        BY <2>1, <3>1, <3>2, <1>4, <1>10, <1>2, NodeFacts
      <3>4. color[n] = "RED" /\ parent'[n] = parent[n] /\ n # z
        BY <2>1, <3>1, <3>2, <3>3, <1>2, <1>4, <1>8
      <3>5. parent[n] # g
        <4>1. ASSUME parent[n] = g PROVE n = p \/ n = u
          BY <4>1, <1>1, <1>2, NodeFacts, ParentFacts
        <4> QED
          BY <4>1, <3>1, <3>4
      <3>6. n = root \/ color[parent[n]] = "RED"
        BY <2>1, <3>1, <3>4, <3>5, <1>4, <1>8
      <3> QED
        BY <3>4, <3>6 DEF RedParent
    <2> QED
      BY <2>1, <1>4 DEF RedsApart
  <1>12. InsertFixupOK' /\ DeleteFixupOK'
    BY <1>2, <1>4, <1>5 DEF InsertFixupOK, DeleteFixupOK
  <1>13. PICK h : Heights(h)
    BY DEF Inv
  <1>14. h \in [Node -> Nat] /\ \A n \in nodes : \A t \in Side : BlackOn(h, t, n) = h[n]
    BY <1>13 DEF Heights
  <1>15. \A c \in Node : c # p /\ c # g => Weight(h, c)' = Weight(h, c)
    <2> TAKE c \in Node
    <2> HAVE c # p /\ c # g
    <2>1. color'[c] = color[c]
      BY <1>4
    <2> QED
      BY <2>1, <1>6 DEF Weight, Count
  <1>16. /\ Weight(h, p) = h[p] /\ Weight(h, g) = 1 + h[g]
         /\ Weight(h, p)' = 1 + h[p] /\ Weight(h, g)' = h[g]
    BY <1>2, <1>4, <1>6, <1>14 DEF Weight, Count
  <1>17. h[p] = h[g]
    <2>1. BlackOn(h, s, g) = Weight(h, p)
      BY <1>2 DEF BlackOn
    <2> QED
      BY <2>1, <1>2, <1>14, <1>16
  <1>18. BlackOn(h, o, g)' = h[g] /\ BlackOn(h, s, g)' = h[g]
    <2>1. child'[o][g] = u /\ child'[s][g] = i /\ i = child[o][p]
      BY <1>2, <1>3 DEF Turned
    <2>2. u # Nil => color'[u] = color[u]
      BY <1>2, <1>4, <1>9
    <2>3. i # Nil => color'[i] = color[i]
      BY <1>2, <1>4, <1>8
    <2>4. \A t, n, t2, n2 : (Hole(t, n)' <=> Hole(t2, n2))
      BY <1>7
    <2>5. \A n : (Short(n)' <=> Short(n))
      BY <1>6
    <2>6. BlackOn(h, o, g)' = BlackOn(h, o, g)
      BY <2>1, <2>2, <2>4, <2>5, SameBranch
    <2>7. BlackOn(h, s, g)' = BlackOn(h, o, p)
      BY <2>1, <2>3, <2>4, <2>5, SameBranch
    <2> QED
      BY <2>6, <2>7, <1>2, <1>14, <1>17
  <1>19. BlackOn(h, o, p)' = h[p] /\ BlackOn(h, s, p)' = h[p]
    <2>1. child'[o][p] = g /\ child'[s][p] = child[s][p]
      BY <1>2, <1>3 DEF Turned
    <2>2. PICK v : v = child[s][p]
      OBVIOUS
    <2>3. v # Nil => v \in nodes /\ v # p /\ v # g
      <3>1. v # Nil => v \in nodes /\ parent[v] = p
        BY <2>2, <1>2 DEF Coherent
      <3>2. parent[g] # p /\ parent[p] # p
        BY <1>2, <1>3 DEF Turned
      <3> QED
        BY <3>1, <3>2
    <2>4. v # Nil => color'[v] = color[v]
      BY <2>3, <1>2, <1>4
    <2>5. BlackOn(h, s, p)' = BlackOn(h, s, p)
      <3>1. \A t, n, t2, n2 : (Hole(t, n)' <=> Hole(t2, n2))
        BY <1>7
      <3>2. \A n : (Short(n)' <=> Short(n))
        BY <1>6
      <3> QED
        BY <3>1, <3>2, <2>1, <2>2, <2>4, SameBranch
    <2>6. BlackOn(h, o, p)' = Weight(h, g)'
      BY <2>1, <1>2, OtherBranch
    <2> QED
      BY <2>5, <2>6, <1>2, <1>14, <1>16, <1>17
  <1>20. Heights(h)'
    <2>1. Weight(h, p)' = Weight(h, g)
      BY <1>16, <1>17
    <2>2. \A t \in Side : BlackOn(h, t, g)' = h[g] /\ BlackOn(h, t, p)' = h[p]
      BY <1>2, <1>18, <1>19
    <2> QED
      BY <2>1, <2>2, <1>1, <1>2, <1>3, <1>7, <1>13, <1>14, <1>15, RotateKeepsHeights
  <1>21. \A n \in Node \ nodes : color'[n] = "BLACK"
    BY <1>2, <1>4 DEF Inv, Fields
  <1> QED
    BY <1>1, <1>2, <1>4, <1>5, <1>11, <1>12, <1>20, <1>21, Rotated

(* The parent is black: the root is painted black, and that is the end. *)
LEMMA ParentBlack ==
    ASSUME Inv, op.pc = "insert_fixup", color[parent[op.z]] = "BLACK",
           Painted({root, Nil}, {}), op' = Idle,
           UNCHANGED <<nodes, root, child, parent, item>>
    PROVE  Inv'
  <1>1. PICK b, h : Ordered(b) /\ Heights(h)
    BY DEF Inv
  <1>2. op.z \in nodes /\ TypeOK /\ Coherent /\ root \in nodes /\ nodes \subseteq Node /\ Nil \in Node
    BY <1>1, SideFacts, NodeFacts, ParentFacts DEF Inv, InsertFixupOK
  <1>3. /\ color' \in [Node -> {"RED", "BLACK"}]
        /\ color'[root] = "BLACK" /\ color'[Nil] = "BLACK"
        /\ \A n \in Node : n # root /\ n # Nil => color'[n] = color[n]
    BY <1>2 DEF Painted
  <1>4. op' \in Op /\ op'.pc = "idle"
    BY <1>2 DEF Op, Idle
  <1>5. \A n : ~Short(n) /\ ~Short(n)'
    BY <1>4 DEF Short
  <1>6. RedsApart'
    <2>1. ASSUME NEW n \in nodes, color'[n] = "RED", n = root \/ color'[parent[n]] = "RED"
          PROVE  FALSE
      <3>1. n # root /\ color[n] = "RED" /\ parent[n] \in Node /\ n \in Node
        BY <2>1, <1>2, <1>3, NodeFacts
      <3>2. color[parent[n]] = "RED"
        BY <2>1, <3>1, <1>3
      <3>3. BeingFixed(n)
        BY <3>1, <3>2 DEF Inv, RedsApart
      <3>4. n = op.z
        BY <3>3, <1>5 DEF BeingFixed
      <3> QED
        BY <3>2, <3>4
    <2> QED
      BY <2>1 DEF RedsApart
  <1>7. Heights(h)'
    <2>1. ASSUME NEW n \in nodes, NEW t \in Side PROVE BlackOn(h, t, n)' = h[n]
      <3>1. PICK c : c = child[t][n]
        OBVIOUS
      <3>2. ~Hole(t, n) /\ ~Hole(t, n)'
        BY <1>5 DEF Hole
      <3>3. c # Nil => color'[c] = color[c]
        BY <3>1, <1>1, <1>2, <1>3, ChildFacts
      <3>4. child'[t][n] = c
        BY <3>1
      <3>5. Short(c)' <=> Short(c)
        BY <1>5
      <3>6. BlackOn(h, t, n)' = BlackOn(h, t, n)
        BY <3>1, <3>2, <3>3, <3>4, <3>5, SameBranch
      <3> QED
        BY <3>6, <1>1 DEF Heights
    <2> QED
      BY <2>1, <1>1 DEF Heights
  <1>8. InsertFixupOK' /\ DeleteFixupOK'
    BY <1>4 DEF InsertFixupOK, DeleteFixupOK
  <1>9. \A n \in Node \ nodes : color'[n] = "BLACK"
    BY <1>2, <1>3 DEF Inv, Fields
  <1> QED
    BY <1>3, <1>4, <1>6, <1>7, <1>8, <1>9, Recolored

(* rb_insert_fixup, by its four branches *)
LEMMA InsertFixupKeeps ==
    ASSUME Inv, InsertFixup
    PROVE  Inv'
  <1>1. PICK z, p, g, s, o, u :
           /\ z = op.z /\ p = parent[z] /\ g = parent[p] /\ s = SideOf(p)
           /\ o = Opposite[s] /\ u = child[o][g]
    OBVIOUS
  <1>2. op.pc = "insert_fixup" /\ UNCHANGED <<nodes, item>>
    BY DEF InsertFixup
  <1>3. PICK b : Ordered(b)
    BY DEF Inv
  <1>4. /\ z \in Node /\ p \in Node /\ g \in Node /\ s \in Side /\ o \in Side /\ u \in Node
        /\ color \in [Node -> {"RED", "BLACK"}] /\ root \in Node /\ Nil \in Node
    BY <1>1, <1>2, NodeFacts, SideFacts DEF Inv, InsertFixupOK, TypeOK
  <1>5. color[p] = "RED" => RedParent(z, p, g, s)
    BY <1>1, <1>2, <1>3, RedParentFacts
  <1>6. ASSUME color[p] = "RED", color[u] = "RED",
               color' = [color EXCEPT ![p] = "BLACK", ![u] = "BLACK", ![g] = "RED"],
               op' = [op EXCEPT !.z = g], UNCHANGED <<root, child, parent>>
        PROVE  Inv'
    <2>1. u # g
      BY <1>4, <1>5, <1>6 DEF RedParent
    <2>2. Painted({p, u}, {g})
      BY <1>4, <1>5, <1>6, <2>1 DEF Painted, RedParent
    <2>3. /\ color[p] = "RED" /\ color[u] = "RED" /\ op' = [op EXCEPT !.z = g]
          /\ UNCHANGED <<nodes, root, child, parent, item>>
      BY <1>2, <1>6
    <2>4. RedParent(z, p, g, s) /\ u = child[Opposite[s]][g] /\ op.pc = "insert_fixup"
      BY <1>1, <1>2, <1>5, <2>3
    <2> QED
      BY Zenon, <2>2, <2>3, <2>4, UncleRed
  <1>7. ASSUME color[p] = "RED", color[u] = "BLACK", z = child[o][p], Rotate(p, s),
               op' = [op EXCEPT !.z = p], UNCHANGED color
        PROVE  Inv'
    BY <1>1, <1>2, <1>5, <1>7, InnerGrandchild
  <1>8. ASSUME color[p] = "RED", color[u] = "BLACK", z # child[o][p],
               color' = [color EXCEPT ![p] = "BLACK", ![g] = "RED"],
               Rotate(g, o), UNCHANGED op
        PROVE  Inv'
    <2>1. Painted({p}, {g})
      BY <1>4, <1>5, <1>8 DEF Painted, RedParent
    <2> QED
      BY <1>1, <1>2, <1>5, <1>8, <2>1, OuterGrandchild
  <1>9. ASSUME color[p] = "BLACK",
               color' = [color EXCEPT ![root] = "BLACK", ![Nil] = "BLACK"],
               op' = Idle, UNCHANGED <<root, child, parent>>
        PROVE  Inv'
    <2>1. Painted({root, Nil}, {})
      BY <1>4, <1>9 DEF Painted
    <2> QED
      BY <1>1, <1>2, <1>9, <2>1, ParentBlack
  <1> QED
    BY <1>1, <1>6, <1>7, <1>8, <1>9, Zenon DEF InsertFixup

-----------------------------------------------------------------------------
(* rbtree_delete_fixup: x is a black short, on side s of p; w is its sibling. *)

MissingBlack(x, p, s, w, h) ==
    /\ x = op.x /\ p = parent[x] /\ s = SideOf(x) /\ w = child[Opposite[s]][p]
    /\ x \in nodes \cup {Nil} /\ p \in nodes /\ s \in Side /\ w \in nodes /\ root \in nodes
    /\ p # Nil /\ w # Nil /\ x # p /\ x # w /\ w # p /\ x # root /\ w # root
    /\ child[s][p] = x /\ parent[w] = p /\ SideOf(w) = Opposite[s]
    /\ color[x] = "BLACK"
    /\ \A n : Short(n) <=> n = x
    /\ \A n \in nodes : color[n] = "RED" => n # root /\ color[parent[n]] # "RED"
    /\ \A t, n : Hole(t, n) <=> x = Nil /\ n = p /\ t = s
    /\ h[p] = BlackOn(h, s, p)
    /\ h[p] = IF x = Nil THEN 1 ELSE 2 + h[x]
    /\ x # Nil => h[x] \in Nat
    /\ h[p] = Weight(h, w)

(* rbtree_delete_fixup always finds a sibling that is a node. *)
LEMMA MissingBlackFacts ==
    ASSUME Inv, NEW b, Ordered(b), NEW h, Heights(h),
           op.pc = "delete_fixup", op.x # root, color[op.x] = "BLACK"
    PROVE  MissingBlack(op.x, parent[op.x], SideOf(op.x),
                        child[Opposite[SideOf(op.x)]][parent[op.x]], h)
  <1>1. PICK x, p, s, o, w : /\ x = op.x /\ p = parent[x] /\ s = SideOf(x)
                             /\ o = Opposite[s] /\ w = child[o][p]
    OBVIOUS
  <1>2. /\ TypeOK /\ Coherent /\ x \in nodes \cup {Nil} /\ x # root /\ color[x] = "BLACK"
        /\ \A n : Short(n) <=> n = x
    BY <1>1 DEF Inv, DeleteFixupOK, Short
  <1>3. root \in nodes /\ root # Nil /\ parent[root] = Nil
    <2>1. root # Nil
      BY <1>2 DEF Coherent
    <2> QED
      BY <2>1, <1>2 DEF Coherent
  <1>4. p \in nodes /\ s \in Side /\ child[s][p] = x /\ x # p /\ p # Nil
    <2>1. CASE x = Nil
      <3>1. p \in nodes /\ child[s][p] = x
        BY <2>1, <1>1, <1>3 DEF Inv, DeleteFixupOK
      <3> QED
        BY <3>1, <2>1, <1>1, <1>2, NodeFacts, SideFacts
    <2>2. CASE x # Nil
      BY <2>2, <1>1, <1>2, NodeFacts, ParentFacts
    <2> QED
      BY <2>1, <2>2
  <1>5. o \in Side /\ o # s /\ \A t \in Side : t = s \/ t = o
    BY <1>1, <1>4, SideFacts
  <1>6. \A t, n : Hole(t, n) <=> x = Nil /\ n = p /\ t = s
    BY <1>1, <1>2 DEF Hole
  <1>7. h \in [Node -> Nat] /\ \A n \in nodes : \A t \in Side : BlackOn(h, t, n) = h[n]
    BY DEF Heights
  <1>8. h[p] = (IF x = Nil THEN 1 ELSE 2 + h[x]) /\ (x # Nil => h[x] \in Nat)
    <2>1. BlackOn(h, s, p) = h[p]
      BY <1>4, <1>7
    <2>2. CASE x = Nil
      BY <2>1, <2>2, <1>4, <1>6 DEF BlackOn, Count
    <2>3. CASE x # Nil
      <3>1. Weight(h, x) = 2 + h[x] /\ h[x] \in Nat
        BY <2>3, <1>2, <1>7, NodeFacts DEF Weight, Count
      <3> QED
        BY <2>1, <2>3, <3>1, <1>4 DEF BlackOn
    <2> QED
      BY <2>2, <2>3
  <1>9. w # Nil /\ h[p] = Weight(h, w)
    <2>1. BlackOn(h, o, p) = h[p] /\ h[p] \in Nat /\ h[p] # 0
      BY <1>4, <1>5, <1>7, <1>8
    <2>2. w # Nil
      <3> SUFFICES ASSUME w = Nil PROVE FALSE
        OBVIOUS
      <3>1. BlackOn(h, o, p) = 0
        BY <1>1, <1>5, <1>6 DEF BlackOn, Count
      <3> QED
        BY <3>1, <2>1
    <2> QED
      BY <2>1, <2>2, <1>1 DEF BlackOn
  <1>10. w \in nodes /\ parent[w] = p /\ SideOf(w) = o /\ w # p /\ w # root /\ w # x
    BY <1>1, <1>2, <1>4, <1>5, <1>9, ChildFacts, SideFacts
  <1>11. \A n \in nodes : color[n] = "RED" => n # root /\ color[parent[n]] # "RED"
    <2> SUFFICES ASSUME NEW n \in nodes, color[n] = "RED", n = root \/ color[parent[n]] = "RED"
                 PROVE  FALSE
      OBVIOUS
    <2>1. BeingFixed(n)
      BY DEF Inv, RedsApart
    <2>2. n = x \/ (n # root /\ parent[n] = x)
      BY <2>1, <1>2 DEF BeingFixed, Short
    <2> QED
      BY <2>2, <1>2
  <1> QED
    BY <1>1, <1>2, <1>3, <1>4, <1>5, <1>6, <1>7, <1>8, <1>9, <1>10, <1>11 DEF MissingBlack

(* The node, its parent, the sibling and its children are all different. *)
LEMMA MissingBlackNames ==
    ASSUME Inv, NEW b, Ordered(b), NEW x, NEW p, NEW s, NEW w, NEW h, MissingBlack(x, p, s, w, h)
    PROVE  LET o == Opposite[s] IN
           /\ x \in nodes \cup {Nil} /\ p \in nodes /\ s \in Side /\ o \in Side /\ w \in nodes
           /\ o # s /\ Opposite[o] = s /\ \A t \in Side : t = s \/ t = o
           /\ TypeOK /\ Coherent /\ nodes \subseteq Node /\ Nil \notin nodes /\ Nil \in Node
           /\ x # p /\ x # w /\ w # p /\ x # root /\ w # root /\ root \in nodes
           /\ child[s][p] = x /\ child[o][p] = w /\ parent[w] = p /\ parent[x] = p
           /\ SideOf(w) = o /\ SideOf(x) = s
           /\ \A t \in Side : child[t][w] # Nil =>
                 /\ child[t][w] \in nodes /\ child[t][w] # w /\ child[t][w] # root
                 /\ parent[child[t][w]] = w /\ SideOf(child[t][w]) = t
                 /\ child[t][w] # p /\ child[t][w] # x
           /\ \A n \in nodes : parent[n] = p => n = x \/ n = w
  <1> DEFINE o == Opposite[s]
  <1>1. /\ x \in nodes \cup {Nil} /\ p \in nodes /\ s \in Side /\ o \in Side /\ w \in nodes
        /\ o # s /\ Opposite[o] = s /\ \A t \in Side : t = s \/ t = o
        /\ TypeOK /\ Coherent /\ nodes \subseteq Node /\ Nil \notin nodes /\ Nil \in Node
        /\ x # p /\ x # w /\ w # p /\ x # root /\ w # root /\ root \in nodes
        /\ child[s][p] = x /\ child[o][p] = w /\ parent[w] = p /\ parent[x] = p
        /\ SideOf(w) = o /\ SideOf(x) = s
    BY SideFacts, NodeFacts DEF MissingBlack, Inv
  <1>2. ASSUME NEW t \in Side, child[t][w] # Nil
        PROVE  /\ child[t][w] \in nodes /\ child[t][w] # w /\ child[t][w] # root
               /\ parent[child[t][w]] = w /\ SideOf(child[t][w]) = t
               /\ child[t][w] # p /\ child[t][w] # x
    <2>1. /\ child[t][w] \in nodes /\ child[t][w] # w /\ child[t][w] # root
          /\ parent[child[t][w]] = w /\ SideOf(child[t][w]) = t /\ child[t][w] \in b[w]
      BY <1>1, <1>2, ChildFacts
    <2>2. p \notin b[w]
      BY <1>1, ChildFacts
    <2> QED
      BY <2>1, <2>2, <1>1
  <1>3. ASSUME NEW n \in nodes, parent[n] = p PROVE n = x \/ n = w
    <2>1. n # root
      BY <1>1, <1>3, ParentFacts
    <2>2. child[SideOf(n)][p] = n /\ SideOf(n) \in Side
      BY <2>1, <1>1, <1>3, ParentFacts
    <2> QED
      BY <2>2, <1>1
  <1> QED
    BY <1>1, <1>2, <1>3

(* The sibling is red: it rises, and x gets a black one. *)
LEMMA SiblingRed ==
    ASSUME Inv, NEW x, NEW p, NEW s, NEW w, NEW h, NEW b, Ordered(b), Heights(h),
           MissingBlack(x, p, s, w, h), op.pc = "delete_fixup",
           color[w] = "RED", Painted({w}, {p}), Rotate(p, s), UNCHANGED <<op, nodes, item>>
    PROVE  Inv'
  <1> DEFINE o == Opposite[s]
  <1>1. /\ x \in nodes \cup {Nil} /\ p \in nodes /\ s \in Side /\ o \in Side /\ w \in nodes
        /\ o # s /\ Opposite[o] = s /\ \A t \in Side : t = s \/ t = o
        /\ TypeOK /\ Coherent /\ nodes \subseteq Node /\ Nil \notin nodes /\ Nil \in Node
        /\ x # p /\ x # w /\ w # p /\ x # root /\ w # root /\ root \in nodes
        /\ child[s][p] = x /\ child[o][p] = w /\ parent[w] = p /\ parent[x] = p
        /\ \A t \in Side : child[t][w] # Nil =>
                 /\ child[t][w] \in nodes /\ child[t][w] # w /\ child[t][w] # root
                 /\ parent[child[t][w]] = w /\ child[t][w] # p /\ child[t][w] # x
        /\ \A n \in nodes : parent[n] = p => n = x \/ n = w
    BY MissingBlackNames
  <1>2. PICK q, i : Turned(p, s, q, w, i)
    BY <1>1, RotateTurns
  <1>3. /\ nodes' = nodes /\ color' \in [Node -> {"RED", "BLACK"}]
        /\ color'[w] = "BLACK" /\ color'[p] = "RED"
        /\ \A n \in Node : n # w /\ n # p => color'[n] = color[n]
    BY <1>1 DEF Painted
  <1>4. op' = op /\ op' \in Op
    BY <1>1 DEF TypeOK
  <1>5. \A n : (Short(n) <=> n = x) /\ (Short(n)' <=> n = x)
    BY <1>4 DEF MissingBlack, Short
  <1>6. h \in [Node -> Nat] /\ \A n \in nodes : \A t \in Side : BlackOn(h, t, n) = h[n]
    BY DEF Heights
  <1>7. \A t, n : Hole(t, n) <=> x = Nil /\ n = p /\ t = s
    BY DEF MissingBlack
  <1>8. /\ color[w] = "RED" /\ color[x] = "BLACK" /\ color[p] = "BLACK"
        /\ \A n \in nodes : color[n] = "RED" => n # root /\ color[parent[n]] # "RED"
    <2>1. color[p] # "RED"
      BY <1>1 DEF MissingBlack
    <2> QED
      BY <2>1, <1>1 DEF MissingBlack, TypeOK
  <1>9. Weight(h, w) = h[w] /\ Weight(h, p) = 1 + h[p] /\ h[p] = h[w] /\ h[p] # 0
    <2>1. Weight(h, w) = h[w] /\ Weight(h, p) = 1 + h[p]
      BY <1>1, <1>5, <1>6, <1>8 DEF Weight, Count
    <2>2. h[p] = Weight(h, w) /\ h[p] # 0
      BY SMTT(20) DEF MissingBlack
    <2> QED
      BY <2>1, <2>2
  <1>10. i = child[s][w] /\ i # Nil
    <2>1. i = child[s][w]
      BY <1>2 DEF Turned
    <2>2. ASSUME i = Nil PROVE FALSE
      <3>1. BlackOn(h, s, w) = 0
        BY <2>1, <2>2, <1>1, <1>7 DEF BlackOn, Count
      <3> QED
        BY <3>1, <1>1, <1>6, <1>9
    <2> QED
      BY <2>1, <2>2
  <1>11. i \in nodes /\ parent[i] = w /\ i # w /\ i # p /\ i # x /\ i # root /\ color[i] = "BLACK"
    <2>1. i \in nodes /\ parent[i] = w /\ i # w /\ i # p /\ i # x /\ i # root
      BY <1>1, <1>10
    <2> QED
      BY <2>1, <1>1, <1>8 DEF TypeOK
  <1>12. /\ parent'[p] = w /\ parent'[w] = q /\ parent'[i] = p
         /\ \A n \in Node : n # p /\ n # w /\ n # i => parent'[n] = parent[n]
         /\ root' \in {w, root} /\ (root' = root => root # p)
         /\ child'[s][p] = x /\ child'[o][p] = i /\ child'[s][w] = p /\ child'[o][w] = child[o][w]
    BY <1>1, <1>2, <1>10, <1>11 DEF Turned
  <1>13. RedsApart'
    <2>1. ASSUME NEW n \in nodes, color'[n] = "RED", n = root' \/ color'[parent'[n]] = "RED"
          PROVE  FALSE
      <3>1. n # w /\ n \in Node /\ parent[n] \in Node
        BY <2>1, <1>1, <1>3, NodeFacts
      <3>2. n # p
        BY <2>1, <1>1, <1>3, <1>12
      <3>3. color[n] = "RED"
        BY <2>1, <3>1, <3>2, <1>3
      <3>4. n # i /\ n # x /\ n # root'
        BY <3>1, <3>3, <1>8, <1>11, <1>12
      <3>5. parent'[n] = parent[n] /\ parent[n] # p
        BY <3>1, <3>2, <3>4, <1>1, <1>12
      <3>6. color[parent[n]] = "RED"
        BY <2>1, <3>1, <3>4, <3>5, <1>3
      <3> QED
        BY <3>3, <3>6, <1>8
    <2> QED
      BY <2>1, <1>3 DEF RedsApart
  <1>14. x = Nil => SideOf(Nil)' = s
    BY <1>1, <1>10, <1>11, <1>12, SideFacts DEF SideOf, Left
  <1>15. \A t, n : Hole(t, n)' <=> x = Nil /\ n = p /\ t = s
    <2>1. x = Nil => parent'[Nil] = p
      BY <1>1, <1>11, <1>12
    <2> QED
      BY <2>1, <1>5, <1>14 DEF Hole
  <1>16. InsertFixupOK' /\ DeleteFixupOK'
    <2>1. op'.pc = "delete_fixup" /\ op'.x = x /\ nodes' = nodes
      BY <1>3, <1>4 DEF MissingBlack
    <2>2. x = Nil => parent'[Nil] = p /\ child'[SideOf(Nil)'][p] = Nil
      BY <1>1, <1>11, <1>12, <1>14
    <2> QED
      BY <2>1, <2>2, <1>1 DEF InsertFixupOK, DeleteFixupOK
  <1>17. \A c \in Node : c # w /\ c # p => Weight(h, c)' = Weight(h, c)
    <2> TAKE c \in Node
    <2> HAVE c # w /\ c # p
    <2>1. color'[c] = color[c]
      BY <1>3
    <2> QED
      BY <2>1, <1>5 DEF Weight, Count
  <1>18. Weight(h, w)' = 1 + h[w] /\ Weight(h, p)' = h[p]
    BY <1>1, <1>3, <1>5, <1>6 DEF Weight, Count
  <1>19. BlackOn(h, s, p)' = h[p] /\ BlackOn(h, o, p)' = h[p]
    <2>1. x # Nil => color'[x] = color[x]
      BY <1>1, <1>3
    <2>2. BlackOn(h, s, p)' = BlackOn(h, s, p)
      BY <2>1, <1>1, <1>5, <1>7, <1>12, <1>15, SameBranch
    <2>3. color'[i] = color[i] /\ child'[o][p] = i /\ child[s][w] = i
      BY <1>1, <1>3, <1>10, <1>11, <1>12
    <2>4. BlackOn(h, o, p)' = BlackOn(h, s, w)
      BY <2>3, <1>5, <1>10, SameBranch
    <2> QED
      BY <2>2, <2>4, <1>1, <1>6, <1>9
  <1>20. BlackOn(h, s, w)' = h[w] /\ BlackOn(h, o, w)' = h[w]
    <2>1. BlackOn(h, s, w)' = Weight(h, p)'
      BY <1>1, <1>12, OtherBranch
    <2>2. PICK c : c = child[o][w]
      OBVIOUS
    <2>3. c # Nil => color'[c] = color[c]
      BY <2>2, <1>1, <1>3
    <2>4. ~Hole(o, w) /\ ~Hole(o, w)' /\ child'[o][w] = c
      BY <2>2, <1>1, <1>7, <1>12, <1>15
    <2>5. BlackOn(h, o, w)' = BlackOn(h, o, w)
      BY <2>2, <2>3, <2>4, <1>5, SameBranch
    <2> QED
      BY <2>1, <2>5, <1>1, <1>6, <1>9, <1>18
  <1>21. Heights(h)'
    <2>1. Weight(h, w)' = Weight(h, p)
      BY <1>9, <1>18
    <2>2. \A t \in Side : BlackOn(h, t, p)' = h[p] /\ BlackOn(h, t, w)' = h[w]
      BY <1>1, <1>19, <1>20
    <2>3. \A n \in nodes : \A t \in Side : n # p /\ n # w => (Hole(t, n)' <=> Hole(t, n))
      BY <1>7, <1>15
    <2> QED
      BY <2>1, <2>2, <2>3, <1>1, <1>2, <1>6, <1>17, RotateKeepsHeights
  <1>22. \A n \in Node \ nodes : color'[n] = "BLACK"
    BY <1>1, <1>3 DEF Inv, Fields
  <1> QED
    BY <1>1, <1>3, <1>4, <1>13, <1>16, <1>21, <1>22, Rotated

(* The sibling's children are black: it is painted red, and the missing   *)
(* black is the parent's.                                                 *)
LEMMA SiblingPainted ==
    ASSUME Inv, NEW x, NEW p, NEW s, NEW w, NEW h, NEW b, Ordered(b), Heights(h),
           MissingBlack(x, p, s, w, h), op.pc = "delete_fixup",
           color[w] = "BLACK", \A t \in Side : color[child[t][w]] = "BLACK",
           Painted({}, {w}), op' = [op EXCEPT !.x = p],
           UNCHANGED <<nodes, root, child, parent, item>>
    PROVE  Inv'
  <1> DEFINE o == Opposite[s]
  <1>1. /\ x \in nodes \cup {Nil} /\ p \in nodes /\ s \in Side /\ o \in Side /\ w \in nodes
        /\ o # s /\ \A t \in Side : t = s \/ t = o
        /\ TypeOK /\ Coherent /\ nodes \subseteq Node /\ Nil \notin nodes /\ Nil \in Node
        /\ x # p /\ x # w /\ w # p /\ x # root /\ w # root /\ root \in nodes
        /\ child[s][p] = x /\ child[o][p] = w /\ parent[w] = p /\ parent[x] = p
        /\ \A n \in nodes : parent[n] = p => n = x \/ n = w
    BY MissingBlackNames
  <1>2. /\ color' \in [Node -> {"RED", "BLACK"}] /\ color'[w] = "RED"
        /\ \A n \in Node : n # w => color'[n] = color[n]
    BY <1>1 DEF Painted
  <1>3. op' \in Op /\ op'.pc = "delete_fixup" /\ op'.x = p
    BY <1>1 DEF TypeOK, Op
  <1>4. \A n : (Short(n) <=> n = x) /\ (Short(n)' <=> n = p)
    BY <1>3 DEF MissingBlack, Short
  <1>5. h \in [Node -> Nat] /\ \A n \in nodes : \A t \in Side : BlackOn(h, t, n) = h[n]
    BY DEF Heights
  <1>6. /\ \A t, n : Hole(t, n) <=> x = Nil /\ n = p /\ t = s
        /\ \A t, n : ~Hole(t, n)'
    BY <1>1, <1>4 DEF MissingBlack, Hole
  <1>7. \A n \in nodes : color[n] = "RED" => n # root /\ color[parent[n]] # "RED"
    BY DEF MissingBlack
  <1>8. RedsApart'
    <2>1. ASSUME NEW n \in nodes, n # w, color'[n] = "RED", n = root \/ color'[parent[n]] = "RED"
          PROVE  FALSE
      <3>1. color[n] = "RED" /\ n \in Node /\ parent[n] \in Node /\ n # root
        BY <2>1, <1>1, <1>2, <1>7, NodeFacts
      <3>2. parent[n] # w
        <4>1. ASSUME parent[n] = w PROVE \E t \in Side : n = child[t][w]
          BY <4>1, <3>1, <1>1, ParentFacts
        <4> QED
          BY <4>1, <3>1
      <3> QED
        BY <2>1, <3>1, <3>2, <1>2, <1>7
    <2>2. BeingFixed(w)'
      BY <1>1, <1>4 DEF BeingFixed
    <2> QED
      BY <2>1, <2>2 DEF RedsApart
  <1>9. InsertFixupOK' /\ DeleteFixupOK'
    BY <1>1, <1>3 DEF InsertFixupOK, DeleteFixupOK
  <1>10. \E hh : Heights(hh)'
    <2>1. h[p] \in Nat /\ h[p] # 0 /\ h[p] = (IF x = Nil THEN 1 ELSE 2 + h[x]) /\ h[p] = Weight(h, w)
      <3>1. h[p] \in Nat
        BY <1>1, <1>5
      <3>2. h[p] = (IF x = Nil THEN 1 ELSE 2 + h[x]) /\ (x # Nil => h[x] \in Nat)
        BY DEF MissingBlack
      <3>3. h[p] = Weight(h, w)
        BY DEF MissingBlack
      <3>4. h[p] # 0
        BY <3>2
      <3> QED
        BY <3>1, <3>2, <3>3, <3>4
    <2>2. PICK hh : hh = [h EXCEPT ![p] = h[p] - 1]
      OBVIOUS
    <2>3. /\ hh \in [Node -> Nat] /\ hh[p] = h[p] - 1
          /\ \A n \in Node : n # p => hh[n] = h[n]
      BY <2>1, <2>2, <1>1, <1>5
    <2>4. Weight(h, w) = 1 + h[w] /\ Weight(hh, w)' = h[w] /\ h[w] \in Nat
      BY <2>3, <1>1, <1>2, <1>4, <1>5 DEF Weight, Count
    <2>5. x # Nil => Weight(hh, x)' = 1 + h[x] /\ h[x] \in Nat
      <3> SUFFICES ASSUME x # Nil PROVE Weight(hh, x)' = 1 + h[x] /\ h[x] \in Nat
        OBVIOUS
      <3>1. x \in Node /\ color'[x] = "BLACK" /\ hh[x] = h[x] /\ h[x] \in Nat
        BY <2>3, <1>1, <1>2, <1>5 DEF MissingBlack
      <3> QED
        BY <3>1, <1>1, <1>4 DEF Weight, Count
    <2>6. Weight(hh, p)' = Weight(h, p)
      <3>1. color'[p] = color[p]
        BY <1>1, <1>2
      <3> QED
        BY <3>1, <2>1, <2>3, <1>1, <1>4 DEF Weight, Count
    <2>7. \A c \in Node : c # w /\ c # p /\ c # x => Weight(hh, c)' = Weight(h, c)
      <3> TAKE c \in Node
      <3> HAVE c # w /\ c # p /\ c # x
      <3>1. color'[c] = color[c] /\ hh[c] = h[c]
        BY <2>3, <1>2
      <3> QED
        BY <3>1, <1>4 DEF Weight, Count
    <2>8. ASSUME NEW n \in nodes, NEW t \in Side PROVE BlackOn(hh, t, n)' = hh[n]
      <3>1. PICK c : c = child[t][n]
        OBVIOUS
      <3>2. c = Nil => BlackOn(hh, t, n)' = 0
        BY <3>1, <1>6 DEF BlackOn, Count
      <3>3. c # Nil => BlackOn(hh, t, n)' = Weight(hh, c)'
        BY <3>1, OtherBranch
      <3>4. CASE n = p
        <4>1. CASE t = s
          BY <3>1, <3>2, <3>3, <3>4, <4>1, <2>1, <2>3, <2>5, <1>1
        <4>2. CASE t = o
          BY <3>1, <3>3, <3>4, <4>2, <2>1, <2>3, <2>4, <1>1
        <4> QED
          BY <4>1, <4>2, <1>1
      <3>5. CASE n # p
        <4>1. BlackOn(h, t, n) = h[n] /\ hh[n] = h[n]
          BY <3>5, <2>3, <1>1, <1>5
        <4>2. CASE c = Nil
          <5>1. BlackOn(h, t, n) = 0
            BY <3>1, <3>5, <4>2, <1>6 DEF BlackOn, Count
          <5> QED
            BY <3>2, <4>1, <4>2, <5>1
        <4>3. CASE c # Nil
          <5>1. c \in nodes /\ parent[c] = n
            BY <3>1, <4>3, <1>1 DEF Coherent
          <5>2. BlackOn(h, t, n) = Weight(h, c)
            BY <3>1, <4>3 DEF BlackOn
          <5> QED
            BY <3>3, <3>5, <4>1, <4>3, <5>1, <5>2, <2>6, <2>7, <1>1
        <4> QED
          BY <4>2, <4>3
      <3> QED
        BY <3>4, <3>5
    <2> QED
      BY <2>3, <2>8 DEF Heights
  <1>11. \A n \in Node \ nodes : color'[n] = "BLACK"
    BY <1>1, <1>2 DEF Inv, Fields
  <1> QED
    BY <1>2, <1>3, <1>8, <1>9, <1>10, <1>11, Recolored

(* The sibling's near child is red: it rises, and becomes the sibling. *)
LEMMA NearRed ==
    ASSUME Inv, NEW x, NEW p, NEW s, NEW w, NEW h, NEW b, Ordered(b), Heights(h),
           MissingBlack(x, p, s, w, h), op.pc = "delete_fixup",
           NEW i, i = child[s][w],
           color[w] = "BLACK", color[i] = "RED", color[child[Opposite[s]][w]] = "BLACK",
           Painted({i}, {w}), Rotate(w, Opposite[s]), UNCHANGED <<op, nodes, item>>
    PROVE  Inv'
  <1> DEFINE o == Opposite[s]
  <1>1. /\ x \in nodes \cup {Nil} /\ p \in nodes /\ s \in Side /\ o \in Side /\ w \in nodes
        /\ o # s /\ Opposite[o] = s /\ \A t \in Side : t = s \/ t = o
        /\ TypeOK /\ Coherent /\ nodes \subseteq Node /\ Nil \notin nodes /\ Nil \in Node
        /\ x # p /\ x # w /\ w # p /\ x # root /\ w # root /\ root \in nodes
        /\ child[s][p] = x /\ child[o][p] = w /\ parent[w] = p /\ parent[x] = p /\ SideOf(w) = o
        /\ \A t \in Side : child[t][w] # Nil =>
                 /\ child[t][w] \in nodes /\ child[t][w] # w /\ child[t][w] # root
                 /\ parent[child[t][w]] = w /\ child[t][w] # p /\ child[t][w] # x
    BY MissingBlackNames
  <1>2. i \in nodes /\ i # Nil /\ parent[i] = w /\ i # w /\ i # p /\ i # x /\ i # root
    <2>1. i # Nil
      BY <1>1 DEF Inv, Fields
    <2> QED
      BY <2>1, <1>1
  <1>3. PICK q, j : Turned(w, o, q, i, j)
    BY <1>1, <1>2, RotateTurns
  <1>4. /\ nodes' = nodes /\ color' \in [Node -> {"RED", "BLACK"}]
        /\ color'[i] = "BLACK" /\ color'[w] = "RED"
        /\ \A n \in Node : n # w /\ n # i => color'[n] = color[n]
    BY <1>1, <1>2 DEF Painted
  <1>5. op' = op /\ op' \in Op
    BY <1>1 DEF TypeOK
  <1>6. \A n : (Short(n) <=> n = x) /\ (Short(n)' <=> n = x)
    BY ZenonT(20), <1>5 DEF MissingBlack, Short
  <1>7. h \in [Node -> Nat] /\ \A n \in nodes : \A t \in Side : BlackOn(h, t, n) = h[n]
    BY DEF Heights
  <1>8. /\ \A t, n : Hole(t, n) <=> x = Nil /\ n = p /\ t = s
        /\ \A n \in nodes : color[n] = "RED" => n # root /\ color[parent[n]] # "RED"
    BY DEF MissingBlack
  <1>9. /\ q = p /\ root' = root /\ j = child[o][i]
        /\ parent'[w] = i /\ parent'[i] = p
        /\ \A n \in Node : n # w /\ n # i /\ (n = Nil \/ n # j) => parent'[n] = parent[n]
        /\ j # Nil => j \in nodes /\ parent[j] = i /\ j # w /\ j # i /\ parent'[j] = w
        /\ child'[o][p] = i /\ child'[s][p] = x
        /\ child'[o][i] = w /\ child'[s][i] = child[s][i]
        /\ child'[s][w] = j /\ child'[o][w] = child[o][w]
    BY ZenonT(20), <1>1, <1>2, <1>3 DEF Turned
  <1>10. RedsApart'
    <2>1. ASSUME NEW n \in nodes, color'[n] = "RED", n = root' \/ color'[parent'[n]] = "RED"
          PROVE  FALSE
      <3>1. n # i /\ n # w /\ n \in Node /\ parent[n] \in Node
        BY <2>1, <1>1, <1>2, <1>4, <1>9, NodeFacts
      <3>2. color[n] = "RED" /\ n # root /\ color[parent[n]] # "RED"
        BY <2>1, <3>1, <1>4, <1>8
      <3>3. n # j
        <4>1. n # Nil
          BY <1>1
        <4> SUFFICES ASSUME n = j PROVE FALSE
          OBVIOUS
        <4>2. parent[n] = i
          BY <4>1, <1>9
        <4> QED
          BY <4>2, <3>2
      <3>4. parent'[n] = parent[n] /\ color'[parent[n]] = "RED"
        <4>1. parent'[n] = parent[n]
          BY <3>1, <3>3, <1>9
        <4> QED
          BY <2>1, <3>2, <4>1, <1>9
      <3>5. parent[n] = w
        BY <3>1, <3>2, <3>4, <1>4
      <3>6. n = child[s][w] \/ n = child[o][w]
        BY <3>2, <3>5, <1>1, ParentFacts
      <3> QED
        BY <3>1, <3>2, <3>6
    <2> QED
      BY <2>1, <1>4 DEF RedsApart
  <1>11. x = Nil => parent'[Nil] = p /\ SideOf(Nil)' = s
    <2>1. x = Nil => parent'[Nil] = p
      BY <1>1, <1>2, <1>9
    <2> QED
      BY <2>1, <1>1, <1>2, <1>9, SideFacts DEF SideOf, Left
  <1>12. \A t, n : Hole(t, n)' <=> x = Nil /\ n = p /\ t = s
    BY <1>6, <1>11 DEF Hole
  <1>13. InsertFixupOK' /\ DeleteFixupOK'
    <2>1. op'.pc = "delete_fixup" /\ op'.x = x /\ nodes' = nodes
      BY <1>4, <1>5 DEF MissingBlack
    <2>2. x = Nil => parent'[Nil] = p /\ child'[SideOf(Nil)'][p] = Nil
      BY <1>1, <1>9, <1>11
    <2> QED
      BY <2>1, <2>2, <1>1 DEF InsertFixupOK, DeleteFixupOK
  <1>14. \A c \in Node : c # w /\ c # i => Weight(h, c)' = Weight(h, c)
    <2> TAKE c \in Node
    <2> HAVE c # w /\ c # i
    <2>1. color'[c] = color[c]
      BY <1>4
    <2> QED
      BY <2>1, <1>6 DEF Weight, Count
  <1>15. /\ Weight(h, w) = 1 + h[w] /\ Weight(h, i) = h[i]
         /\ Weight(h, w)' = h[w] /\ Weight(h, i)' = 1 + h[i]
    BY <1>1, <1>2, <1>4, <1>6, <1>7 DEF Weight, Count
  <1>16. h[i] = h[w]
    <2>1. BlackOn(h, s, w) = Weight(h, i)
      BY <1>2 DEF BlackOn
    <2> QED
      BY <2>1, <1>1, <1>7, <1>15
  <1>17. BlackOn(h, s, w)' = h[w] /\ BlackOn(h, o, w)' = h[w]
    <2>1. j # Nil => color'[j] = color[j]
      BY <1>1, <1>4, <1>9
    <2>2. /\ ~Hole(o, i) /\ ~Hole(s, w)' /\ child[o][i] = j /\ child'[s][w] = j
          /\ ~Hole(o, w) /\ ~Hole(o, w)'
      BY <1>1, <1>2, <1>8, <1>9, <1>12
    <2>3. BlackOn(h, s, w)' = BlackOn(h, o, i)
      BY <2>1, <2>2, <1>6, SameBranch
    <2>4. PICK c : c = child[o][w]
      OBVIOUS
    <2>5. c # Nil => color'[c] = color[c]
      BY <2>4, <1>1, <1>2, <1>4
    <2>6. child'[o][w] = c
      BY <2>4, <1>9
    <2>7. BlackOn(h, o, w)' = BlackOn(h, o, w)
      BY <2>2, <2>4, <2>5, <2>6, <1>6, SameBranch
    <2> QED
      BY <2>3, <2>7, <1>1, <1>2, <1>7, <1>16
  <1>18. BlackOn(h, o, i)' = h[i] /\ BlackOn(h, s, i)' = h[i]
    <2>1. BlackOn(h, o, i)' = Weight(h, w)'
      BY <1>1, <1>9, OtherBranch
    <2>2. PICK c : c = child[s][i]
      OBVIOUS
    <2>3. c # Nil => c \in nodes /\ parent[c] = i
      BY <2>2, <1>1, <1>2 DEF Coherent
    <2>4. c # Nil => color'[c] = color[c]
      BY <2>3, <1>1, <1>2, <1>4
    <2>5. ~Hole(s, i) /\ ~Hole(s, i)' /\ child'[s][i] = c
      BY <2>2, <1>1, <1>2, <1>8, <1>9, <1>12
    <2>6. BlackOn(h, s, i)' = BlackOn(h, s, i)
      BY <2>2, <2>4, <2>5, <1>6, SameBranch
    <2> QED
      BY <2>1, <2>6, <1>1, <1>2, <1>7, <1>15, <1>16
  <1>19. Heights(h)'
    <2>1. Weight(h, i)' = Weight(h, w)
      BY <1>15, <1>16
    <2>2. \A t \in Side : BlackOn(h, t, w)' = h[w] /\ BlackOn(h, t, i)' = h[i]
      BY <1>1, <1>17, <1>18
    <2>3. \A n \in nodes : \A t \in Side : n # w /\ n # i => (Hole(t, n)' <=> Hole(t, n))
      BY <1>8, <1>12
    <2> QED
      BY <2>1, <2>2, <2>3, <1>1, <1>3, <1>7, <1>14, RotateKeepsHeights
  <1>20. \A n \in Node \ nodes : color'[n] = "BLACK"
    BY <1>1, <1>2, <1>4 DEF Inv, Fields
  <1>21. child[Opposite[o]][w] # Nil
    BY <1>1, <1>2
  <1> QED
    BY <1>1, <1>4, <1>5, <1>10, <1>13, <1>19, <1>20, <1>21, Rotated

(* The sibling's far child is red: a rotation ends it. *)
LEMMA FarRed ==
    ASSUME Inv, NEW x, NEW p, NEW s, NEW w, NEW h, NEW b, Ordered(b), Heights(h),
           MissingBlack(x, p, s, w, h), op.pc = "delete_fixup",
           NEW far, far = child[Opposite[s]][w],
           color[w] = "BLACK", color[far] = "RED",
           color' \in [Node -> {"RED", "BLACK"}],
           color'[w] = color[p], color'[p] = "BLACK", color'[far] = "BLACK",
           \A n \in Node : n # w /\ n # p /\ n # far => color'[n] = color[n],
           Rotate(p, s), op' = [op EXCEPT !.x = root'], UNCHANGED <<nodes, item>>
    PROVE  Inv'
  <1> DEFINE o == Opposite[s]
  <1>1. /\ x \in nodes \cup {Nil} /\ p \in nodes /\ s \in Side /\ o \in Side /\ w \in nodes
        /\ o # s /\ Opposite[o] = s /\ \A t \in Side : t = s \/ t = o
        /\ TypeOK /\ Coherent /\ nodes \subseteq Node /\ Nil \notin nodes /\ Nil \in Node
        /\ x # p /\ x # w /\ w # p /\ x # root /\ w # root /\ root \in nodes
        /\ child[s][p] = x /\ child[o][p] = w /\ parent[w] = p /\ parent[x] = p
        /\ \A t \in Side : child[t][w] # Nil =>
                 /\ child[t][w] \in nodes /\ child[t][w] # w /\ child[t][w] # root
                 /\ parent[child[t][w]] = w /\ child[t][w] # p /\ child[t][w] # x
        /\ \A n \in nodes : parent[n] = p => n = x \/ n = w
    BY MissingBlackNames
  <1>2. far \in nodes /\ parent[far] = w /\ far # w /\ far # p /\ far # x /\ far # root
    <2>1. far # Nil
      BY <1>1 DEF Inv, Fields
    <2> QED
      BY <2>1, <1>1
  <1>3. PICK q, i : Turned(p, s, q, w, i)
    BY <1>1, RotateTurns
  <1>4. nodes' = nodes
    OBVIOUS
  <1>5. /\ i = child[s][w] /\ q = parent[p] /\ q # p /\ q # w
        /\ parent'[p] = w /\ parent'[w] = q
        /\ i # Nil => i \in nodes /\ parent[i] = w /\ parent'[i] = p
        /\ \A n \in Node : n # p /\ n # w /\ (n = Nil \/ n # i) => parent'[n] = parent[n]
        /\ q = Nil => p = root /\ root' = w
        /\ q # Nil => q \in nodes /\ p # root /\ root' = root
        /\ child'[s][p] = x /\ child'[o][p] = i /\ child'[s][w] = p /\ child'[o][w] = far
    BY <1>1, <1>2, <1>3 DEF Turned
  <1>6. root' \in nodes /\ root' # Nil /\ root' # x /\ root' # p /\ root' # far
    BY <1>1, <1>2, <1>5
  <1>7. i # Nil => i # w /\ i # p /\ i # x /\ i # root /\ i # root' /\ i # far
    <2> SUFFICES ASSUME i # Nil PROVE i # w /\ i # p /\ i # x /\ i # root /\ i # root' /\ i # far
      OBVIOUS
    <2>1. i # w /\ i # p /\ i # x /\ i # root
      BY <1>1, <1>5
    <2>2. child[Opposite[s]][w] # i
      BY <1>1, <1>5, ChildFacts
    <2> QED
      BY <2>1, <2>2, <1>5
  <1>8. op' \in Op /\ op'.pc = "delete_fixup" /\ op'.x = root'
    BY <1>1, <1>6 DEF TypeOK, Op
  <1>9. \A n : (Short(n) <=> n = x) /\ (Short(n)' <=> n = root')
    BY ZenonT(20), <1>8 DEF MissingBlack, Short
  <1>10. h \in [Node -> Nat] /\ \A n \in nodes : \A t \in Side : BlackOn(h, t, n) = h[n]
    BY DEF Heights
  <1>11. /\ \A t, n : Hole(t, n) <=> x = Nil /\ n = p /\ t = s
         /\ \A t, n : ~Hole(t, n)'
    BY ZenonT(20), <1>6, <1>9 DEF MissingBlack, Hole
  <1>12. \A n \in nodes : color[n] = "RED" => n # root /\ color[parent[n]] # "RED"
    BY DEF MissingBlack
  <1>13. RedsApart'
    <2>1. ASSUME NEW n \in nodes, n # root', parent'[n] # root',
                 color'[n] = "RED", color'[parent'[n]] = "RED"
          PROVE  FALSE
      <3>1. n # p /\ n # far /\ n # i /\ n \in Node /\ n # Nil /\ parent[n] \in Node
        BY <2>1, <1>1, <1>5, NodeFacts
      <3>2. CASE n = w
        <4>1. color[p] = "RED" /\ color'[q] = "RED" /\ q # Nil /\ q \in Node
          BY <2>1, <3>2, <1>1, <1>5
        <4>2. q # far
          BY <4>1
        <4>3. color[q] = "RED"
          BY <4>1, <4>2, <1>5
        <4> QED
          BY <4>1, <4>3, <1>1, <1>5, <1>12
      <3>3. CASE n # w
        <4>1. color[n] = "RED" /\ parent'[n] = parent[n] /\ color'[parent[n]] = "RED"
          BY <2>1, <3>1, <3>3, <1>5
        <4>2. parent[n] # w
          <5>1. ASSUME parent[n] = w PROVE \E t \in Side : n = child[t][w]
            BY <5>1, <3>1, <1>1, ParentFacts
          <5> QED
            BY <5>1, <3>1, <1>1, <1>5
        <4>3. parent[n] # p /\ parent[n] # far
          BY <4>1
        <4>4. color[parent[n]] = "RED"
          BY <3>1, <4>1, <4>2, <4>3
        <4> QED
          BY <4>1, <4>4, <1>12
      <3> QED
        BY <3>2, <3>3
    <2>2. ASSUME NEW n \in nodes, n = root' \/ parent'[n] = root' PROVE BeingFixed(n)'
      BY <2>2, <1>9 DEF BeingFixed, Short
    <2> QED
      BY <2>1, <2>2, <1>4 DEF RedsApart
  <1>14. InsertFixupOK' /\ DeleteFixupOK'
    BY <1>4, <1>6, <1>8 DEF InsertFixupOK, DeleteFixupOK
  <1>15. PICK hh : hh = [h EXCEPT ![w] = h[p], ![p] = h[p] - 1]
    OBVIOUS
  <1>16. /\ h[p] = 1 + h[w] /\ h[w] \in Nat
         /\ h[p] = (IF x = Nil THEN 1 ELSE 2 + h[x]) /\ (x # Nil => h[x] \in Nat)
    <2>1. Weight(h, w) = 1 + h[w] /\ h[w] \in Nat
      BY <1>1, <1>9, <1>10 DEF Weight, Count
    <2>2. h[p] = Weight(h, w) /\ h[p] = (IF x = Nil THEN 1 ELSE 2 + h[x]) /\ (x # Nil => h[x] \in Nat)
      BY DEF MissingBlack
    <2> QED
      BY <2>1, <2>2
  <1>17. /\ hh \in [Node -> Nat] /\ hh[w] = h[p] /\ hh[p] = h[w]
         /\ \A n \in Node : n # w /\ n # p => hh[n] = h[n]
    BY <1>1, <1>10, <1>15, <1>16
  <1>18. h[far] = h[w]
    <2>1. BlackOn(h, o, w) = Weight(h, far)
      BY <1>1, <1>2 DEF BlackOn
    <2>2. Weight(h, far) = h[far] /\ h[far] \in Nat
      BY <1>1, <1>2, <1>9, <1>10 DEF Weight, Count
    <2> QED
      BY <2>1, <2>2, <1>1, <1>10
  <1>19. /\ Weight(hh, p)' = 1 + h[w] /\ Weight(hh, far)' = 1 + h[far]
         /\ x # Nil => Weight(hh, x)' = 1 + h[x]
    <2>1. hh[far] = h[far] /\ h[far] \in Nat
      BY <1>1, <1>2, <1>10, <1>17
    <2>2. Weight(hh, p)' = 1 + h[w] /\ Weight(hh, far)' = 1 + h[far]
      BY <2>1, <1>6, <1>9, <1>16, <1>17 DEF Weight, Count
    <2>3. ASSUME x # Nil PROVE Weight(hh, x)' = 1 + h[x]
      <3>1. hh[x] = h[x] /\ color'[x] = "BLACK"
        BY <2>3, <1>1, <1>2, <1>17 DEF MissingBlack
      <3> QED
        BY <2>3, <3>1, <1>6, <1>9, <1>16 DEF Weight, Count
    <2> QED
      BY <2>2, <2>3
  <1>20. BlackOn(hh, s, p)' = hh[p] /\ BlackOn(hh, o, p)' = hh[p]
    <2>1. CASE x = Nil
      <3>1. BlackOn(hh, s, p)' = 0
        BY <2>1, <1>5, <1>11 DEF BlackOn, Count
      <3> QED
        <4>1. BlackOn(hh, o, p)' = BlackOn(h, s, w)
          <5>1. i # Nil => color'[i] = color[i] /\ hh[i] = h[i] /\ (Short(i)' <=> Short(i))
            BY <1>1, <1>5, <1>7, <1>9, <1>17
          <5>2. child'[o][p] = i /\ child[s][w] = i /\ ~Hole(o, p)' /\ ~Hole(s, w)
            BY <1>1, <1>5, <1>11
          <5> QED
            BY <5>1, <5>2, SameBranch
        <4> QED
          BY <2>1, <3>1, <4>1, <1>1, <1>10, <1>16, <1>17
    <2>2. CASE x # Nil
      <3>1. BlackOn(hh, s, p)' = Weight(hh, x)'
        BY <2>2, <1>5, OtherBranch
      <3>2. BlackOn(hh, o, p)' = BlackOn(h, s, w)
        <4>1. i # Nil => color'[i] = color[i] /\ hh[i] = h[i] /\ (Short(i)' <=> Short(i))
          BY <1>1, <1>5, <1>7, <1>9, <1>17
        <4>2. child'[o][p] = i /\ child[s][w] = i /\ ~Hole(o, p)' /\ ~Hole(s, w)
          BY <1>1, <1>5, <1>11
        <4> QED
          BY <4>1, <4>2, SameBranch
      <3> QED
        BY <2>2, <3>1, <3>2, <1>1, <1>10, <1>16, <1>17, <1>19
    <2> QED
      BY <2>1, <2>2
  <1>21. BlackOn(hh, s, w)' = hh[w] /\ BlackOn(hh, o, w)' = hh[w]
    <2>1. BlackOn(hh, s, w)' = Weight(hh, p)'
      BY <1>1, <1>5, OtherBranch
    <2>2. BlackOn(hh, o, w)' = Weight(hh, far)'
      BY <1>1, <1>2, <1>5, OtherBranch
    <2> QED
      BY <2>1, <2>2, <1>16, <1>17, <1>18, <1>19
  <1>22. q # Nil => Weight(hh, w)' = Weight(h, p)
    <2> SUFFICES ASSUME q # Nil PROVE Weight(hh, w)' = Weight(h, p)
      OBVIOUS
    <2>1. ~Short(w)' /\ ~Short(p)
      BY <1>1, <1>5, <1>9
    <2> QED
      BY <2>1, <1>17 DEF Weight, Count
  <1>23. ASSUME NEW c \in nodes, c # root, c # p, c # w, parent[c] # p, parent[c] # w
         PROVE  Weight(hh, c)' = Weight(h, c)
    <2>1. c # x /\ c # far /\ c # root' /\ c \in Node
      BY <1>23, <1>1, <1>2, <1>5
    <2>2. color'[c] = color[c] /\ hh[c] = h[c]
      BY <1>23, <2>1, <1>17
    <2> QED
      BY <2>1, <2>2, <1>9 DEF Weight, Count
  <1>24. Heights(hh)'
    <2>1. \A n \in nodes : n # p /\ n # w => hh[n] = h[n]
      BY <1>1, <1>17
    <2>2. \A t \in Side : BlackOn(hh, t, p)' = hh[p] /\ BlackOn(hh, t, w)' = hh[w]
      BY <1>1, <1>20, <1>21
    <2>3. \A n \in nodes : \A t \in Side : n # p /\ n # w => (Hole(t, n)' <=> Hole(t, n))
      BY <1>11
    <2>4. hh \in [Node -> Nat]
      BY <1>17
    <2> QED
      BY <2>1, <2>2, <2>3, <2>4, <1>1, <1>3, <1>22, <1>23, RotateKeepsHeights
  <1>25. \A n \in Node \ nodes : color'[n] = "BLACK"
    BY <1>1, <1>2 DEF Inv, Fields
  <1> QED
    BY <1>1, <1>8, <1>13, <1>14, <1>24, <1>25, Rotated

(* The missing black has come to the root, or to a red node. *)
LEMMA DeleteFixupEndsKeeps ==
    ASSUME Inv, DeleteFixupEnds
    PROVE  Inv'
  <1>1. PICK x : x = op.x
    OBVIOUS
  <1>2. /\ op.pc = "delete_fixup" /\ (x = root \/ color[x] = "RED") /\ op' = Idle
        /\ UNCHANGED <<nodes, root, child, parent, item>>
        /\ color' = [color EXCEPT ![x] = "BLACK"]
    BY <1>1 DEF DeleteFixupEnds
  <1>3. x \in nodes \cup {Nil} /\ TypeOK /\ Coherent /\ nodes \subseteq Node /\ Nil \in Node
    BY <1>1, <1>2, SideFacts, NodeFacts DEF Inv, DeleteFixupOK
  <1>4. Painted({x}, {})
    BY <1>2, <1>3 DEF Painted, TypeOK
  <1>5. /\ color' \in [Node -> {"RED", "BLACK"}] /\ color'[x] = "BLACK"
        /\ \A n \in Node : n # x => color'[n] = color[n]
    BY <1>3, <1>4 DEF Painted
  <1>6. op' \in Op /\ op'.pc = "idle"
    BY <1>2, <1>3 DEF Op, Idle
  <1>7. x = Nil => nodes = {}
    <2>1. ASSUME x = Nil PROVE root = Nil
      <3>1. color[Nil] = "BLACK"
        BY <1>3, NodeFacts DEF Inv, Fields
      <3> QED
        BY <2>1, <3>1, <1>2
    <2> QED
      BY <2>1, <1>3 DEF Coherent
  <1>8. \A n : (Short(n) <=> n = x) /\ ~Short(n)'
    BY <1>1, <1>2, <1>6 DEF Short
  <1>9. RedsApart'
    <2>1. ASSUME NEW n \in nodes, color'[n] = "RED", n = root \/ color'[parent[n]] = "RED"
          PROVE  FALSE
      <3>1. n # x /\ color[n] = "RED" /\ n \in Node /\ parent[n] \in Node
        BY <2>1, <1>3, <1>5, NodeFacts
      <3>2. n = root \/ (color[parent[n]] = "RED" /\ parent[n] # x)
        BY <2>1, <3>1, <1>5
      <3>3. BeingFixed(n)
        BY <3>1, <3>2 DEF Inv, RedsApart
      <3>4. n # root /\ parent[n] = x
        BY <3>1, <3>3, <1>2, <1>8 DEF BeingFixed
      <3> QED
        BY <3>2, <3>4
    <2> QED
      BY <2>1, <1>2 DEF RedsApart
  <1>10. PICK h : Heights(h)
    BY DEF Inv
  <1>11. Heights(h)'
    <2>1. ASSUME NEW n \in nodes, NEW t \in Side PROVE BlackOn(h, t, n)' = BlackOn(h, t, n)
      <3>1. PICK c : c = child[t][n]
        OBVIOUS
      <3>2. c # Nil => c \in nodes
        BY <3>1, <1>3 DEF Coherent
      <3>3. CASE c # x
        <4>1. c # Nil => color'[c] = color[c] /\ (Short(c)' <=> Short(c))
          BY <3>2, <3>3, <1>3, <1>5, <1>8
        <4>2. ~Hole(t, n) /\ ~Hole(t, n)'
          BY <1>3, <1>7, <1>8 DEF Hole
        <4>3. child'[t][n] = c
          BY <3>1, <1>2
        <4> QED
          BY <3>1, <4>1, <4>2, <4>3, SameBranch
      <3>4. CASE c = x
        <4>1. x # Nil /\ color[x] = "RED"
          <5>1. x # Nil
            BY <1>7
          <5>2. c # root
            <6>1. parent[c] = n /\ n # Nil
              <7>1. n # Nil
                BY <1>3, NodeFacts
              <7>2. child[t][n] # Nil
                BY <3>1, <3>4, <5>1
              <7>3. parent[child[t][n]] = n
                BY <7>2, <1>3 DEF Coherent
              <7> QED
                BY <7>1, <7>3, <3>1
            <6>2. c = root => parent[c] = Nil
              BY <3>4, <5>1, <1>3 DEF Coherent
            <6> QED
              BY <6>1, <6>2
          <5> QED
            BY <3>4, <5>1, <5>2, <1>2
        <4>2. Weight(h, x)' = Weight(h, x)
          BY <4>1, <1>5, <1>8 DEF Weight, Count
        <4>3. child'[t][n] = x
          BY <3>1, <3>4, <1>2
        <4>4. BlackOn(h, t, n)' = Weight(h, x)'
          BY <4>1, <4>3, OtherBranch
        <4>5. BlackOn(h, t, n) = Weight(h, x)
          BY <3>1, <3>4, <4>1 DEF BlackOn
        <4> QED
          BY <4>2, <4>4, <4>5
      <3> QED
        BY <3>3, <3>4
    <2>2. nodes' = nodes
      BY <1>2
    <2> QED
      BY <2>1, <2>2, <1>10 DEF Heights
  <1>12. InsertFixupOK' /\ DeleteFixupOK'
    BY <1>6 DEF InsertFixupOK, DeleteFixupOK
  <1>13. \A n \in Node \ nodes : color'[n] = "BLACK"
    BY <1>3, <1>5 DEF Inv, Fields
  <1>14. UNCHANGED <<nodes, root, child, parent, item>>
    BY <1>2
  <1> QED
    BY <1>5, <1>6, <1>9, <1>11, <1>12, <1>13, <1>14, Recolored

(* rbtree_delete_fixup, by its four cases *)
LEMMA DeleteFixupKeeps ==
    ASSUME Inv, DeleteFixup
    PROVE  Inv'
  <1>1. PICK x, p, s, o, w, i, f :
           /\ x = op.x /\ p = parent[x] /\ s = SideOf(x) /\ o = Opposite[s]
           /\ w = child[o][p] /\ i = child[s][w] /\ f = child[o][w]
    OBVIOUS
  <1>2. op.pc = "delete_fixup" /\ x # root /\ color[x] = "BLACK" /\ UNCHANGED <<nodes, item>>
    BY <1>1 DEF DeleteFixup
  <1>3. PICK b, h : Ordered(b) /\ Heights(h)
    BY DEF Inv
  <1>4. MissingBlack(x, p, s, w, h)
    BY <1>1, <1>2, <1>3, MissingBlackFacts
  <1>5. /\ x \in Node /\ p \in Node /\ w \in Node /\ i \in Node /\ f \in Node
        /\ s \in Side /\ o \in Side /\ \A t \in Side : t = s \/ t = o
        /\ x # p /\ x # w /\ w # p /\ (f # Nil => f # w /\ f # p)
        /\ color \in [Node -> {"RED", "BLACK"}] /\ color[Nil] = "BLACK"
    <2>1. /\ p \in nodes /\ w \in nodes /\ x \in nodes \cup {Nil} /\ nodes \subseteq Node
          /\ Nil \notin nodes /\ Nil \in Node /\ o \in Side /\ s \in Side
          /\ \A t \in Side : t = s \/ t = o
          /\ x # p /\ x # w /\ w # p /\ (f # Nil => f # w /\ f # p)
      BY SMTT(20), <1>1, <1>3, <1>4, MissingBlackNames
    <2>2. i \in Node /\ f \in Node
      BY <2>1, <1>1, NodeFacts DEF Inv
    <2> QED
      BY <2>1, <2>2 DEF Inv, Fields, TypeOK
  <1>6. ASSUME color[w] = "RED", color' = [color EXCEPT ![w] = "BLACK", ![p] = "RED"],
               Rotate(p, s), UNCHANGED op
        PROVE  Inv'
    <2>1. Painted({w}, {p})
      BY <1>5, <1>6 DEF Painted
    <2> QED
      BY <1>2, <1>3, <1>4, <1>6, <2>1, SiblingRed
  <1>7. ASSUME color[w] = "BLACK", color[i] = "BLACK", color[f] = "BLACK",
               color' = [color EXCEPT ![w] = "RED"], op' = [op EXCEPT !.x = p],
               UNCHANGED <<root, child, parent>>
        PROVE  Inv'
    <2>1. Painted({}, {w})
      BY <1>5, <1>7 DEF Painted
    <2>2. \A t \in Side : color[child[t][w]] = "BLACK"
      BY <1>1, <1>5, <1>7
    <2>3. UNCHANGED <<nodes, root, child, parent, item>>
      BY <1>2, <1>7
    <2>4. color[w] = "BLACK" /\ op' = [op EXCEPT !.x = p]
      BY <1>7
    <2> QED
      BY <1>2, <1>3, <1>4, <2>1, <2>2, <2>3, <2>4, SiblingPainted
  <1>8. ASSUME color[w] = "BLACK", color[i] = "RED", color[f] = "BLACK",
               color' = [color EXCEPT ![i] = "BLACK", ![w] = "RED"],
               Rotate(w, o), UNCHANGED op
        PROVE  Inv'
    <2>1. Painted({i}, {w})
      BY <1>5, <1>8 DEF Painted
    <2>2. color[w] = "BLACK" /\ color[i] = "RED" /\ color[child[Opposite[s]][w]] = "BLACK"
      BY <1>1, <1>8
    <2>3. Rotate(w, Opposite[s]) /\ UNCHANGED <<op, nodes, item>>
      BY <1>1, <1>2, <1>8
    <2>4. i = child[s][w]
      BY <1>1
    <2> QED
      BY <1>2, <1>3, <1>4, <2>1, <2>2, <2>3, <2>4, NearRed
  <1>9. ASSUME color[w] = "BLACK", color[f] = "RED",
               color' = [color EXCEPT ![w] = color[p], ![p] = "BLACK", ![f] = "BLACK"],
               Rotate(p, s), op' = [op EXCEPT !.x = root']
        PROVE  Inv'
    <2>1. f # Nil
      BY <1>5, <1>9
    <2>2. /\ color' \in [Node -> {"RED", "BLACK"}] /\ color'[w] = color[p]
          /\ color'[p] = "BLACK" /\ color'[f] = "BLACK"
          /\ \A n \in Node : n # w /\ n # p /\ n # f => color'[n] = color[n]
      BY <2>1, <1>5, <1>9
    <2>3. color[w] = "BLACK" /\ color[f] = "RED" /\ f = child[Opposite[s]][w]
      BY <1>1, <1>9
    <2>4. Rotate(p, s) /\ op' = [op EXCEPT !.x = root'] /\ UNCHANGED <<nodes, item>>
      BY <1>2, <1>9
    <2> QED
      BY <1>2, <1>3, <1>4, <2>2, <2>3, <2>4, FarRed
  <1> QED
    BY <1>1, <1>6, <1>7, <1>8, <1>9, Zenon DEF DeleteFixup

-----------------------------------------------------------------------------
(* rbtree_delete takes y out: x is its only child, or nil, and p its parent. *)

OnlyChild(b, z, y, x, p, q) ==
    /\ z \in nodes /\ y \in nodes /\ x \in nodes \cup {Nil} /\ p \in Node /\ q \in Side
    /\ p = parent[y] /\ q = SideOf(y) /\ x = IF Left(y) # Nil THEN Left(y) ELSE Right(y)
    /\ x # y /\ x # z /\ p # y /\ (x # Nil => x # p)
    /\ p = Nil <=> y = root
    /\ p # Nil => p \in nodes /\ child[q][p] = y
    /\ \E a \in Side : x = child[a][y] /\ child[Opposite[a]][y] = Nil
    /\ x # Nil => parent[x] = y /\ x # root
    /\ \A n \in nodes : parent[n] = y => n = x
    /\ \A n \in nodes : \A t \in Side : child[t][n] = y => n = p /\ t = q
    /\ b[x] = b[y] \ {y}
    /\ y # z => /\ \A n \in nodes : \A t \in Side : z \in b[child[t][n]] => y # n /\ Way(y, n) = t
                /\ \A t \in Side : \A m \in b[child[t][z]] : m # y => Way(m, y) = t

(* The node that is taken out, and what the order says of it *)
LEMMA OnlyChildFacts ==
    ASSUME Inv, NEW b, Ordered(b), SuccessorOK(b), op.pc = "successor", AtSuccessor
    PROVE  \E z, y, x, p, q : z = op.z /\ y = op.y /\ OnlyChild(b, z, y, x, p, q)
  <1>1. PICK z, y, x, p, q :
           /\ z = op.z /\ y = op.y /\ p = parent[y] /\ q = SideOf(y)
           /\ x = IF Left(y) # Nil THEN Left(y) ELSE Right(y)
    OBVIOUS
  <1>2. /\ TypeOK /\ Coherent /\ z \in nodes /\ y \in nodes
        /\ y = z => Left(z) = Nil \/ Right(z) = Nil
        /\ y # z => /\ Left(y) = Nil /\ y \in b[Right(z)]
                    /\ \A k \in b[Right(z)] : k \in b[y] \/ (k # y /\ Way(k, y) = "right")
    BY <1>1 DEF Inv, SuccessorOK, AtSuccessor
  <1>3. PICK a \in Side : /\ x = child[a][y] /\ child[Opposite[a]][y] = Nil
                          /\ y # z => child["left"][y] = Nil
    <2>1. CASE Left(y) # Nil
      BY <2>1, <1>1, <1>2, SideFacts DEF Left, Right
    <2>2. CASE Left(y) = Nil
      BY <2>2, <1>1, SideFacts DEF Left, Right
    <2> QED
      BY <2>1, <2>2
  <1>4. /\ x \in nodes \cup {Nil} /\ x # y
        /\ x # Nil => parent[x] = y /\ x # root /\ x \in b[y] /\ y \notin b[x]
    <2>1. y # Nil
      BY <1>2, NodeFacts
    <2> QED
      BY <2>1, <1>2, <1>3, ChildFacts
  <1>5. /\ p \in Node /\ q \in Side /\ p # y /\ (p = Nil <=> y = root)
        /\ p # Nil => p \in nodes /\ child[q][p] = y
        /\ \A n \in nodes : \A t \in Side : child[t][n] = y => n = p /\ t = q
    BY <1>1, <1>2, NodeFacts, ParentFacts
  <1>6. \A n \in nodes : parent[n] = y => n = x
    <2> SUFFICES ASSUME NEW n \in nodes, parent[n] = y PROVE n = x
      OBVIOUS
    <2>1. n # Nil /\ n # root /\ y # Nil
      BY <1>2, NodeFacts DEF Coherent
    <2>2. SideOf(n) \in Side /\ child[SideOf(n)][y] = n
      BY <2>1, <1>2, ParentFacts
    <2> QED
      BY <2>1, <2>2, <1>3, SideFacts
  <1>7. b[x] = b[y] \ {y}
    <2>1. b[y] \subseteq nodes /\ b[x] \subseteq nodes /\ y \notin b[x]
      <3>1. x \in Node /\ y \in Node
        BY <1>2, <1>4, NodeFacts, SideFacts
      <3> QED
        BY <3>1, <1>4 DEF Ordered
    <2>2. ASSUME NEW m \in nodes PROVE m \in b[y] <=> m = y \/ m \in b[x]
      <3>1. \A s \in Side : s = a \/ s = Opposite[a]
        BY SideFacts
      <3>2. b[child[Opposite[a]][y]] = {}
        BY <1>3 DEF Ordered
      <3>3. m \in b[y] <=> m = y \/ \E s \in Side : m \in b[child[s][y]]
        BY <1>2 DEF Ordered
      <3> QED
        BY <3>1, <3>2, <3>3, <1>3
    <2> QED
      BY <2>1, <2>2
  <1>8. y # z => /\ Right(z) \in nodes /\ z \notin b[Right(z)] /\ y \in b[z]
                 /\ b[y] \subseteq b[Right(z)] /\ b[Right(z)] \subseteq nodes
    <2> SUFFICES ASSUME y # z
                 PROVE  /\ Right(z) \in nodes /\ z \notin b[Right(z)] /\ y \in b[z]
                        /\ b[y] \subseteq b[Right(z)] /\ b[Right(z)] \subseteq nodes
      OBVIOUS
    <2>1. PICK r : r = child["right"][z] /\ r = Right(z)
      BY DEF Right
    <2>2. r # Nil
      BY <2>1, <1>2 DEF Ordered
    <2>3. r \in nodes /\ z \notin b[r] /\ b[r] \subseteq b[z] /\ y \in b[r]
      <3>1. PICK s \in Side : s = "right"
        BY SideFacts
      <3>2. r \in nodes /\ z \notin b[r] /\ b[r] \subseteq b[z]
        <4>1. r = child[s][z] /\ child[s][z] # Nil
          BY <3>1, <2>1, <2>2
        <4>2. TypeOK /\ Coherent /\ z \in nodes
          BY <1>2
        <4> QED
          BY <4>1, <4>2, ChildFacts
      <3> QED
        BY <3>2, <2>1, <1>2
    <2>4. b[y] \subseteq b[r] /\ b[r] \subseteq nodes
      BY <2>3, NodeFacts, <1>2 DEF Ordered
    <2> QED
      BY <2>1, <2>3, <2>4
  <1>9. x # z
    <2>1. CASE y = z
      BY <2>1, <1>4
    <2>2. CASE y # z
      <3>1. x # Nil => x \in b[Right(z)]
        BY <2>2, <1>4, <1>8
      <3> QED
        BY <2>2, <3>1, <1>2, <1>8, NodeFacts
    <2> QED
      BY <2>1, <2>2
  <1>10. x # Nil => x # p
    <2>1. p # Nil => p \notin b[y]
      BY <1>2, <1>5, NodeFacts, ChildFacts
    <2> QED
      BY <2>1, <1>4
  <1>11. ASSUME y # z, NEW n \in nodes, NEW t \in Side, z \in b[child[t][n]]
         PROVE  y # n /\ Way(y, n) = t
    <2>1. PICK c : c = child[t][n]
      OBVIOUS
    <2>2. c # Nil /\ c \in nodes
      <3>1. c # Nil
        BY <2>1, <1>11 DEF Ordered
      <3> QED
        BY <2>1, <3>1, <1>2 DEF Coherent
    <2>3. b[z] \subseteq b[c]
      BY <2>1, <2>2, <1>11 DEF Ordered
    <2>4. y \in b[c]
      BY <2>3, <1>8, <1>11
    <2> QED
      BY <2>1, <2>4 DEF Ordered
  <1>12. ASSUME y # z, NEW t \in Side, NEW m \in b[child[t][z]], m # y
         PROVE  Way(m, y) = t
    <2>1. /\ m # z /\ Way(m, z) = t /\ m \in Keys /\ z \in Keys /\ y \in Keys
      <3>1. m \in nodes
        BY <1>2, <1>12, NodeFacts DEF Ordered
      <3> QED
        BY <3>1, <1>2, <1>12, NodeFacts DEF Ordered
    <2>2. y # z /\ Way(y, z) = "right"
      BY <1>2, <1>12, SideFacts DEF Ordered, Right
    <2>3. CASE t = "left"
      BY <2>1, <2>2, <2>3, WayFacts, SideFacts
    <2>4. CASE t = "right"
      <3>1. m \in b[Right(z)]
        BY <2>4, <1>12 DEF Right
      <3>2. CASE m \in b[y]
        <4>1. m \in nodes /\ \E s \in Side : m \in b[child[s][y]]
          BY <3>1, <3>2, <1>2, <1>8, <1>12 DEF Ordered
        <4>2. m \in b[child["right"][y]]
          BY <4>1, <1>3, <1>12, SideFacts DEF Ordered
        <4> QED
          BY <4>2, <2>4, <1>2, SideFacts DEF Ordered
      <3> QED
        BY <3>1, <3>2, <2>4, <1>2, <1>12
    <2> QED
      BY <2>3, <2>4, SideFacts
  <1> QED
    BY <1>1, <1>2, <1>3, <1>4, <1>5, <1>6, <1>7, <1>9, <1>10, <1>11, <1>12 DEF OnlyChild

(* What the tree is afterwards: new[n] is the name that node n has then. *)
Unlinked(new, z, y, x, p, q) ==
    /\ nodes' = nodes \ {z}
    /\ new[Nil] = Nil
    /\ \A n \in nodes \ {y} : new[n] \in nodes' /\ new[n] # Nil
    /\ \A n \in nodes : n # z => new[n] = n
    /\ y # z => new[z] = y
    /\ \A m \in nodes' : \E n \in nodes \ {y} : m = new[n]
    /\ \A m, n \in (nodes \ {y}) \cup {Nil} : new[m] = new[n] => m = n
    /\ root' = IF p = Nil THEN new[x] ELSE new[root]
    /\ p # Nil => child'[q][new[p]] = new[x]
    /\ \A n \in nodes \ {y} : \A t \in Side :
          n # p \/ t # q => child'[t][new[n]] = new[child[t][n]]
    /\ parent'[new[x]] = new[p]
    /\ \A n \in nodes \ {y} : n # x => parent'[new[n]] = new[parent[n]]
    /\ \A n \in (nodes \ {y}) \cup {Nil} : color'[new[n]] = color[n]
    /\ \A n \in Node \ nodes' :
          color'[n] = "BLACK" /\ item'[n] = NULL /\ \A s \in Side : child'[s][n] = Nil
    /\ \A n \in nodes' : item'[n] = item[n]
    /\ op' = IF color[y] = "BLACK"
             THEN [pc |-> "delete_fixup", x |-> x, y |-> Nil, z |-> Nil, val |-> NULL]
             ELSE [pc |-> "idle", x |-> Nil, y |-> Nil, z |-> Nil, val |-> NULL]

(* Which fields the removal writes, under the names of afterwards *)
LEMMA UnlinkWrites ==
    ASSUME Inv, Unlink, NEW b,
           LET y == op.y
               x == IF Left(y) # Nil THEN Left(y) ELSE Right(y)
           IN  OnlyChild(b, op.z, y, x, parent[y], SideOf(y))
    PROVE  LET y == op.y
               x == IF Left(y) # Nil THEN Left(y) ELSE Right(y)
           IN  TypeOK' /\ \E new : Unlinked(new, op.z, y, x, parent[y], SideOf(y))
  <1> DEFINE z == op.z
             y == op.y
             x == IF Left(y) # Nil THEN Left(y) ELSE Right(y)
             p == parent[y]
             q == SideOf(y)
             below == IF p = Nil THEN child ELSE [child EXCEPT ![q][p] = x]
             above == [parent EXCEPT ![x] = p]
             New(n) == IF n = z THEN y ELSE n
             Old(n) == IF n = y THEN z ELSE n
  <1>1. /\ nodes' = nodes \ {z}
        /\ root' = New(IF p = Nil THEN x ELSE root)
        /\ parent' = [n \in Node |-> IF n = z THEN Nil ELSE New(above[Old(n)])]
        /\ child' = [s \in Side |-> [n \in Node |-> IF n = z THEN Nil ELSE New(below[s][Old(n)])]]
        /\ color' = [n \in Node |-> IF n = z THEN "BLACK" ELSE color[Old(n)]]
        /\ item' = [item EXCEPT ![z] = NULL]
        /\ op' = IF color[y] = "BLACK"
                 THEN [Idle EXCEPT !.pc = "delete_fixup", !.x = x] ELSE Idle
    BY Zenon DEF Unlink, Above, Items
  <1>2. OnlyChild(b, z, y, x, p, q)
    OBVIOUS
  <1> HIDE DEF z, y, x, p, q
  <1>3. /\ z \in nodes /\ y \in nodes /\ x \in nodes \cup {Nil} /\ p \in Node /\ q \in Side
        /\ x # y /\ x # z /\ p # y /\ (x # Nil => x # p)
        /\ nodes \subseteq Node /\ nodes \subseteq Keys /\ Nil \notin nodes /\ Nil \in Node
        /\ root \in Node /\ (root # Nil => root \in nodes)
        /\ p # Nil => p \in nodes
        /\ child \in [Side -> [Node -> Node]] /\ parent \in [Node -> Node]
        /\ color \in [Node -> {"RED", "BLACK"}] /\ item \in [Node -> Vals \cup {NULL}]
    BY <1>2, SideFacts, NodeFacts DEF OnlyChild, Inv, TypeOK, Coherent
  <1>4. /\ below \in [Side -> [Node -> Node]]
        /\ p # Nil => below[q][p] = x
        /\ \A t \in Side : \A n \in nodes : n # p \/ t # q => below[t][n] = child[t][n]
        /\ \A t \in Side : \A n \in Node \ nodes : below[t][n] = child[t][n]
    BY <1>3
  <1>5. /\ above \in [Node -> Node] /\ above[x] = p
        /\ \A n \in Node : n # x => above[n] = parent[n]
    BY <1>3
  <1>6. PICK new : new = [n \in Node |-> New(n)]
    OBVIOUS
  <1>7. /\ new[Nil] = Nil
        /\ \A n \in nodes \ {y} : new[n] \in nodes' /\ new[n] # Nil
        /\ \A n \in nodes : n # z => new[n] = n
        /\ y # z => new[z] = y
        /\ \A m \in nodes' : \E n \in nodes \ {y} : m = new[n]
        /\ \A m, n \in (nodes \ {y}) \cup {Nil} : new[m] = new[n] => m = n
        /\ \A n \in (nodes \ {y}) \cup {Nil} : new[n] # z /\ new[n] \in Node /\ Old(new[n]) = n
        /\ \A n \in Node : New(n) = new[n]
    BY <1>1, <1>3, <1>6
  <1> HIDE DEF below, above, New
  <1>8. /\ \A n \in Node : n # z => parent'[n] = new[above[Old(n)]]
        /\ \A t \in Side : \A n \in Node : n # z => child'[t][n] = new[below[t][Old(n)]]
        /\ \A n \in Node : n # z => color'[n] = color[Old(n)]
        /\ \A n \in Node : n # z => item'[n] = item[n]
        /\ parent'[z] = Nil /\ color'[z] = "BLACK" /\ item'[z] = NULL
        /\ \A t \in Side : child'[t][z] = Nil
    BY <1>1, <1>3, <1>4, <1>5, <1>7
  <1>9. /\ root' = (IF p = Nil THEN new[x] ELSE new[root])
        /\ p # Nil => child'[q][new[p]] = new[x]
        /\ \A n \in nodes \ {y} : \A t \in Side :
              n # p \/ t # q => child'[t][new[n]] = new[child[t][n]]
        /\ parent'[new[x]] = new[p]
        /\ \A n \in nodes \ {y} : n # x => parent'[new[n]] = new[parent[n]]
        /\ \A n \in (nodes \ {y}) \cup {Nil} : color'[new[n]] = color[n]
    <2> HIDE DEF Old
    <2>1. root' = (IF p = Nil THEN new[x] ELSE new[root])
      BY <1>1, <1>3, <1>7
    <2>2. p # Nil => child'[q][new[p]] = new[x]
      BY <1>3, <1>4, <1>7, <1>8
    <2>3. \A n \in nodes \ {y} : \A t \in Side :
              n # p \/ t # q => child'[t][new[n]] = new[child[t][n]]
      BY <1>3, <1>4, <1>7, <1>8
    <2>4. parent'[new[x]] = new[p]
      BY <1>3, <1>5, <1>7, <1>8
    <2>5. \A n \in nodes \ {y} : n # x => parent'[new[n]] = new[parent[n]]
      BY <1>3, <1>5, <1>7, <1>8
    <2>6. \A n \in (nodes \ {y}) \cup {Nil} : color'[new[n]] = color[n]
      BY <1>3, <1>7, <1>8
    <2> QED
      BY <2>1, <2>2, <2>3, <2>4, <2>5, <2>6
  <1>10. /\ \A n \in Node \ nodes' :
               color'[n] = "BLACK" /\ item'[n] = NULL /\ \A s \in Side : child'[s][n] = Nil
         /\ \A n \in nodes' : item'[n] = item[n]
    <2>1. ASSUME NEW n \in Node \ nodes', n # z
          PROVE  color'[n] = "BLACK" /\ item'[n] = NULL /\ \A s \in Side : child'[s][n] = Nil
      <3>1. n \notin nodes /\ Old(n) = n
        BY <2>1, <1>1, <1>3
      <3>2. color[n] = "BLACK" /\ item[n] = NULL /\ \A s \in Side : child[s][n] = Nil
        BY <3>1 DEF Inv, Fields
      <3> QED
        BY <2>1, <3>1, <3>2, <1>4, <1>7, <1>8
    <2>2. \A n \in nodes' : item'[n] = item[n]
      BY <1>1, <1>3, <1>8
    <2> QED
      BY <2>1, <2>2, <1>8
  <1>11. op' = (IF color[y] = "BLACK"
                THEN [pc |-> "delete_fixup", x |-> x, y |-> Nil, z |-> Nil, val |-> NULL]
                ELSE [pc |-> "idle", x |-> Nil, y |-> Nil, z |-> Nil, val |-> NULL])
    <2>1. op' = IF color[y] = "BLACK" THEN [Idle EXCEPT !.pc = "delete_fixup", !.x = x] ELSE Idle
      BY <1>1, Zenon
    <2> QED
      <3>1. Idle = [pc |-> "idle", x |-> Nil, y |-> Nil, z |-> Nil, val |-> NULL]
        BY DEF Idle
      <3>2. PICK d : d = [Idle EXCEPT !.pc = "delete_fixup", !.x = x]
        OBVIOUS
      <3>3. d = [pc |-> "delete_fixup", x |-> x, y |-> Nil, z |-> Nil, val |-> NULL]
        BY <3>2 DEF Idle
      <3> QED
        BY <2>1, <3>1, <3>2, <3>3, Zenon
  <1>12. Unlinked(new, z, y, x, p, q)
    BY <1>1, <1>7, <1>9, <1>10, <1>11 DEF Unlinked
  <1>13. TypeOK'
    <2>1. \A n \in Node : new[n] \in Node /\ Old(n) \in Node
      BY <1>3, <1>6 DEF New
    <2>2. parent' \in [Node -> Node]
      BY <2>1, <1>1, <1>3, <1>5, <1>7
    <2>3. child' \in [Side -> [Node -> Node]]
      BY <2>1, <1>1, <1>3, <1>4, <1>7
    <2>4. color' \in [Node -> {"RED", "BLACK"}]
      BY <2>1, <1>1, <1>3
    <2>5. item' \in [Node -> Vals \cup {NULL}]
      BY <1>1, <1>3
    <2>6. op' \in Op
      BY <1>3, <1>11 DEF Op
    <2>7. root' \in Node /\ nodes' \subseteq Keys
      BY <2>1, <1>1, <1>3, <1>9
    <2> QED
      BY <2>2, <2>3, <2>4, <2>5, <2>6, <2>7 DEF TypeOK
  <1> QED
    BY <1>12, <1>13 DEF z, y, x, p, q

(* The child has taken the node's place in both directions. *)
LEMMA UnlinkKeepsCoherent ==
    ASSUME Inv, NEW b, Ordered(b), NEW z, NEW y, NEW x, NEW p, NEW q, OnlyChild(b, z, y, x, p, q),
           NEW new, Unlinked(new, z, y, x, p, q)
    PROVE  Coherent'
  <1>1. /\ z \in nodes /\ y \in nodes /\ x \in nodes \cup {Nil} /\ p \in Node /\ q \in Side
        /\ x # y /\ (p = Nil <=> y = root) /\ (p # Nil => p \in nodes \ {y})
        /\ p = parent[y] /\ (p # Nil => child[q][p] = y)
        /\ x # Nil => parent[x] = y /\ x # root
        /\ \A n \in nodes : parent[n] = y => n = x
        /\ \A n \in nodes : \A t \in Side : child[t][n] = y => n = p /\ t = q
        /\ Coherent /\ Nil \notin nodes
    BY NodeFacts DEF OnlyChild, Inv
  <1>2. root \in nodes /\ parent[root] = Nil /\ root # Nil
    BY <1>1 DEF Coherent
  <1>3. \A n \in nodes : \A t \in Side : child[t][n] # Nil =>
           child[t][n] \in nodes /\ parent[child[t][n]] = n
    BY <1>1 DEF Coherent
  <1>4. \A n \in nodes \ {y} : \A t \in Side : n # p \/ t # q =>
           child[t][n] # y /\ (child[t][n] # Nil => child[t][n] # x)
    BY <1>1, <1>3
  <1>5. PICK r : r = IF p = Nil THEN x ELSE root
    OBVIOUS
  <1>6. root' = new[r] /\ (r # Nil => r \in nodes \ {y})
    BY <1>1, <1>2, <1>5 DEF Unlinked
  <1>7. /\ new[Nil] = Nil /\ nodes' = nodes \ {z}
        /\ \A n \in nodes \ {y} : new[n] \in nodes' /\ new[n] # Nil
        /\ \A m \in nodes' : \E n \in nodes \ {y} : m = new[n]
        /\ \A m, n \in (nodes \ {y}) \cup {Nil} : new[m] = new[n] => m = n
        /\ p # Nil => child'[q][new[p]] = new[x]
        /\ \A n \in nodes \ {y} : \A t \in Side :
              n # p \/ t # q => child'[t][new[n]] = new[child[t][n]]
        /\ parent'[new[x]] = new[p]
        /\ \A n \in nodes \ {y} : n # x => parent'[new[n]] = new[parent[n]]
    BY DEF Unlinked
  <1>8. root' = Nil <=> nodes' = {}
    <2>1. CASE r = Nil
      <3>1. y = root /\ x = Nil
        BY <2>1, <1>1, <1>2, <1>5
      <3>2. nodes \ {y} = {}
        BY <3>1 DEF OnlyChild, Ordered
      <3> QED
        BY <2>1, <3>2, <1>6, <1>7
    <2>2. CASE r # Nil
      BY <2>2, <1>6, <1>7
    <2> QED
      BY <2>1, <2>2
  <1>9. root' # Nil => root' \in nodes' /\ parent'[root'] = Nil
    <2> SUFFICES ASSUME root' # Nil PROVE root' \in nodes' /\ parent'[root'] = Nil
      OBVIOUS
    <2>1. r # Nil /\ root' \in nodes'
      BY <1>6, <1>7
    <2>2. CASE p = Nil
      BY <2>2, <1>5, <1>6, <1>7
    <2>3. CASE p # Nil
      <3>1. r = root /\ root # x /\ root # y
        BY <2>3, <1>1, <1>2, <1>5
      <3> QED
        BY <3>1, <1>2, <1>6, <1>7
    <2> QED
      BY <2>2, <2>3, <2>1
  <1>10. ASSUME NEW m \in nodes', NEW t \in Side, child'[t][m] # Nil
         PROVE  child'[t][m] \in nodes' /\ parent'[child'[t][m]] = m
    <2>1. PICK n \in nodes \ {y} : m = new[n]
      BY <1>7
    <2>2. CASE n = p /\ t = q
      <3>1. p # Nil /\ child'[t][m] = new[x] /\ x # Nil
        BY <2>1, <2>2, <1>1, <1>7, <1>10
      <3> QED
        BY <2>1, <2>2, <3>1, <1>1, <1>7
    <2>3. CASE n # p \/ t # q
      <3>1. PICK c : c = child[t][n]
        OBVIOUS
      <3>2. child'[t][m] = new[c] /\ c # Nil
        BY <2>1, <2>3, <3>1, <1>7, <1>10
      <3>3. c \in nodes \ {y} /\ c # x /\ parent[c] = n
        BY <2>1, <2>3, <3>1, <3>2, <1>3, <1>4
      <3> QED
        BY <2>1, <3>2, <3>3, <1>7
    <2> QED
      BY <2>2, <2>3
  <1>11. ASSUME NEW m \in nodes', m # root'
         PROVE  parent'[m] \in nodes' /\ \E t \in Side : child'[t][parent'[m]] = m
    <2>1. PICK n \in nodes \ {y} : m = new[n]
      BY <1>7
    <2>2. n # r
      BY <2>1, <1>6, <1>11
    <2>3. CASE n = x
      <3>1. p # Nil
        BY <2>2, <2>3, <1>5
      <3> QED
        BY <2>1, <2>3, <3>1, <1>1, <1>7
    <2>4. CASE n # x
      <3>1. n # root
        BY <2>1, <2>2, <1>1, <1>5
      <3>2. PICK c, t : c = parent[n] /\ t \in Side /\ child[t][c] = n /\ c \in nodes
        BY <2>1, <3>1, <1>1 DEF Coherent
      <3>3. c # y /\ (c # p \/ t # q)
        BY <2>1, <2>4, <3>2, <1>1
      <3>4. parent'[m] = new[c] /\ child'[t][new[c]] = m /\ new[c] \in nodes'
        BY <2>1, <2>4, <3>2, <3>3, <1>7
      <3> QED
        BY <3>2, <3>4
    <2> QED
      BY <2>3, <2>4
  <1>12. ASSUME NEW m \in nodes', child'["left"][m] # Nil
         PROVE  child'["left"][m] # child'["right"][m]
    <2>1. PICK n \in nodes \ {y} : m = new[n]
      BY <1>7
    <2>2. PICK l, k : /\ l \in (nodes \ {y}) \cup {Nil} /\ k \in (nodes \ {y}) \cup {Nil}
                      /\ child'["left"][m] = new[l] /\ child'["right"][m] = new[k]
                      /\ l = IF n = p /\ q = "left" THEN x ELSE child["left"][n]
                      /\ k = IF n = p /\ q = "right" THEN x ELSE child["right"][n]
      <3>1. PICK l : l = IF n = p /\ q = "left" THEN x ELSE child["left"][n]
        OBVIOUS
      <3>2. PICK k : k = IF n = p /\ q = "right" THEN x ELSE child["right"][n]
        OBVIOUS
      <3>3. l \in (nodes \ {y}) \cup {Nil} /\ child'["left"][m] = new[l]
        BY <2>1, <3>1, <1>1, <1>3, <1>4, <1>7, SideFacts
      <3>4. k \in (nodes \ {y}) \cup {Nil} /\ child'["right"][m] = new[k]
        BY <2>1, <3>2, <1>1, <1>3, <1>4, <1>7, SideFacts
      <3> QED
        BY <3>1, <3>2, <3>3, <3>4
    <2>3. l # Nil
      BY <2>2, <1>7, <1>12
    <2>4. l # k
      <3> SUFFICES ASSUME l = k PROVE FALSE
        OBVIOUS
      <3>1. CASE n = p
        <4>1. q = "left" => k = child["right"][p] /\ l = x
          BY <2>2, <3>1, SideFacts
        <4>2. q = "right" => l = child["left"][p] /\ k = x
          BY <2>2, <3>1, SideFacts
        <4>3. q = "left" \/ q = "right"
          BY <1>1, SideFacts
        <4> QED
          BY <2>1, <2>3, <3>1, <4>1, <4>2, <4>3, <1>4, SideFacts
      <3>2. CASE n # p
        BY ZenonT(20), <2>1, <2>2, <2>3, <3>2, <1>1 DEF Coherent, Left, Right
      <3> QED
        BY <3>1, <3>2
    <2> QED
      BY <2>2, <2>4, <1>7
  <1>13. \A m \in nodes' : \A t \in Side :
            child'[t][m] # Nil => child'[t][m] \in nodes' /\ parent'[child'[t][m]] = m
    BY <1>10
  <1>14. \A m \in nodes' \ {root'} :
            parent'[m] \in nodes' /\ \E t \in Side : child'[t][parent'[m]] = m
    BY <1>11
  <1>15. \A m \in nodes' : child'["left"][m] # Nil => child'["left"][m] # child'["right"][m]
    BY <1>12
  <1> QED
    BY <1>8, <1>9, <1>13, <1>14, <1>15 DEF Coherent, Left, Right

(* The successor's key fits where the deleted one was. *)
LEMMA UnlinkKeepsOrder ==
    ASSUME Inv, NEW b, Ordered(b), NEW z, NEW y, NEW x, NEW p, NEW q, OnlyChild(b, z, y, x, p, q),
           NEW new, Unlinked(new, z, y, x, p, q), TypeOK', Coherent'
    PROVE  \E bb : Ordered(bb)'
  <1>1. /\ z \in nodes /\ y \in nodes /\ x \in nodes \cup {Nil} /\ p \in Node /\ q \in Side
        /\ x # y /\ x # z /\ (p = Nil <=> y = root) /\ (p # Nil => p \in nodes \ {y})
        /\ p = parent[y] /\ (p # Nil => child[q][p] = y)
        /\ x # Nil => parent[x] = y /\ x # root
        /\ \A n \in nodes : parent[n] = y => n = x
        /\ \A n \in nodes : \A t \in Side : child[t][n] = y => n = p /\ t = q
        /\ Coherent /\ TypeOK /\ Nil \notin nodes /\ nodes \subseteq Node /\ Nil \in Node
        /\ b[x] = b[y] \ {y}
    BY NodeFacts, SideFacts DEF OnlyChild, Inv
  <1>2. root \in nodes /\ root # Nil
    BY <1>1 DEF Coherent
  <1>3. \A n \in nodes : \A t \in Side : child[t][n] # Nil => child[t][n] \in nodes
    BY <1>1 DEF Coherent
  <1>4. /\ new[Nil] = Nil /\ nodes' = nodes \ {z}
        /\ \A n \in nodes \ {y} : new[n] \in nodes' /\ new[n] # Nil
        /\ \A m \in nodes' : \E n \in nodes \ {y} : m = new[n]
        /\ \A m, n \in (nodes \ {y}) \cup {Nil} : new[m] = new[n] => m = n
    BY DEF Unlinked
  <1>5. PICK old : old = [m \in Node |-> IF m = y THEN z ELSE m]
    OBVIOUS
  <1>6. PICK bb : bb = [m \in Node |-> {n \in nodes \ {z} : old[n] \in b[old[m]]}]
    OBVIOUS
  <1>7. \A n \in (nodes \ {y}) \cup {Nil} : old[new[n]] = n /\ new[n] \in Node
    BY <1>1, <1>5 DEF Unlinked
  <1>8. /\ \A m \in nodes \ {y} : \A n \in (nodes \ {y}) \cup {Nil} :
              new[m] \in bb[new[n]] <=> m \in b[n]
        /\ bb \in [Node -> SUBSET nodes']
    BY <1>4, <1>6, <1>7
  <1>9. \A n \in nodes \ {y} : \A t \in Side : \E c \in (nodes \ {y}) \cup {Nil} :
           /\ child'[t][new[n]] = new[c]
           /\ \A m \in nodes \ {y} : m \in b[c] <=> m \in b[child[t][n]]
    <2> TAKE n \in nodes \ {y}
    <2> TAKE t \in Side
    <2>1. CASE n = p /\ t = q
      <3>1. child'[t][new[n]] = new[x]
        BY <2>1, <1>1 DEF Unlinked
      <3>2. child[t][n] = y
        BY <2>1, <1>1
      <3> QED
        BY <3>1, <3>2, <1>1
    <2>2. CASE n # p \/ t # q
      <3>1. child'[t][new[n]] = new[child[t][n]]
        BY <2>2 DEF Unlinked
      <3>2. child[t][n] \in (nodes \ {y}) \cup {Nil}
        BY <2>2, <1>1, <1>3
      <3> QED
        BY <3>1, <3>2
    <2> QED
      BY <2>1, <2>2
  <1>10. bb[Nil] = {}
    BY <1>1, <1>4, <1>8 DEF Ordered
  <1>11. bb[root'] = nodes'
    <2>1. PICK r : r = IF p = Nil THEN x ELSE root
      OBVIOUS
    <2>2. root' = new[r] /\ r \in (nodes \ {y}) \cup {Nil}
      BY <2>1, <1>1, <1>2 DEF Unlinked
    <2>3. \A m \in nodes \ {y} : m \in b[r]
      BY <2>1, <1>1 DEF Ordered
    <2>4. bb[root'] \subseteq nodes'
      <3>1. new[r] \in Node
        BY <2>2, <1>7
      <3> QED
        BY <3>1, <2>2, <1>8
    <2> QED
      BY <2>2, <2>3, <2>4, <1>4, <1>8
  <1>12. \A n \in nodes' : \A m \in nodes' :
            m \in bb[n] <=> m = n \/ \E s \in Side : m \in bb[child'[s][n]]
    <2> SUFFICES ASSUME NEW n \in nodes \ {y}, NEW m \in nodes \ {y}
                 PROVE  new[m] \in bb[new[n]] <=>
                           new[m] = new[n] \/ \E s \in Side : new[m] \in bb[child'[s][new[n]]]
      BY <1>4
    <2>1. m \in b[n] <=> m = n \/ \E s \in Side : m \in b[child[s][n]]
      BY DEF Ordered
    <2>2. \A s \in Side : new[m] \in bb[child'[s][new[n]]] <=> m \in b[child[s][n]]
      BY <1>8, <1>9
    <2>3. new[m] \in bb[new[n]] <=> m \in b[n]
      BY <1>8
    <2>4. new[m] = new[n] <=> m = n
      BY <1>4
    <2> QED
      BY <2>1, <2>2, <2>3, <2>4
  <1>13. \A n \in nodes' : \A s \in Side : \A m \in bb[child'[s][n]] : m # n /\ Way(m, n) = s
    <2> SUFFICES ASSUME NEW n \in nodes \ {y}, NEW s \in Side, NEW m \in nodes \ {y},
                        new[m] \in bb[child'[s][new[n]]]
                 PROVE  new[m] # new[n] /\ Way(new[m], new[n]) = s
      <3>1. \A n \in nodes' : \A s \in Side : child'[s][n] \in Node
        BY <1>1, <1>4 DEF TypeOK
      <3> QED
        BY <3>1, <1>4, <1>8
    <2>1. m \in b[child[s][n]]
      BY <1>8, <1>9
    <2>2. m # n /\ Way(m, n) = s
      BY <2>1 DEF Ordered
    <2>3. new[m] # new[n]
      BY <2>2, <1>4
    <2>4. (n # z => new[n] = n) /\ (m # z => new[m] = m) /\ (y # z => new[z] = y)
      BY DEF Unlinked
    <2>5. CASE n # z /\ m # z
      BY <2>2, <2>3, <2>4, <2>5
    <2>6. CASE n = z
      <3>1. Way(m, y) = s
        BY <2>1, <2>6 DEF OnlyChild
      <3> QED
        BY <2>2, <2>3, <2>4, <2>6, <3>1
    <2>7. CASE m = z
      <3>1. Way(y, n) = s
        BY <2>1, <2>7 DEF OnlyChild
      <3> QED
        BY <2>2, <2>3, <2>4, <2>7, <3>1
    <2> QED
      BY <2>5, <2>6, <2>7
  <1>14. \A n \in nodes' : \A m \in bb[n] : bb[m] \subseteq bb[n] /\ (m # n => parent'[m] \in bb[n])
    <2> SUFFICES ASSUME NEW n1 \in nodes', NEW m1 \in bb[n1]
                 PROVE  bb[m1] \subseteq bb[n1] /\ (m1 # n1 => parent'[m1] \in bb[n1])
      OBVIOUS
    <2> PICK n \in nodes \ {y} : n1 = new[n]
      BY <1>4
    <2> PICK m \in nodes \ {y} : m1 = new[m]
      <3>1. n1 \in Node
        BY <1>1, <1>4
      <3> QED
        BY <3>1, <1>4, <1>8
    <2>1. m \in b[n]
      BY <1>8
    <2>2. b[m] \subseteq b[n] /\ (m # n => parent[m] \in b[n])
      BY <2>1 DEF Ordered
    <2>3. bb[new[m]] \subseteq bb[new[n]]
      <3>1. new[m] \in Node
        BY <1>7
      <3>2. bb[new[m]] \subseteq nodes'
        BY <3>1, <1>8
      <3> QED
        BY <3>2, <2>2, <1>4, <1>8
    <2>4. ASSUME m # n PROVE parent'[new[m]] \in bb[new[n]]
      <3>1. b[n] \subseteq nodes
        BY <1>1 DEF Ordered
      <3>2. CASE m = x
        <4>1. y \in b[n] /\ x # Nil
          BY <2>2, <2>4, <3>2, <1>1
        <4>2. p \in b[n] /\ p \in nodes \ {y}
          <5>1. parent[y] \in b[n]
            BY <4>1 DEF Ordered
          <5> QED
            BY <5>1, <3>1, <1>1
        <4> QED
          BY <3>2, <4>2, <1>8 DEF Unlinked
      <3>3. CASE m # x
        <4>1. parent[m] \in b[n] /\ parent[m] # y /\ parent[m] \in nodes
          BY <2>2, <2>4, <3>1, <3>3, <1>1
        <4>2. parent'[new[m]] = new[parent[m]]
          BY <3>3 DEF Unlinked
        <4> QED
          BY <4>1, <4>2, <1>8
      <3> QED
        BY <3>2, <3>3
    <2> QED
      BY <2>3, <2>4
  <1>15. bb \in [Node -> SUBSET nodes']
    BY <1>8
  <1> QED
    BY <1>10, <1>11, <1>12, <1>13, <1>14, <1>15 DEF Ordered, Way

(* If the node was black, its child, or nil there, is a black short. *)
LEMMA UnlinkKeepsHeights ==
    ASSUME Inv, NEW b, Ordered(b), NEW z, NEW y, NEW x, NEW p, NEW q, OnlyChild(b, z, y, x, p, q),
           NEW new, Unlinked(new, z, y, x, p, q), op.pc = "successor", NEW h, Heights(h)
    PROVE  \E hh : Heights(hh)'
  <1>1. /\ z \in nodes /\ y \in nodes /\ x \in nodes \cup {Nil} /\ p \in Node /\ q \in Side
        /\ x # y /\ x # z /\ (p # Nil => p \in nodes \ {y} /\ child[q][p] = y)
        /\ x # Nil => parent[x] = y
        /\ \A n \in nodes : \A t \in Side : child[t][n] = y => n = p /\ t = q
        /\ Coherent /\ TypeOK /\ Nil \notin nodes /\ nodes \subseteq Node /\ Nil \in Node
        /\ \A n \in nodes : \A t \in Side : child[t][n] # Nil =>
              child[t][n] \in nodes /\ parent[child[t][n]] = n
    BY NodeFacts, SideFacts DEF OnlyChild, Inv, Coherent
  <1>2. /\ new[Nil] = Nil /\ nodes' = nodes \ {z}
        /\ \A n \in nodes \ {y} : new[n] \in nodes' /\ new[n] # Nil
        /\ \A m \in nodes' : \E n \in nodes \ {y} : m = new[n]
        /\ \A m, n \in (nodes \ {y}) \cup {Nil} : new[m] = new[n] => m = n
        /\ \A n \in nodes : n # z => new[n] = n
        /\ y # z => new[z] = y
        /\ p # Nil => child'[q][new[p]] = new[x]
        /\ \A n \in nodes \ {y} : \A t \in Side :
              n # p \/ t # q => child'[t][new[n]] = new[child[t][n]]
        /\ parent'[new[x]] = new[p]
        /\ \A n \in (nodes \ {y}) \cup {Nil} : color'[new[n]] = color[n]
    BY DEF Unlinked
  <1>3. new[x] = x
    BY <1>1, <1>2
  <1>4. h \in [Node -> Nat] /\ \A n \in nodes : \A t \in Side : BlackOn(h, t, n) = h[n]
    BY DEF Heights
  <1>5. \A n : ~Short(n) /\ (Short(n)' <=> color[y] = "BLACK" /\ n = x)
    BY DEF Short, Unlinked
  <1>6. \A t, n : ~Hole(t, n)
    BY <1>5 DEF Hole
  <1>7. PICK a \in Side : x = child[a][y] /\ child[Opposite[a]][y] = Nil
    BY DEF OnlyChild
  <1>8. h[y] = 0 /\ (x # Nil => Weight(h, x) = 0)
    <2>1. Opposite[a] \in Side
      BY SideFacts
    <2>2. BlackOn(h, Opposite[a], y) = 0
      BY <1>6, <1>7 DEF BlackOn, Count
    <2>3. x # Nil => BlackOn(h, a, y) = Weight(h, x)
      BY <1>7 DEF BlackOn
    <2> QED
      BY <2>1, <2>2, <2>3, <1>1, <1>4
  <1>9. p # Nil => h[p] = Count(color[y] = "BLACK")
    <2> SUFFICES ASSUME p # Nil PROVE h[p] = Count(color[y] = "BLACK")
      OBVIOUS
    <2>1. BlackOn(h, q, p) = Weight(h, y) /\ BlackOn(h, q, p) = h[p]
      BY <1>1, <1>4 DEF BlackOn
    <2>2. Weight(h, y) = Count(color[y] = "BLACK")
      BY <1>5, <1>8 DEF Weight, Count
    <2> QED
      BY <2>1, <2>2
  <1>10. \A t \in Side : \A n \in nodes \ {y} :
            Hole(t, new[n])' <=> color[y] = "BLACK" /\ x = Nil /\ n = p /\ t = q
    <2>1. ASSUME color[y] = "BLACK", x = Nil, p # Nil PROVE SideOf(Nil)' = q
      <3>1. PICK o : o = Opposite[q]
        OBVIOUS
      <3>2. o \in Side /\ o # q /\ (q = "left" \/ o = "left") /\ (o = "left" => q = "right")
        BY <3>1, <1>1, SideFacts
      <3>3. PICK w : w = child[o][p]
        OBVIOUS
      <3>4. w # Nil
        <4> SUFFICES ASSUME w = Nil PROVE FALSE
          OBVIOUS
        <4>1. BlackOn(h, o, p) = 0
          BY <3>3, <1>6 DEF BlackOn, Count
        <4>2. h[p] = 1
          BY <2>1, <1>9 DEF Count
        <4> QED
          BY <4>1, <4>2, <2>1, <3>2, <1>1, <1>4
      <3>5. w \in nodes \ {y}
        BY <2>1, <3>2, <3>3, <3>4, <1>1
      <3>6. child'[q][new[p]] = Nil /\ child'[o][new[p]] # Nil /\ parent'[Nil] = new[p]
        <4>1. child'[o][new[p]] = new[w]
          BY <2>1, <3>2, <3>3, <1>1, <1>2
        <4> QED
          BY <4>1, <3>5, <2>1, <1>2
      <3>7. CASE q = "left"
        BY <3>6, <3>7 DEF SideOf, Left
      <3>8. CASE o = "left"
        BY <3>2, <3>6, <3>8 DEF SideOf, Left
      <3> QED
        BY <3>2, <3>7, <3>8
    <2> TAKE t \in Side
    <2> TAKE n \in nodes \ {y}
    <2>2. Hole(t, new[n])' <=> /\ color[y] = "BLACK" /\ x = Nil
                               /\ parent'[Nil] = new[n] /\ SideOf(Nil)' = t
      BY <1>5 DEF Hole
    <2>3. ASSUME x = Nil PROVE parent'[Nil] = new[n] <=> n = p
      <3>1. parent'[Nil] = new[p] /\ p \in (nodes \ {y}) \cup {Nil}
        BY <2>3, <1>1, <1>2
      <3> QED
        BY <3>1, <1>2
    <2>4. n = p => p # Nil
      BY <1>1
    <2> QED
      BY <2>1, <2>2, <2>3, <2>4
  <1>11. PICK old : old = [m \in Node |-> IF m = y THEN z ELSE m]
    OBVIOUS
  <1>12. PICK hh : hh = [m \in Node |-> h[old[m]]]
    OBVIOUS
  <1>13. hh \in [Node -> Nat] /\ \A n \in nodes \ {y} : hh[new[n]] = h[n]
    <2>1. \A m \in Node : old[m] \in Node
      BY <1>1, <1>11
    <2>2. \A n \in nodes \ {y} : old[new[n]] = n /\ new[n] \in Node
      BY <1>1, <1>2, <1>11
    <2> QED
      BY <2>1, <2>2, <1>4, <1>12
  <1>14. \A c \in nodes \ {y} : c # x => Weight(hh, new[c])' = Weight(h, c)
    <2> TAKE c \in nodes \ {y}
    <2> HAVE c # x
    <2>1. color'[new[c]] = color[c] /\ hh[new[c]] = h[c]
      BY <1>2, <1>13
    <2>2. ~Short(new[c])' /\ ~Short(c)
      <3>1. new[c] # x
        BY <1>1, <1>2, <1>3
      <3> QED
        BY <3>1, <1>5
    <2> QED
      BY <2>1, <2>2 DEF Weight, Count
  <1>15. x # Nil => Weight(hh, x)' = Count(color[y] = "BLACK")
    <2> SUFFICES ASSUME x # Nil PROVE Weight(hh, x)' = Count(color[y] = "BLACK")
      OBVIOUS
    <2>1. color'[x] = color[x] /\ hh[x] = h[x] /\ h[x] \in Nat
      BY <1>1, <1>2, <1>3, <1>4, <1>13
    <2>2. Count(color[x] = "BLACK") + h[x] = 0
      BY <2>1, <1>5, <1>8 DEF Weight, Count
    <2> QED
      BY <2>1, <2>2, <1>5 DEF Weight, Count
  <1>16. ASSUME NEW n \in nodes \ {y}, NEW t \in Side
         PROVE  BlackOn(hh, t, new[n])' = h[n]
    <2>1. CASE n = p /\ t = q
      <3>1. p # Nil /\ child'[t][new[n]] = x /\ h[n] = Count(color[y] = "BLACK")
        BY <2>1, <1>1, <1>2, <1>3, <1>9
      <3>2. CASE x = Nil
        BY <2>1, <3>1, <3>2, <1>10 DEF BlackOn, Count
      <3>3. CASE x # Nil
        <4>1. BlackOn(hh, t, new[n])' = Weight(hh, x)'
          BY <3>1, <3>3, OtherBranch
        <4> QED
          BY <3>1, <3>3, <4>1, <1>15
      <3> QED
        BY <3>2, <3>3
    <2>2. CASE n # p \/ t # q
      <3>1. PICK c : c = child[t][n]
        OBVIOUS
      <3>2. child'[t][new[n]] = new[c] /\ BlackOn(h, t, n) = h[n]
        BY <2>2, <3>1, <1>2, <1>4
      <3>3. c # Nil => c \in nodes \ {y} /\ c # x /\ new[c] # Nil
        BY <2>2, <3>1, <1>1, <1>2
      <3>4. CASE c = Nil
        <4>1. ~Hole(t, new[n])' /\ child'[t][new[n]] = Nil
          BY <2>2, <3>2, <3>4, <1>2, <1>10
        <4>2. BlackOn(hh, t, new[n])' = 0
          BY <4>1 DEF BlackOn, Count
        <4>3. BlackOn(h, t, n) = 0
          BY <3>1, <3>4, <1>6 DEF BlackOn, Count
        <4> QED
          BY <3>2, <4>2, <4>3
      <3>5. CASE c # Nil
        <4>1. BlackOn(hh, t, new[n])' = Weight(hh, new[c])'
          BY <3>2, <3>3, <3>5, OtherBranch
        <4>2. BlackOn(h, t, n) = Weight(h, c)
          BY <3>1, <3>5 DEF BlackOn
        <4> QED
          BY <3>2, <3>3, <3>5, <4>1, <4>2, <1>14
      <3> QED
        BY <3>4, <3>5
    <2> QED
      BY <2>1, <2>2
  <1>17. ASSUME NEW m \in nodes', NEW t \in Side PROVE BlackOn(hh, t, m)' = hh[m]
    <2>1. PICK n \in nodes \ {y} : m = new[n]
      BY <1>2
    <2>2. BlackOn(hh, t, new[n])' = h[n] /\ hh[new[n]] = h[n]
      BY <1>13, <1>16
    <2> QED
      BY <2>1, <2>2
  <1> QED
    BY <1>13, <1>17 DEF Heights

(* The removal as a whole *)
LEMMA UnlinkKeeps ==
    ASSUME Inv, Unlink
    PROVE  Inv'
  <1>1. op.pc = "successor" /\ AtSuccessor
    BY DEF Unlink
  <1>2. PICK b, h : Ordered(b) /\ SuccessorOK(b) /\ Heights(h)
    BY DEF Inv
  <1>3. PICK z, y, x, p, q : z = op.z /\ y = op.y /\ OnlyChild(b, z, y, x, p, q)
    BY <1>1, <1>2, OnlyChildFacts
  <1>4. TypeOK' /\ \E new : Unlinked(new, z, y, x, p, q)
    <2>1. x = (IF Left(y) # Nil THEN Left(y) ELSE Right(y)) /\ p = parent[y] /\ q = SideOf(y)
      BY <1>3 DEF OnlyChild
    <2> QED
      BY <2>1, <1>3, UnlinkWrites
  <1>5. PICK new : Unlinked(new, z, y, x, p, q)
    BY <1>4
  <1>6. Coherent'
    BY <1>2, <1>3, <1>5, UnlinkKeepsCoherent
  <1>7. PICK bb : Ordered(bb)'
    BY <1>2, <1>3, <1>4, <1>5, <1>6, UnlinkKeepsOrder
  <1>8. \E hh : Heights(hh)'
    BY <1>1, <1>2, <1>3, <1>5, UnlinkKeepsHeights
  <1>9. /\ z \in nodes /\ y \in nodes /\ x \in nodes \cup {Nil} /\ p \in Node /\ q \in Side
        /\ x # y /\ x # z /\ (p = Nil <=> y = root)
        /\ p # Nil => p \in nodes \ {y} /\ child[q][p] = y
        /\ x # Nil => parent[x] = y
        /\ \A n \in nodes : parent[n] = y => n = x
        /\ Coherent /\ TypeOK /\ Fields /\ Nil \notin nodes /\ nodes \subseteq Node /\ Nil \in Node
    BY <1>3, NodeFacts, SideFacts DEF OnlyChild, Inv
  <1>10. /\ new[Nil] = Nil /\ nodes' = nodes \ {z}
         /\ \A n \in nodes \ {y} : new[n] \in nodes' /\ new[n] # Nil
         /\ \A m \in nodes' : \E n \in nodes \ {y} : m = new[n]
         /\ \A m, n \in (nodes \ {y}) \cup {Nil} : new[m] = new[n] => m = n
         /\ \A n \in nodes : n # z => new[n] = n
         /\ root' = IF p = Nil THEN new[x] ELSE new[root]
         /\ p # Nil => child'[q][new[p]] = new[x]
         /\ \A n \in nodes \ {y} : \A t \in Side :
               n # p \/ t # q => child'[t][new[n]] = new[child[t][n]]
         /\ parent'[new[x]] = new[p]
         /\ \A n \in nodes \ {y} : n # x => parent'[new[n]] = new[parent[n]]
         /\ \A n \in (nodes \ {y}) \cup {Nil} : color'[new[n]] = color[n]
    BY <1>5 DEF Unlinked
  <1>11. new[x] = x
    BY <1>9, <1>10
  <1>12. Fields'
    <2>1. /\ \A n \in Node \ nodes' :
               color'[n] = "BLACK" /\ item'[n] = NULL /\ \A s \in Side : child'[s][n] = Nil
          /\ \A n \in nodes' : item'[n] = item[n]
      BY <1>5 DEF Unlinked
    <2> QED
      BY <2>1, <1>9, <1>10 DEF Fields
  <1>13. /\ color[y] = "BLACK" => op'.pc = "delete_fixup" /\ op'.x = x
         /\ color[y] # "BLACK" => op'.pc = "idle"
    BY <1>5 DEF Unlinked
  <1>14. \A n : ~Short(n) /\ (Short(n)' <=> color[y] = "BLACK" /\ n = x)
    BY <1>1, <1>13 DEF Short
  <1>15. RedsApart'
    <2>1. \A n \in nodes : color[n] = "RED" => n # root /\ color[parent[n]] # "RED"
      BY <1>1, <1>14 DEF Inv, RedsApart, BeingFixed
    <2>2. ASSUME NEW n \in nodes \ {y}, color'[new[n]] = "RED",
                 new[n] = root' \/ color'[parent'[new[n]]] = "RED"
          PROVE  BeingFixed(new[n])'
      <3>1. color[n] = "RED"
        BY <2>2, <1>10
      <3>2. CASE n = x
        <4>1. color[y] = "BLACK"
          <5>1. color[y] # "RED" /\ y \in Node
            BY <2>1, <3>1, <3>2, <1>9
          <5> QED
            BY <5>1, <1>9 DEF TypeOK
        <4> QED
          BY <3>2, <4>1, <1>11, <1>14 DEF BeingFixed
      <3>3. CASE n # x
        <4>1. n # root /\ color[parent[n]] # "RED"
          BY <2>1, <3>1
        <4>2. parent[n] \in nodes \ {y}
          BY <4>1, <3>3, <1>9 DEF Coherent
        <4>3. color'[parent'[new[n]]] = color[parent[n]]
          BY <4>2, <3>3, <1>10
        <4>4. new[n] = root'
          BY <2>2, <4>1, <4>3
        <4>5. root \in nodes /\ (p # Nil => root # y)
          BY <1>9 DEF Coherent
        <4>6. CASE p = Nil
          BY <4>4, <4>6, <3>3, <1>9, <1>10
        <4>7. CASE p # Nil
          BY <4>1, <4>4, <4>5, <4>7, <1>10
        <4> QED
          BY <4>6, <4>7
      <3> QED
        BY <3>2, <3>3
    <2>3. ASSUME NEW m \in nodes', color'[m] = "RED", m = root' \/ color'[parent'[m]] = "RED"
          PROVE  BeingFixed(m)'
      <3>1. PICK n \in nodes \ {y} : m = new[n]
        BY <1>10
      <3>2. BeingFixed(new[n])'
        BY <2>2, <2>3, <3>1
      <3> QED
        BY <3>1, <3>2
    <2> QED
      BY <2>3 DEF RedsApart
  <1>16. InsertFixupOK'
    BY <1>13 DEF InsertFixupOK
  <1>17. DeleteFixupOK'
    <2> SUFFICES ASSUME op'.pc = "delete_fixup"
                 PROVE  /\ op'.x \in nodes' \cup {Nil}
                        /\ op'.x = Nil /\ root' # Nil =>
                              parent'[Nil] \in nodes' /\ child'[SideOf(Nil)'][parent'[Nil]] = Nil
      BY DEF DeleteFixupOK
    <2>1. op'.x = x /\ x \in nodes' \cup {Nil}
      BY <1>9, <1>10, <1>13
    <2>2. ASSUME x = Nil, root' # Nil
          PROVE  parent'[Nil] \in nodes' /\ child'[SideOf(Nil)'][parent'[Nil]] = Nil
      <3>1. p # Nil /\ parent'[Nil] = new[p] /\ new[p] \in nodes' /\ child'[q][new[p]] = Nil
        BY <2>2, <1>9, <1>10
      <3>2. SideOf(Nil)' = IF child'["left"][new[p]] = Nil THEN "left" ELSE "right"
        BY <3>1 DEF SideOf, Left
      <3>3. q = "left" \/ q = "right"
        BY <1>9, SideFacts
      <3> QED
        BY <3>1, <3>2, <3>3
    <2> QED
      BY <2>1, <2>2
  <1>18. DescendOK(bb)' /\ SuccessorOK(bb)'
    BY <1>13 DEF DescendOK, SuccessorOK
  <1> QED
    BY <1>4, <1>6, <1>7, <1>8, <1>12, <1>15, <1>16, <1>17, <1>18 DEF Inv

-----------------------------------------------------------------------------
(* The tree's invariants *)

(* init_tree *)
LEMMA InitInv == Init => Inv
  <1> SUFFICES ASSUME Init PROVE Inv
    OBVIOUS
  <1>1. /\ nodes = {} /\ root = Nil /\ op = Idle
        /\ child = [s \in Side |-> [n \in Node |-> Nil]]
        /\ parent = [n \in Node |-> Nil]
        /\ color = [n \in Node |-> "BLACK"]
        /\ item = [n \in Node |-> NULL]
        /\ Nil \in Node
    BY SideFacts DEF Init
  <1>2. op \in Op /\ op.pc = "idle"
    BY <1>1 DEF Op, Idle
  <1>3. TypeOK
    BY <1>1, <1>2 DEF TypeOK
  <1>4. Coherent /\ Fields /\ RedsApart
    BY <1>1, SideFacts DEF Coherent, Fields, RedsApart
  <1>5. PICK b : b = [n \in Node |-> {}]
    OBVIOUS
  <1>6. Ordered(b) /\ DescendOK(b) /\ SuccessorOK(b)
    BY <1>1, <1>2, <1>5 DEF Ordered, DescendOK, SuccessorOK
  <1>7. PICK h : h = [n \in Node |-> 0]
    OBVIOUS
  <1>8. Heights(h)
    BY <1>1, <1>7 DEF Heights
  <1>9. InsertFixupOK /\ DeleteFixupOK
    BY <1>2 DEF InsertFixupOK, DeleteFixupOK
  <1> QED
    BY <1>3, <1>4, <1>6, <1>8, <1>9 DEF Inv

(* Nothing changes. *)
LEMMA StutterKeeps ==
    ASSUME Inv, UNCHANGED vars
    PROVE  Inv'
  <1>1. /\ nodes' = nodes /\ root' = root /\ child' = child /\ parent' = parent
        /\ color' = color /\ item' = item /\ op' = op
    BY DEF vars, tree
  <1>2. TypeOK' /\ Coherent' /\ Fields'
    BY <1>1 DEF Inv, TypeOK, Coherent, Fields, Left, Right
  <1>3. RedsApart' /\ InsertFixupOK' /\ DeleteFixupOK'
    BY <1>1 DEF Inv, RedsApart, BeingFixed, Short, InsertFixupOK, DeleteFixupOK, SideOf, Left
  <1>4. PICK b, h : Ordered(b) /\ DescendOK(b) /\ SuccessorOK(b) /\ Heights(h)
    BY DEF Inv
  <1>5. Ordered(b)' /\ DescendOK(b)' /\ SuccessorOK(b)'
    BY <1>1, <1>4 DEF Ordered, DescendOK, SuccessorOK, Way, Left, Right
  <1>6. Heights(h)'
    <2>1. ASSUME NEW n \in nodes, NEW s \in Side PROVE BlackOn(h, s, n)' = BlackOn(h, s, n)
      BY <1>1 DEF BlackOn, Weight, Hole, Short, SideOf, Left
    <2> QED
      BY <1>1, <1>4, <2>1 DEF Heights
  <1> QED
    BY <1>2, <1>3, <1>5, <1>6 DEF Inv

(* Every step of the tree *)
LEMMA NextInv ==
    ASSUME Inv, [Next]_vars
    PROVE  Inv'
  <1>1. ASSUME NEW k \in Keys, NEW v \in Structs[k], Insert(k, v) PROVE Inv'
    BY <1>1, InsertKeeps
  <1>2. ASSUME NEW z \in Keys, Delete(z) PROVE Inv'
    BY <1>2, DeleteKeeps
  <1>3. CASE Step
    BY <1>3, DescendKeeps, LinkKeeps, InsertFixupKeeps, SuccessorKeeps, UnlinkKeeps,
       DeleteFixupKeeps, DeleteFixupEndsKeeps DEF Step
  <1>4. CASE UNCHANGED vars
    BY <1>4, StutterKeeps
  <1> QED
    BY <1>1, <1>2, <1>3, <1>4 DEF Next

(* What the labellings say of the tree holds at every moment. *)
THEOREM Invariant == Spec => []Inv
  BY InitInv, NextInv, PTL DEF Spec

(* The fields keep their types. *)
THEOREM TreeTyped == Spec => []TypeOK
  <1>1. Inv => TypeOK
    BY DEF Inv
  <1> QED
    BY <1>1, Invariant, PTL

(* Both directions of every link agree at every moment, also in the middle *)
(* of a rotation, of a fix-up or of the removal of a node (rbtree.c:24).   *)
THEOREM LinksAgree == Spec => []Coherent
  <1>1. Inv => Coherent
    BY DEF Inv
  <1> QED
    BY <1>1, Invariant, PTL

-----------------------------------------------------------------------------
(* rbtree_search and the black height: what the recursion comes to *)

(* Some node of any set has no child there: where a recursion would fail. *)
LEMMA LowestNode ==
    ASSUME TypeOK, Coherent, NEW b, Ordered(b), NEW T \in SUBSET nodes, T # {}
    PROVE  \E n \in T : \A s \in Side : child[s][n] \notin T
  <1> DEFINE B == {b[n] : n \in T}
  <1>1. B \subseteq SUBSET Keys /\ B # {}
    BY NodeFacts DEF Ordered, TypeOK
  <1>2. IsWellFoundedOn(StrictSubsetOrdering(Keys), SUBSET Keys)
    BY KeyAssumption, FS_FiniteSubsetsOfFinite, FS_StrictSubsetOrderingWellFounded
  <1>3. \E x \in B : \A y \in B : ~(<<y, x>> \in StrictSubsetOrdering(Keys))
    <2> HIDE DEF B
    <2> QED
      BY <1>1, <1>2, WFMin
  <1>4. PICK n \in T : \A m \in T : ~(<<b[m], b[n]>> \in StrictSubsetOrdering(Keys))
    BY <1>3
  <1>5. ASSUME NEW s \in Side, child[s][n] \in T PROVE FALSE
    <2>1. PICK c : c = child[s][n]
      OBVIOUS
    <2>2. c # Nil /\ c \in nodes /\ n \in nodes
      BY <2>1, <1>5, NodeFacts
    <2>3. b[c] \subseteq b[n] /\ n \notin b[c] /\ n \in b[n]
      BY <2>1, <2>2, ChildFacts, ParentFacts
    <2>4. b[c] \subseteq Keys /\ b[n] \subseteq Keys
      BY <2>2, NodeFacts DEF Ordered, TypeOK
    <2>5. <<b[c], b[n]>> \in StrictSubsetOrdering(Keys)
      BY <2>3, <2>4 DEF StrictSubsetOrdering
    <2> QED
      BY <2>1, <2>5, <1>4, <1>5
  <1> QED
    BY <1>5

(* A search finds the nodes that are there, and no other. *)
LEMMA SearchFinds ==
    ASSUME Inv, NEW k \in Keys
    PROVE  Search(k) = IF k \in nodes THEN k ELSE Nil
  <1> DEFINE found[n \in Node] == IF n = Nil \/ n = k THEN n ELSE found[child[Way(k, n)][n]]
             P(f) == f = [n \in Node |-> IF n = Nil \/ n = k THEN n ELSE f[child[Way(k, n)][n]]]
  <1>1. PICK b : Ordered(b)
    BY DEF Inv
  <1>2. /\ TypeOK /\ Coherent /\ Fields /\ nodes \subseteq Node /\ nodes \subseteq Keys
        /\ Nil \notin nodes /\ Nil \in Node /\ k # Nil /\ k \in Node /\ Node = Keys \cup {Nil}
        /\ root \in nodes \cup {Nil}
    BY SideFacts, NodeFacts DEF Inv, Coherent, TypeOK, Node
  <1>3. PICK g : g = [n \in Node |-> IF n = k \/ (n \in nodes /\ k \in b[n]) THEN k ELSE Nil]
    OBVIOUS
  <1>4. \A n \in Node : g[n] = IF n = k \/ (n \in nodes /\ k \in b[n]) THEN k ELSE Nil
    BY <1>3
  <1>5. \A n \in Node : n # Nil /\ n # k =>
           /\ child[Way(k, n)][n] \in Node /\ (n \notin nodes => child[Way(k, n)][n] = Nil)
           /\ Way(k, n) \in Side
    BY <1>2, WayFacts, NodeFacts DEF Fields
  <1>6. \A n \in Node : g[n] = IF n = Nil \/ n = k THEN n ELSE g[child[Way(k, n)][n]]
    <2> TAKE n \in Node
    <2>1. CASE n = Nil \/ n = k
      BY <2>1, <1>2, <1>4
    <2>2. CASE n # Nil /\ n # k /\ n \notin nodes
      BY <2>2, <1>2, <1>4, <1>5
    <2>3. CASE n # k /\ n \in nodes
      <3>1. PICK c : c = child[Way(k, n)][n]
        OBVIOUS
      <3>2. c \in nodes \cup {Nil} /\ Way(k, n) \in Side /\ n # Nil
        BY <2>3, <3>1, <1>2, <1>5 DEF Coherent
      <3>3. k \in b[n] <=> k \in b[c]
        <4>1. k \in b[n] => k \in nodes
          BY <2>3, <1>1, <1>2 DEF Ordered
        <4>2. k \in b[c] => k \in nodes
          BY <3>2, <1>1, <1>2 DEF Ordered
        <4>3. k \in nodes => (k \in b[n] <=> \E s \in Side : k \in b[child[s][n]])
          BY <2>3, <1>1 DEF Ordered
        <4>4. \A s \in Side : k \in b[child[s][n]] => s = Way(k, n)
          BY <2>3, <1>1 DEF Ordered
        <4> QED
          BY <3>1, <3>2, <4>1, <4>2, <4>3, <4>4
      <3>4. g[c] = IF k \in b[c] THEN k ELSE Nil
        <4>1. c = k => k \in b[c]
          BY <3>2, <1>1, <1>2, ParentFacts
        <4>2. c = Nil => k \notin b[c]
          BY <1>1 DEF Ordered
        <4> QED
          BY <3>2, <4>1, <4>2, <1>2, <1>4
      <3> QED
        BY <2>3, <3>1, <3>2, <3>3, <3>4, <1>2, <1>4
    <2> QED
      BY <2>1, <2>2, <2>3
  <1>7. P(g)
    BY <1>3, <1>6
  <1>8. P(found)
    <2>1. P(CHOOSE f : P(f))
      <3> HIDE DEF P
      <3> QED
        BY <1>7
    <2> QED
      BY <2>1, Zenon
  <1>9. Search(k) = found[root]
    BY Zenon DEF Search
  <1> HIDE DEF found
  <1>10. \A n \in Node : found[n] = IF n = Nil \/ n = k THEN n ELSE found[child[Way(k, n)][n]]
    BY <1>8
  <1>11. PICK T : T = {n \in nodes : found[n] # g[n]}
    OBVIOUS
  <1>12. T = {}
    <2> SUFFICES ASSUME T # {} PROVE FALSE
      OBVIOUS
    <2>1. T \in SUBSET nodes
      BY <1>11
    <2>2. PICK n \in T : \A s \in Side : child[s][n] \notin T
      BY <2>1, <1>1, <1>2, LowestNode
    <2>3. n \in nodes /\ n \in Node /\ found[n] # g[n] /\ n # Nil
      BY <2>2, <1>2, <1>11
    <2>4. n # k
      BY <2>3, <1>6, <1>10
    <2>5. PICK c : c = child[Way(k, n)][n]
      OBVIOUS
    <2>6. c \notin T /\ c \in nodes \cup {Nil}
      BY <2>2, <2>3, <2>4, <2>5, <1>2, <1>5 DEF Coherent
    <2>7. found[c] = g[c]
      BY <2>6, <1>2, <1>6, <1>10, <1>11
    <2> QED
      BY <2>3, <2>4, <2>5, <2>7, <1>6, <1>10
  <1>13. found[root] = g[root]
    BY <1>2, <1>6, <1>10, <1>11, <1>12
  <1>14. root # Nil => b[root] = nodes
    BY <1>1 DEF Ordered
  <1>15. root = Nil => nodes = {}
    BY <1>2 DEF Coherent
  <1> QED
    BY <1>2, <1>4, <1>9, <1>13, <1>14, <1>15

(* Down the left of the tree there are as many black nodes as on any path. *)
LEMMA BlackHeightIs ==
    ASSUME Inv, NEW h, Heights(h), NEW n \in nodes, NEW s \in Side
    PROVE  BlackHeight(n, s) = h[n]
  <1> DEFINE down[m \in Node] == BlackOn(down, "left", m)
             P(f) == f = [m \in Node |-> BlackOn(f, "left", m)]
  <1>1. PICK b : Ordered(b)
    BY DEF Inv
  <1>2. /\ TypeOK /\ Coherent /\ Fields /\ nodes \subseteq Node /\ Nil \notin nodes
        /\ "left" \in Side
    BY SideFacts, NodeFacts DEF Inv
  <1>3. PICK g : g = [m \in Node |-> IF m \in nodes THEN h[m] ELSE Count(Hole("left", m))]
    OBVIOUS
  <1>4. /\ \A m \in nodes : g[m] = h[m]
        /\ \A m \in Node \ nodes : g[m] = Count(Hole("left", m))
    BY <1>2, <1>3
  <1>5. ASSUME NEW m \in nodes, NEW t \in Side, NEW f,
               child[t][m] # Nil => f[child[t][m]] = h[child[t][m]]
        PROVE  BlackOn(f, t, m) = h[m]
    <2>1. BlackOn(f, t, m) = BlackOn(h, t, m)
      BY <1>5 DEF BlackOn, Weight
    <2> QED
      BY <2>1 DEF Heights
  <1>6. \A m \in nodes : \A t \in Side : child[t][m] # Nil => child[t][m] \in nodes
    BY <1>2 DEF Coherent
  <1>7. \A m \in Node : g[m] = BlackOn(g, "left", m)
    <2>1. ASSUME NEW m \in nodes PROVE g[m] = BlackOn(g, "left", m)
      BY <1>2, <1>4, <1>5, <1>6
    <2>2. ASSUME NEW m \in Node \ nodes PROVE g[m] = BlackOn(g, "left", m)
      BY <1>2, <1>4 DEF BlackOn, Fields
    <2> QED
      BY <2>1, <2>2
  <1>8. P(g)
    BY <1>3, <1>7
  <1>9. P(down)
    <2>1. P(CHOOSE f : P(f))
      <3> HIDE DEF P
      <3> QED
        BY <1>8
    <2> QED
      BY <2>1, Zenon
  <1>10. BlackHeight(n, s) = BlackOn(down, s, n)
    BY Zenon DEF BlackHeight
  <1> HIDE DEF down
  <1>11. \A m \in Node : down[m] = BlackOn(down, "left", m)
    BY <1>9
  <1>12. PICK T : T = {m \in nodes : down[m] # h[m]}
    OBVIOUS
  <1>13. T = {}
    <2> SUFFICES ASSUME T # {} PROVE FALSE
      OBVIOUS
    <2>1. T \in SUBSET nodes
      BY <1>12
    <2>2. PICK m \in T : \A t \in Side : child[t][m] \notin T
      BY <2>1, <1>1, <1>2, LowestNode
    <2>3. m \in nodes /\ m \in Node /\ down[m] # h[m]
      BY <2>2, <1>2, <1>12
    <2>4. child["left"][m] # Nil => down[child["left"][m]] = h[child["left"][m]]
      BY <2>2, <2>3, <1>2, <1>6, <1>12
    <2>5. BlackOn(down, "left", m) = h[m]
      BY <2>3, <2>4, <1>2, <1>5
    <2> QED
      BY <2>3, <2>5, <1>11
  <1> QED
    BY <1>5, <1>6, <1>10, <1>12, <1>13

(* What RedBlack says follows from the labelling. *)
LEMMA InvRedBlack == Inv => RedBlack
  <1> SUFFICES ASSUME Inv PROVE RedBlack
    OBVIOUS
  <1>1. PICK h : Heights(h)
    BY DEF Inv
  <1>2. \A n \in nodes : BlackHeight(n, "left") = BlackHeight(n, "right")
    BY <1>1, SideFacts, BlackHeightIs
  <1>3. color[Nil] = "BLACK"
    BY SideFacts, NodeFacts DEF Inv, Fields
  <1> QED
    BY <1>2, <1>3 DEF Inv, RedsApart, RedBlack

(* Every path has the same number of black nodes, counting the one that is *)
(* missing, and the only red node that may have a red parent is where the  *)
(* fix-up is: rb_insert_fixup and rbtree_delete_fixup never leave a second *)
(* place to repair (rbtree.c:126, 324).                                    *)
THEOREM StaysBalanced == Spec => []RedBlack
  BY InvRedBlack, Invariant, PTL

-----------------------------------------------------------------------------
(* The tree implements a map from addresses to structs. *)

(* What a search finds is the field of the node itself. *)
LEMMA FoundIs == Inv => [k \in Keys |-> Found(k)] = [k \in Keys |-> item[k]]
  <1> SUFFICES ASSUME Inv PROVE [k \in Keys |-> Found(k)] = [k \in Keys |-> item[k]]
    OBVIOUS
  <1>1. ASSUME NEW k \in Keys PROVE Found(k) = item[k]
    <2>1. k \in Node /\ Nil \in Node /\ Nil \notin nodes
      BY SideFacts, NodeFacts DEF Node, Inv
    <2>2. item[Nil] = NULL /\ (k \notin nodes => item[k] = NULL)
      BY <2>1 DEF Inv, Fields
    <2> QED
      BY <2>2, SearchFinds DEF Found
  <1> QED
    BY <1>1

(* The only steps that change what is found *)
LEMMA ItemSteps ==
    ASSUME Inv, [Next]_vars
    PROVE  \/ item' = item
           \/ \E z \in Keys : item[z] # NULL /\ item' = [item EXCEPT ![z] = NULL]
           \/ \E z \in Keys : \E v \in Structs[z] :
                 item[z] = NULL /\ item' = [item EXCEPT ![z] = v]
  <1>1. CASE Link
    <2>1. PICK b : Ordered(b) /\ DescendOK(b)
      BY DEF Inv
    <2>2. op.pc = "descend" /\ op.x = Nil /\ item' = [item EXCEPT ![op.z] = op.val]
      BY <1>1 DEF Link
    <2>3. op.z \in Keys /\ op.val \in Structs[op.z] /\ op.z \notin nodes
      BY <2>1, <2>2 DEF DescendOK, Ordered
    <2>4. item[op.z] = NULL
      BY <2>3 DEF Inv, Fields, Node
    <2> QED
      BY <2>2, <2>3, <2>4
  <1>2. CASE Unlink
    <2>1. op.pc = "successor" /\ item' = [item EXCEPT ![op.z] = NULL]
      BY <1>2 DEF Unlink, Items
    <2>2. op.z \in nodes /\ op.z \in Keys
      BY <2>1, NodeFacts DEF Inv, SuccessorOK
    <2>3. item[op.z] # NULL
      BY <2>2, StructAssumption DEF Inv, Fields
    <2> QED
      BY <2>1, <2>2, <2>3
  <1>3. ASSUME NEW k \in Keys, NEW v \in Structs[k], Insert(k, v) PROVE item' = item
    BY <1>3 DEF Insert, tree
  <1>4. ASSUME NEW z \in Keys, Delete(z) PROVE item' = item
    BY <1>4 DEF Delete, tree
  <1>5. CASE Descend \/ Successor
    BY <1>5 DEF Descend, Successor, tree
  <1>6. CASE InsertFixup
    BY <1>6 DEF InsertFixup
  <1>7. CASE DeleteFixup
    BY <1>7 DEF DeleteFixup
  <1>8. CASE DeleteFixupEnds
    BY <1>8 DEF DeleteFixupEnds
  <1>9. CASE UNCHANGED vars
    BY <1>9 DEF vars, tree
  <1> QED
    BY <1>1, <1>2, <1>3, <1>4, <1>5, <1>6, <1>7, <1>8, <1>9 DEF Next, Step

(***************************************************************************)
(* In the middle of any rotation, fix-up or deletion a search finds every  *)
(* address that is there, with its own struct, and no other; linking and   *)
(* unlinking a node are one change each of what is found (rbtree.c:198).   *)
(***************************************************************************)
THEOREM TreeIsMap == Spec => ImplementsMap
  <1>1. Init => Map!Init
    <2> SUFFICES ASSUME Init PROVE Map!Init
      OBVIOUS
    <2>1. Inv
      BY InitInv
    <2>2. [k \in Keys |-> item[k]] = [k \in Keys |-> NULL]
      BY DEF Init, Node
    <2> QED
      BY <2>1, <2>2, FoundIs DEF Map!Init
  <1>2. Inv /\ Inv' /\ [Next]_vars => [Map!Next]_([k \in Keys |-> Found(k)])
    <2>1. (Inv => [k \in Keys |-> Found(k)] = [k \in Keys |-> item[k]])'
      BY FoundIs, PTL
    <2> SUFFICES ASSUME Inv, Inv', [Next]_vars
                 PROVE  Map!Next \/ [k \in Keys |-> Found(k)]' = [k \in Keys |-> Found(k)]
      OBVIOUS
    <2>2. PICK map : map = [k \in Keys |-> Found(k)]
      OBVIOUS
    <2>3. PICK map1 : map1 = [k \in Keys |-> Found(k)']
      OBVIOUS
    <2>4. map = [k \in Keys |-> item[k]] /\ map1 = [k \in Keys |-> item'[k]]
      BY <2>1, <2>2, <2>3, FoundIs
    <2>5. /\ item \in [Node -> Vals \cup {NULL}] /\ Keys \subseteq Node
      BY DEF Inv, TypeOK, Node
    <2>6. CASE item' = item
      <3>1. map1 = map
        BY <2>4, <2>6
      <3> QED
        BY <3>1, <2>2, <2>3
    <2>7. ASSUME NEW z \in Keys, item[z] # NULL, item' = [item EXCEPT ![z] = NULL]
          PROVE  Map!Next
      <3>1. map[z] # NULL /\ map1 = [map EXCEPT ![z] = NULL]
        BY <2>4, <2>5, <2>7
      <3>2. Map!Delete(z)
        BY <3>1, <2>2, <2>3 DEF Map!Delete
      <3> QED
        BY <3>2 DEF Map!Next
    <2>8. ASSUME NEW z \in Keys, NEW v \in Structs[z], item[z] = NULL,
                 item' = [item EXCEPT ![z] = v]
          PROVE  Map!Next
      <3>1. map[z] = NULL /\ map1 = [map EXCEPT ![z] = v]
        BY <2>4, <2>5, <2>8
      <3>2. Map!Insert(z, v)
        BY <3>1, <2>2, <2>3 DEF Map!Insert
      <3> QED
        BY <3>2 DEF Map!Next
    <2> QED
      BY <2>6, <2>7, <2>8, ItemSteps
  <1> QED
    BY <1>1, <1>2, Invariant, PTL DEF ImplementsMap, Map!Spec, Spec
=============================================================================

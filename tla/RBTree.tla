-------------------------------- MODULE RBTree --------------------------------
(***************************************************************************)
(* common/rbtree.c: the red-black tree that finds a list node by address.  *)
(* in_remote_tree, from_remote_tree and lru_data_tree are such trees.      *)
(*                                                                         *)
(* A step is one iteration of a loop (the descent of rbtree_insert, the    *)
(* search for the successor, either fix-up) or the code between two loops, *)
(* so that the invariants speak about what another thread's search finds   *)
(* in the middle of an operation.  The mirrored halves of the code are one *)
(* action with the side as a parameter.                                    *)
(*                                                                         *)
(* A node is named by its key.  rbtree_delete may move the successor's key *)
(* into the node it was asked to delete and free the successor's; no       *)
(* handler keeps a pointer to a tree node, so that is a node changing its  *)
(* name.                                                                   *)
(***************************************************************************)
EXTENDS Integers, FiniteSets

CONSTANTS
    Keys,      \* addresses
    Structs,   \* for each address, the structs that may come to describe it
    NULL

ASSUME KeyAssumption == Keys \subseteq Nat \ {0} /\ IsFiniteSet(Keys)

ASSUME StructAssumption == \A k \in Keys : NULL \notin Structs[k]

Vals == UNION {Structs[k] : k \in Keys}

Nil == 0                  \* rbtree->nil, whose local_addr is 0

Node == Keys \cup {Nil}

Side == {"left", "right"}

Opposite == [left |-> "right", right |-> "left"]

VARIABLES
    nodes,   \* keys of the nodes that are linked
    root, child, parent, color,
    item,    \* struct_addr
    op       \* the operation under way and its local variables

tree == <<nodes, root, child, parent, color, item>>
vars == <<tree, op>>

(* z: the key to insert, or the node to delete, or the fix-up's node. *)
Op == [pc: {"idle", "descend", "insert_fixup", "successor", "delete_fixup"},
       x: Node, y: Node, z: Node, val: Vals \cup {NULL}]

Idle == [pc |-> "idle", x |-> Nil, y |-> Nil, z |-> Nil, val |-> NULL]

-----------------------------------------------------------------------------
(* Pointers *)

Left(n) == child["left"][n]

Right(n) == child["right"][n]

(* Where n hangs below its parent; the code compares with the left child. *)
SideOf(n) == IF Left(parent[n]) = n THEN "left" ELSE "right"

(* Which way an address goes at node n. *)
Way(k, n) == IF k < n THEN "left" ELSE "right"

(* A rotation that forgets the inner subtree's link to its parent. *)
RotateHalf(x, s) ==
    LET o == Opposite[s]
        y == child[o][x]
        turned == [child EXCEPT ![o][x] = child[s][y], ![s][y] = x]
    IN  /\ IF parent[x] = Nil
           THEN root' = y /\ child' = turned
           ELSE child' = [turned EXCEPT ![SideOf(x)][parent[x]] = y] /\ UNCHANGED root
        /\ parent' = [parent EXCEPT ![x] = y, ![y] = parent[x]]

(***************************************************************************)
(* left_rotate is Rotate(x, "left"), right_rotate Rotate(x, "right"): the  *)
(* child of x on the other side takes its place.                           *)
(***************************************************************************)
Rotate(x, s) ==
    LET o == Opposite[s]
        y == child[o][x]
        inner == child[s][y]
        turned == [child EXCEPT ![o][x] = inner, ![s][y] = x]
    IN  /\ IF parent[x] = Nil
           THEN root' = y /\ child' = turned
           ELSE child' = [turned EXCEPT ![SideOf(x)][parent[x]] = y] /\ UNCHANGED root
        /\ parent' = [n \in Node |-> CASE n = x -> y
                                       [] n = y -> parent[x]
                                       [] n = inner /\ n # Nil -> x
                                       [] OTHER -> parent[n]]

-----------------------------------------------------------------------------
(* rbtree_search, as far as another thread would get at this moment. *)

Search(k) ==
    LET found[n \in Node] ==
            IF n = Nil \/ n = k THEN n ELSE found[child[Way(k, n)][n]]
    IN  found[root]

-----------------------------------------------------------------------------
Init ==
    /\ nodes = {}
    /\ root = Nil
    /\ child = [s \in Side |-> [n \in Node |-> Nil]]
    /\ parent = [n \in Node |-> Nil]
    /\ color = [n \in Node |-> "BLACK"]
    /\ item = [n \in Node |-> NULL]
    /\ op = Idle

(* rbtree_insert *)

Insert(k, v) ==
    /\ op.pc = "idle"
    /\ op' = [Idle EXCEPT !.pc = "descend", !.x = root, !.z = k, !.val = v]
    /\ UNCHANGED tree

(* The loop goes on where the key has been found. *)
DescendWithoutReturn ==
    /\ op.pc = "descend"
    /\ op.x # Nil
    /\ op' = IF op.z = op.x THEN op
             ELSE [op EXCEPT !.y = op.x, !.x = child[Way(op.z, op.x)][op.x]]
    /\ UNCHANGED tree

(* A key that is already there is dropped. *)
Descend ==
    /\ op.pc = "descend"
    /\ op.x # Nil
    /\ op' = IF op.z = op.x THEN Idle
             ELSE [op EXCEPT !.y = op.x, !.x = child[Way(op.z, op.x)][op.x]]
    /\ UNCHANGED tree

(* The two ends of the new link confused. *)
LinkSwapped ==
    /\ op.pc = "descend"
    /\ op.x = Nil
    /\ nodes' = nodes \cup {op.y}
    /\ parent' = [parent EXCEPT ![op.y] = op.z]
    /\ color' = [color EXCEPT ![op.y] = "RED"]
    /\ item' = [item EXCEPT ![op.y] = op.val]
    /\ root' = IF op.y = Nil THEN op.z ELSE root
    /\ op' = [Idle EXCEPT !.pc = "insert_fixup", !.z = op.z]
    /\ UNCHANGED child

Link ==
    /\ op.pc = "descend"
    /\ op.x = Nil
    /\ LET z == op.z
           y == op.y
       IN  /\ nodes' = nodes \cup {z}
           /\ parent' = [parent EXCEPT ![z] = y]
           /\ color' = [color EXCEPT ![z] = "RED"]
           /\ item' = [item EXCEPT ![z] = op.val]
           /\ IF y = Nil
              THEN root' = z /\ UNCHANGED child
              ELSE child' = [child EXCEPT ![Way(z, y)][y] = z] /\ UNCHANGED root
    /\ op' = [Idle EXCEPT !.pc = "insert_fixup", !.z = op.z]

(***************************************************************************)
(* rb_insert_fixup: z is red and perhaps its parent p too, on side s of    *)
(* the grandparent g whose other child is u.                               *)
(***************************************************************************)
InsertFixup ==
    /\ op.pc = "insert_fixup"
    /\ LET z == op.z
           p == parent[z]
           g == parent[p]
           s == SideOf(p)
           o == Opposite[s]
           u == child[o][g]
       IN  \/ /\ color[p] = "RED"
              /\ color[u] = "RED"
              /\ color' = [color EXCEPT ![p] = "BLACK", ![u] = "BLACK", ![g] = "RED"]
              /\ op' = [op EXCEPT !.z = g]
              /\ UNCHANGED <<root, child, parent>>
           \/ /\ color[p] = "RED"
              /\ color[u] = "BLACK"
              /\ z = child[o][p]
              /\ Rotate(p, s)
              /\ op' = [op EXCEPT !.z = p]
              /\ UNCHANGED color
           \/ /\ color[p] = "RED"
              /\ color[u] = "BLACK"
              /\ z # child[o][p]
              /\ color' = [color EXCEPT ![p] = "BLACK", ![g] = "RED"]
              /\ Rotate(g, o)
              /\ UNCHANGED op
           \/ /\ color[p] = "BLACK"
              /\ color' = [color EXCEPT ![root] = "BLACK", ![Nil] = "BLACK"]
              /\ op' = Idle
              /\ UNCHANGED <<root, child, parent>>
    /\ UNCHANGED <<nodes, item>>

-----------------------------------------------------------------------------
(* rbtree_delete *)

(* A node that a search has returned: the handlers delete no other. *)
Delete(z) ==
    /\ op.pc = "idle"
    /\ z \in nodes
    /\ op' = [Idle EXCEPT !.pc = "successor", !.z = z,
                          !.y = IF Left(z) = Nil \/ Right(z) = Nil THEN z ELSE Right(z)]
    /\ UNCHANGED tree

AtSuccessor == op.y = op.z \/ Left(op.y) = Nil

Successor ==
    /\ op.pc = "successor"
    /\ ~AtSuccessor
    /\ op' = [op EXCEPT !.y = Left(@)]
    /\ UNCHANGED tree

(* x hangs below y's parent now, also when x is nil: the fix-up starts there. *)
AboveUnlessNil(x, y) == IF x = Nil THEN parent ELSE [parent EXCEPT ![x] = parent[y]]

Above(x, y) == [parent EXCEPT ![x] = parent[y]]

(* The struct moves with the key. *)
ItemsKeyOnly(z, y) == [item EXCEPT ![y] = item[z], ![z] = NULL]

Items(z, y) == [item EXCEPT ![z] = NULL]

(***************************************************************************)
(* y, which has one child at most, is taken out; x takes its place, nil    *)
(* with a parent if need be.  If y is not z, node z now has the key and    *)
(* the struct of y: here it takes the name y.                              *)
(***************************************************************************)
Unlink ==
    /\ op.pc = "successor"
    /\ AtSuccessor
    /\ LET z == op.z
           y == op.y
           x == IF Left(y) # Nil THEN Left(y) ELSE Right(y)
           below == IF parent[y] = Nil THEN child
                    ELSE [child EXCEPT ![SideOf(y)][parent[y]] = x]
           New(n) == IF n = z THEN y ELSE n
           \* z's fields go with it; the name that is free now has none
           Moved(f, none) == [n \in Node |-> IF n = z THEN none ELSE f[IF n = y THEN z ELSE n]]
           Renamed(f) == [n \in Node |-> IF n = z THEN Nil ELSE New(f[IF n = y THEN z ELSE n])]
       IN  /\ nodes' = nodes \ {z}
           /\ root' = New(IF parent[y] = Nil THEN x ELSE root)
           /\ parent' = Renamed(Above(x, y))
           /\ child' = [s \in Side |-> Renamed(below[s])]
           /\ color' = Moved(color, "BLACK")
           /\ item' = Items(z, y)
           /\ op' = IF color[y] = "BLACK"
                    THEN [Idle EXCEPT !.pc = "delete_fixup", !.x = x]
                    ELSE Idle

(***************************************************************************)
(* rbtree_delete_fixup: x, on side s of p, counts as black twice; w is its *)
(* sibling.                                                                *)
(***************************************************************************)
DeleteFixup ==
    /\ op.pc = "delete_fixup"
    /\ op.x # root /\ color[op.x] = "BLACK"
    /\ LET x == op.x
           p == parent[x]
           s == SideOf(x)
           o == Opposite[s]
           w == child[o][p]
           near == child[s][w]
           far == child[o][w]
       IN  \/ /\ color[w] = "RED"
              /\ color' = [color EXCEPT ![w] = "BLACK", ![p] = "RED"]
              /\ Rotate(p, s)
              /\ UNCHANGED op
           \/ /\ color[w] = "BLACK" /\ color[near] = "BLACK" /\ color[far] = "BLACK"
              /\ color' = [color EXCEPT ![w] = "RED"]
              /\ op' = [op EXCEPT !.x = p]
              /\ UNCHANGED <<root, child, parent>>
           \/ /\ color[w] = "BLACK" /\ color[near] = "RED" /\ color[far] = "BLACK"
              /\ color' = [color EXCEPT ![near] = "BLACK", ![w] = "RED"]
              /\ Rotate(w, o)
              /\ UNCHANGED op
           \/ /\ color[w] = "BLACK" /\ color[far] = "RED"
              /\ color' = [color EXCEPT ![w] = color[p], ![p] = "BLACK", ![far] = "BLACK"]
              /\ Rotate(p, s)
              /\ op' = [op EXCEPT !.x = root']
    /\ UNCHANGED <<nodes, item>>

DeleteFixupEnds ==
    /\ op.pc = "delete_fixup"
    /\ op.x = root \/ color[op.x] = "RED"
    /\ color' = [color EXCEPT ![op.x] = "BLACK"]
    /\ op' = Idle
    /\ UNCHANGED <<nodes, root, child, parent, item>>

-----------------------------------------------------------------------------
Step == Descend \/ Link \/ InsertFixup \/ Successor \/ Unlink \/ DeleteFixup \/ DeleteFixupEnds

Next ==
    \/ \E k \in Keys : \E v \in Structs[k] : Insert(k, v)
    \/ \E z \in Keys : Delete(z)
    \/ Step

Spec == Init /\ [][Next]_vars

(* A thread that is in rbtree_insert or rbtree_delete goes on. *)
FairSpec == Spec /\ WF_vars(Step)
=============================================================================

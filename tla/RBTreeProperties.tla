-------------------------- MODULE RBTreeProperties --------------------------
(* What makes the tree of rbtree.c a search tree that stays shallow. *)
EXTENDS RBTree

TypeOK ==
    /\ nodes \subseteq Keys
    /\ root \in Node
    /\ child \in [Side -> [Node -> Node]]
    /\ parent \in [Node -> Node]
    /\ color \in [Node -> {"RED", "BLACK"}]
    /\ item \in [Node -> Vals \cup {NULL}]
    /\ op \in Op

(***************************************************************************)
(* Both directions of every link agree, at every moment of every rotation, *)
(* fix-up and deletion, and only linked nodes are reached.                 *)
(***************************************************************************)
Coherent ==
    /\ root = Nil <=> nodes = {}
    /\ root # Nil => root \in nodes /\ parent[root] = Nil
    /\ \A n \in nodes : \A s \in Side :
          child[s][n] # Nil => child[s][n] \in nodes /\ parent[child[s][n]] = n
    /\ \A n \in nodes \ {root} :
          parent[n] \in nodes /\ \E s \in Side : child[s][parent[n]] = n
    /\ \A n \in nodes : Left(n) # Nil => Left(n) # Right(n)

-----------------------------------------------------------------------------
(* Node n is the one rbtree_delete_fixup works on, where a black is missing. *)
Short(n) == op.pc = "delete_fixup" /\ op.x = n

Count(b) == IF b THEN 1 ELSE 0

(* Where nil hangs while it is that node: on the side its parent says. *)
Hole(s, n) == Short(Nil) /\ parent[Nil] = n /\ SideOf(Nil) = s

(* The black nodes from c down: c itself, if it is one, one that is missing *)
(* there, and those below.                                                  *)
Weight(blacks, c) == Count(color[c] = "BLACK") + Count(Short(c)) + blacks[c]

(* The black nodes from n's child on side s down. *)
BlackOn(blacks, s, n) ==
    IF child[s][n] = Nil THEN Count(Hole(s, n)) ELSE Weight(blacks, child[s][n])

(* The black nodes from n's child on side s down the left of the tree. *)
BlackHeight(n, s) ==
    LET down[m \in Node] == BlackOn(down, "left", m)
    IN  BlackOn(down, s, n)

(* A red node below a red one, or a red root: where a fix-up is at work. *)
BeingFixed(n) ==
    \/ op.pc = "insert_fixup" /\ op.z = n
    \/ Short(n)
    \/ n # root /\ Short(parent[n])

(***************************************************************************)
(* Every path has the same number of black nodes, and no red node has a    *)
(* red parent, apart from the one place the fix-up has reached: this is    *)
(* what makes it enough to repair that place, and to stop there.           *)
(***************************************************************************)
RedBlack ==
    /\ color[Nil] = "BLACK"
    /\ \A n \in nodes : BlackHeight(n, "left") = BlackHeight(n, "right")
    /\ \A n \in nodes :
          color[n] = "RED" /\ (n = root \/ color[parent[n]] = "RED") => BeingFixed(n)

-----------------------------------------------------------------------------
(* What a search finds, as another thread would see it at this moment. *)
Found(k) == item[Search(k)]

Map == INSTANCE AddressMap WITH map <- [k \in Keys |-> Found(k)]

(***************************************************************************)
(* In the middle of any rotation or fix-up a search finds every address    *)
(* that is there, with its own struct, and no other: linking and           *)
(* unlinking are the only steps that change what is found, and a second    *)
(* node for the same address is dropped (rbtree.c:198).                    *)
(***************************************************************************)
ImplementsMap == Map!Spec

(* rbtree_insert and rbtree_delete come to an end. *)
OperationsEnd == op.pc # "idle" ~> op.pc = "idle"
=============================================================================

------------------------------- MODULE HotList -------------------------------
(***************************************************************************)
(* What list.c promises: the nodes in order of their hot degree, where an  *)
(* operation on one node leaves the others as they were to each other.     *)
(***************************************************************************)
EXTENDS Integers, Sequences

CONSTANT Nodes

VARIABLES order, hot

Members(o) == {o[i] : i \in 1..Len(o)}

Once(o) == \A i, j \in 1..Len(o) : o[i] = o[j] => i = j

Sorted(o, h) == \A i, j \in 1..Len(o) : i < j => h[o[i]] <= h[o[j]]

(* Which node is before which, or the same one: <<a, a>> says that a is in the list. *)
Precedes(o) ==
    {<<o[r[1]], o[r[2]]>> : r \in {q \in (1..Len(o)) \X (1..Len(o)) : q[1] <= q[2]}}

Others(o, n) == {q \in Precedes(o) : q[1] # n /\ q[2] # n}

(* Node n comes, goes, or gets another hot degree. *)
Change(n) ==
    /\ \A m \in Nodes \ {n} : hot'[m] = hot[m]
    /\ Others(order', n) = Others(order, n)
    /\ Once(order')
    /\ Sorted(order', hot')

Init == order = << >>

Insert(n) == n \notin Members(order) /\ n \in Members(order') /\ Change(n)

Delete(n) == n \in Members(order) /\ n \notin Members(order') /\ Change(n)

Update(n) == n \in Members(order) /\ n \in Members(order') /\ Change(n)

Next == \E n \in Nodes : Insert(n) \/ Delete(n) \/ Update(n)

Spec == Init /\ [][Next]_<<order, hot>>
=============================================================================

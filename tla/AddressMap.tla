----------------------------- MODULE AddressMap -----------------------------
(***************************************************************************)
(* What the handlers want of a tree: from the address of a block to the    *)
(* struct that describes it.  An address that is already there keeps its   *)
(* first struct.                                                           *)
(***************************************************************************)
CONSTANTS Keys, Structs, NULL

VARIABLE map

Init == map = [k \in Keys |-> NULL]

Insert(k, v) == map[k] = NULL /\ map' = [map EXCEPT ![k] = v]

Delete(k) == map[k] # NULL /\ map' = [map EXCEPT ![k] = NULL]

Next == \E k \in Keys : Delete(k) \/ \E v \in Structs[k] : Insert(k, v)

Spec == Init /\ [][Next]_map
=============================================================================

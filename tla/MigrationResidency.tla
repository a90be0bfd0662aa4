-------------------------- MODULE MigrationResidency --------------------------
(* The migration protocol implements Residency. *)
EXTENDS MigrationProperties

(* Buffer a of client c is the copy of block b that a message or a node names. *)
Named(c, a, b) ==
    \/ At(c, "toAcc", "CLIENT_DONE") /\ conn[c].blk = b /\ conn[c].buf = a
    \/ in_tree[b] # NULL /\ in_node[in_tree[b]].ip = c /\ in_node[in_tree[b]].raddr = a

Holds(c, b) ==
    \E a \in Bufs : /\ from_remote[c][a].blk = b /\ [buf |-> a, blk |-> b] \in mr[c]
                    /\ Named(c, a, b)

HandedOver(b) == At("main", "toInit", "EVICTED_REQUEST_RET") /\ conn["main"].blk = b

Copies(b) ==
    {p \in {"home"} : home[b] = "data"} \cup {p \in {"disk"} : file[b] = "full"}
    \cup {c \in Clients : Holds(c, b)} \cup {p \in {"way"} : HandedOver(b)}

Reading == {b \in Blocks : fault.pc # "idle" /\ fault.blk = b /\ home[b] # "data"}

R == INSTANCE Residency
    WITH copies <- [b \in Blocks |-> Copies(b)], reading <- Reading

ASSUME PlaceAssumption == {"home", "disk", "way"} \cap Clients = {}

(***************************************************************************)
(* Every handler that touches a block's data does one of the moves of      *)
(* Residency or none: a block is never lost or lent twice, and a page      *)
(* fault brings it back.                                                   *)
(***************************************************************************)
ImplementsResidency == R!FairSpec
=============================================================================

------------------------------ MODULE MCRBTree ------------------------------
(***************************************************************************)
(* Every address comes with a struct of its own.  An address that is there *)
(* already may be inserted again, with another struct.                     *)
(***************************************************************************)
EXTENDS RBTreeProperties

MCStructs == [k \in Keys |-> {k, 10 + k}]

OwnStructFirst ==
    op.pc = "idle" /\ op'.pc = "descend" => op'.val = op'.z \/ op'.z \in nodes

MCSpec == Init /\ [][Next /\ OwnStructFirst]_vars /\ WF_vars(Step)
=============================================================================

------------------------------ MODULE MCBalance ------------------------------
(* Two machines; the first has three blocks, the second one. *)
EXTENDS BalanceProperties, TLC

CONSTANTS m1, m2, b1, b2, b3, b4

MCOwner == (b1 :> m1) @@ (b2 :> m1) @@ (b3 :> m1) @@ (b4 :> m2)
=============================================================================

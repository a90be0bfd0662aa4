--------------------------- MODULE ResidencyProofs ---------------------------
(***************************************************************************)
(* What Residency promises holds for any number of blocks and clients, and *)
(* so for every program that implements it.                                *)
(***************************************************************************)
EXTENDS Residency, TLAPS

Places ==
    {{"home"}, {"disk"}, {"way"}}
    \cup {{c} : c \in Clients} \cup {{"home", c} : c \in Clients}

TypeInv ==
    /\ copies \in [Blocks -> Places]
    /\ reading \subseteq Blocks

(***************************************************************************)
(* A block that leaves home was not waited for, and one that leaves        *)
(* another place does not come home by it.                                 *)
(***************************************************************************)
LEMMA LeaveMoves ==
    ASSUME TypeInv, NEW b \in Blocks, Leave(b)
    PROVE  /\ copies' \in [Blocks -> Places]
           /\ \A d \in Blocks \ {b} : copies'[d] = copies[d]
           /\ "home" \notin copies[b] => "home" \notin copies'[b]
  <1> USE DEF Move
  <1>1. CASE Store(b)
    <2>1. {"disk"} \in Places
      BY DEF Places
    <2> QED
      BY <1>1, <2>1 DEF Store, TypeInv
  <1>2. ASSUME NEW c \in Clients, Lend(b, c)
        PROVE  /\ copies' \in [Blocks -> Places]
               /\ \A d \in Blocks \ {b} : copies'[d] = copies[d]
               /\ "home" \in copies[b]
    <2>1. {"home", c} \in Places
      BY DEF Places
    <2> QED
      BY <1>2, <2>1 DEF Lend, TypeInv
  <1>3. ASSUME NEW c \in Clients, LeaveHome(b, c)
        PROVE  /\ copies' \in [Blocks -> Places]
               /\ \A d \in Blocks \ {b} : copies'[d] = copies[d]
               /\ "home" \in copies[b]
    <2>1. {c} \in Places
      BY DEF Places
    <2> QED
      BY <1>3, <2>1 DEF LeaveHome, TypeInv
  <1>4. ASSUME NEW c \in Clients, HandOver(b, c)
        PROVE  /\ copies' \in [Blocks -> Places]
               /\ \A d \in Blocks \ {b} : copies'[d] = copies[d]
               /\ "home" \notin copies'[b]
    <2>1. {"way"} \in Places
      BY DEF Places
    <2> QED
      BY <1>4, <2>1 DEF HandOver, TypeInv
  <1> QED
    BY <1>1, <1>2, <1>3, <1>4 DEF Leave

LEMMA ArriveMoves ==
    ASSUME TypeInv, NEW b \in Blocks, Arrive(b)
    PROVE  /\ copies' \in [Blocks -> Places]
           /\ \A d \in Blocks \ {b} : copies'[d] = copies[d]
  <1>1. {"home"} \in Places
    BY DEF Places
  <1> QED
    BY <1>1 DEF Arrive, Move, TypeInv

(* TypeInv and ReadersWait are inductive together. *)
LEMMA Inductive == Spec => [](TypeInv /\ ReadersWait)
  <1>1. Init => TypeInv /\ ReadersWait
    BY DEF Init, TypeInv, ReadersWait, Places
  <1>2. TypeInv /\ ReadersWait /\ [Next]_vars => (TypeInv /\ ReadersWait)'
    <2> SUFFICES ASSUME TypeInv, ReadersWait, [Next]_vars PROVE (TypeInv /\ ReadersWait)'
      OBVIOUS
    <2> USE DEF TypeInv, ReadersWait
    <2>1. CASE UNCHANGED vars
      BY <2>1 DEF vars
    <2>2. ASSUME NEW b \in Blocks, Leave(b), UNCHANGED reading PROVE (TypeInv /\ ReadersWait)'
      BY <2>2, LeaveMoves
    <2>3. ASSUME NEW b \in Blocks, Arrive(b), reading' = reading \ {b}
          PROVE  (TypeInv /\ ReadersWait)'
      BY <2>3, ArriveMoves
    <2>4. ASSUME NEW b \in Blocks, Read(b) PROVE (TypeInv /\ ReadersWait)'
      BY <2>4 DEF Read
    <2> QED
      BY <2>1, <2>2, <2>3, <2>4 DEF Next
  <1> QED
    BY <1>1, <1>2, PTL DEF Spec

(***************************************************************************)
(* The data of a block is in one place, or at home and with the client     *)
(* that has fetched a copy: rpc.c and userfaultfd.c release memory only    *)
(* after the copy has been taken.                                          *)
(***************************************************************************)
THEOREM DataIsSomewhere == Spec => []NeverLost
  <1>1. TypeInv => NeverLost
    BY DEF TypeInv, NeverLost, Places
  <1> QED
    BY <1>1, Inductive, PTL

(***************************************************************************)
(* An application is stopped in a page fault only while its block is away: *)
(* whatever brings the block home also wakes the readers.                  *)
(***************************************************************************)
THEOREM NobodyWaitsAtHome == Spec => []ReadersWait
  BY Inductive, PTL
=============================================================================

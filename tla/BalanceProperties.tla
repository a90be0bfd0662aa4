-------------------------- MODULE BalanceProperties --------------------------
(* What run() promises of a cluster in which every machine runs it. *)
EXTENDS Balance

(***************************************************************************)
(* A machine that offers its own blocks hosts none of the others': blocks  *)
(* are not pushed around in a circle.                                      *)
(***************************************************************************)
OffersOrHosts == \A m \in Machines : need_pulled[m] => Hosted(m) = {}

(***************************************************************************)
(* to_ssd writes a block to the slow disk only when no other machine's     *)
(* block is left that could be given back (migrate.c:349).                 *)
(***************************************************************************)
DiskIsLast ==
    [][\A b \in Blocks : place[b] # "disk" /\ place'[b] = "disk" =>
          \A n \in Hosted(Owner[b]) : from_status[n] = "EVICTING"]_vars

(***************************************************************************)
(* The main thread's own requests never free the node it goes on with,     *)
(* unless an earlier request has failed.                                   *)
(***************************************************************************)
Failed == \E b \in Blocks : in_status[b] = "EVICTING" \/ from_status[b] = "EVICTING"

TmpAlive(m) ==
    /\ pc[m] = "take_back" => InList(in_remote[m], tmp[m])
    /\ pc[m] = "shed" => InList(from_remote[m], tmp[m])

OwnStepKeepsTmp ==
    [][\A m \in Machines : Main(m) /\ TmpAlive(m) /\ ~Failed => TmpAlive(m)']_vars

(***************************************************************************)
(* Once the applications' use of memory no longer changes, blocks stop     *)
(* moving: no two machines pass blocks to and fro for ever.                *)
(***************************************************************************)
ComesToRest == <>[][FALSE]_place

(***************************************************************************)
(* The main loop of every machine comes round again and again, except      *)
(* where it spins above T2 (migrate.c:625), waits for a block it does not  *)
(* ask for (migrate.c:599) or goes on with a node that another thread of   *)
(* the program has freed.                                                  *)
(***************************************************************************)
GivesBackNothing(m) ==
    /\ pc[m] = "give_back"
    /\ Hosted(m) # {} /\ \A b \in Hosted(m) : from_status[b] = "EVICTING"

StopsOnlyThere ==
    \A m \in Machines :
        \/ []<>(pc[m] = "top")
        \/ <>[](~up \/ Spinning(m) \/ GivesBackNothing(m) \/ ~TmpAlive(m))
=============================================================================

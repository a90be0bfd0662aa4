------------------------------ MODULE Residency ------------------------------
(***************************************************************************)
(* What migration promises for each block of memory, whatever requests and *)
(* messages it takes: where the copies of the block's data are, and that a *)
(* reader who finds the block away from home gets it back.                 *)
(*                                                                         *)
(* A copy is at home (in the application's memory), on the owner's disk,   *)
(* with a client, or on the way (written by a client into a buffer of the  *)
(* owner, not yet in place).                                               *)
(***************************************************************************)
CONSTANTS Blocks, Clients

VARIABLES
    copies,   \* where the data of each block can be found
    reading   \* blocks that an application waits for

vars == <<copies, reading>>

Init ==
    /\ copies = [b \in Blocks |-> {"home"}]
    /\ reading = {}

Move(b, from, to) ==
    /\ copies[b] = from
    /\ copies' = [copies EXCEPT ![b] = to]

(* A client fetches a copy; only then may the owner release its pages. *)
Lend(b, c) == Move(b, {"home"}, {"home", c})

LeaveHome(b, c) == Move(b, {"home", c}, {c})

Store(b) == Move(b, {"home"}, {"disk"})

(* The client hands its copy over and forgets it. *)
HandOver(b, c) == Move(b, {c}, {"way"})

(* Home again; what a client may still have of the block no longer counts. *)
Arrive(b) ==
    \/ Move(b, {"disk"}, {"home"})
    \/ Move(b, {"way"}, {"home"})
    \/ \E c \in Clients : Move(b, {c}, {"home"})

Read(b) ==
    /\ "home" \notin copies[b]
    /\ reading' = reading \cup {b}
    /\ UNCHANGED copies

Leave(b) == Store(b) \/ \E c \in Clients : Lend(b, c) \/ LeaveHome(b, c) \/ HandOver(b, c)

Next ==
    \E b \in Blocks :
        \/ Leave(b) /\ UNCHANGED reading
        \/ Arrive(b) /\ reading' = reading \ {b}
        \/ Read(b)

Spec == Init /\ [][Next]_vars

(* An application that waits for a block is served. *)
ReadersServed == \A b \in Blocks : b \in reading ~> b \notin reading

FairSpec == Spec /\ ReadersServed

(* The same moves, whoever waits. *)
MoveSpec ==
    /\ copies = [b \in Blocks |-> {"home"}]
    /\ [][\E b \in Blocks : Leave(b) \/ Arrive(b)]_copies

(* The data is somewhere, and with one client at most. *)
NeverLost ==
    \A b \in Blocks :
        \/ copies[b] \in {{"home"}, {"disk"}, {"way"}}
        \/ \E c \in Clients : copies[b] \in {{c}, {"home", c}}

(* Nobody waits for a block that is at home. *)
ReadersWait == \A b \in reading : "home" \notin copies[b]
=============================================================================

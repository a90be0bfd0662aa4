------------------------------ MODULE LinkedList ------------------------------
(***************************************************************************)
(* One of the lists of list.c as its users see it: handlers insert, delete *)
(* and re-sort nodes while another thread walks the list.                  *)
(*                                                                         *)
(* A handler's operation is one step; a walk is one step per node: it is   *)
(* the fault thread's search of lru_data (userfaultfd.c:166), and those of *)
(* get_next_pulled_data and to_ssd.                                        *)
(***************************************************************************)
EXTENDS Lists

CONSTANT Hot      \* hot degrees: rand() in the code

ASSUME HotAssumption == Hot \subseteq Nat /\ Hot # {}

VARIABLES
    list,
    hot,
    walk     \* the node a walk stands on, what it looks for, and whether
             \* either has been moved or freed meanwhile

vars == <<list, hot, walk>>

NoWalk == [at |-> NULL, for |-> NULL, disturbed |-> FALSE, outcome |-> "none"]

(* The list's nodes are those that a handler has inserted and not deleted. *)
Listed == {n \in Nodes : list.pre[n] # NULL}

Walking == walk.at # NULL

Disturb(n) ==
    walk' = [walk EXCEPT !.disturbed = @ \/ (Walking /\ n \in {walk.at, walk.for})]

Init ==
    /\ list = EmptyList
    /\ hot \in [Nodes -> {CHOOSE h \in Hot : TRUE}]
    /\ walk = NoWalk

(* A new node is added at the tail and sorted in (rpc.c:606, 840). *)
Insert(n, h) ==
    /\ n \notin Listed
    /\ hot' = [hot EXCEPT ![n] = h]
    /\ list' = Sorting(AddToTail(list, n), hot', n)
    /\ UNCHANGED walk

(* update_lru_data *)
Update(n, h) ==
    /\ n \in Listed
    /\ hot' = [hot EXCEPT ![n] = h]
    /\ list' = Sorting(list, hot', n)
    /\ IF list' = list THEN UNCHANGED walk ELSE Disturb(n)

Delete(n) ==
    /\ n \in Listed
    /\ list' = Del(list, n)
    /\ Disturb(n)
    /\ UNCHANGED hot

StartWalk(n) ==
    /\ ~Walking
    /\ n \in Listed
    /\ walk' = [NoWalk EXCEPT !.at = ListHead, !.for = n]
    /\ UNCHANGED <<list, hot>>

(* Plausible bug: the walk ends at the last node without comparing it. *)
HopShort ==
    /\ Walking
    /\ LET n == list.next[walk.at] IN
       walk' = CASE n = NULL \/ n = list.tail -> [walk EXCEPT !.at = NULL, !.outcome = "missed"]
                 [] n = walk.for -> [walk EXCEPT !.at = NULL, !.outcome = "found"]
                 [] OTHER -> [walk EXCEPT !.at = n]
    /\ UNCHANGED <<list, hot>>

Hop ==
    /\ Walking
    /\ LET n == list.next[walk.at] IN
       walk' = CASE n = NULL -> [walk EXCEPT !.at = NULL, !.outcome = "missed"]
                 [] n = walk.for -> [walk EXCEPT !.at = NULL, !.outcome = "found"]
                 [] OTHER -> [walk EXCEPT !.at = n]
    /\ UNCHANGED <<list, hot>>

Next ==
    \/ \E n \in Nodes : \/ \E h \in Hot : Insert(n, h) \/ Update(n, h)
                        \/ Delete(n)
                        \/ StartWalk(n)
    \/ Hop

Spec == Init /\ [][Next]_vars

-----------------------------------------------------------------------------
(***************************************************************************)
(* The list is the same read from either end: the walks from the tail      *)
(* (evict_data, evicted_data) see what the walks from the head see.        *)
(***************************************************************************)
BothWays ==
    LET s == Order(list) IN
    /\ {s[i] : i \in DOMAIN s} = Listed
    /\ list.tail = IF s = << >> THEN ListHead ELSE s[Len(s)]
    /\ \A i \in DOMAIN s : list.pre[s[i]] = IF i = 1 THEN ListHead ELSE s[i - 1]

(***************************************************************************)
(* Whatever handlers insert, delete and re-sort, the list stays in order   *)
(* and each operation moves one node only.                                 *)
(***************************************************************************)
H == INSTANCE HotList WITH order <- Order(list)

ImplementsHotList == H!Spec

(***************************************************************************)
(* A walk that misses the node it looks for, which is what leaves a        *)
(* faulting application waiting for ever, has been carried past it: the    *)
(* node it stood on, or the one it looked for, was moved meanwhile.        *)
(* Insertions, deletions and moves elsewhere in the list do no harm.       *)
(***************************************************************************)
MissedOnlyIfMoved == walk.outcome = "missed" => walk.disturbed
=============================================================================

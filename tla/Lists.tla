-------------------------------- MODULE Lists --------------------------------
(***************************************************************************)
(* common/list.c: doubly linked lists that begin with a head node and are  *)
(* kept in order of a hot degree, the hottest node at the tail.  in_remote *)
(* (where it is called operate_num), from_remote and lru_data are such     *)
(* lists; the functions for the three differ in names only.                *)
(***************************************************************************)
EXTENDS Integers, Sequences

CONSTANTS
    Nodes,    \* the structs that may be in the list
    ListHead,     \* the head node, whose hot degree is -1
    NULL

ASSUME HeadAssumption == ListHead \notin Nodes /\ NULL \notin Nodes \cup {ListHead}

Pointer == Nodes \cup {ListHead, NULL}

List == [next : [Nodes \cup {ListHead} -> Pointer],
         pre  : [Nodes \cup {ListHead} -> Pointer],
         tail : Nodes \cup {ListHead}]

(* init_list, lru_data_init *)
EmptyList == [next |-> [n \in Nodes \cup {ListHead} |-> NULL],
              pre  |-> [n \in Nodes \cup {ListHead} |-> NULL],
              tail |-> ListHead]

Degree(hot, n) == IF n = ListHead THEN -1 ELSE hot[n]

AddToTail(l, n) ==
    [next |-> [l.next EXCEPT ![n] = NULL, ![l.tail] = n],
     pre  |-> [l.pre EXCEPT ![n] = l.tail],
     tail |-> n]

-----------------------------------------------------------------------------
(***************************************************************************)
(* in_remote_sorting and its two copies: a node whose hot degree has       *)
(* changed is moved towards the tail past colder nodes, or else towards    *)
(* the head past hotter ones.                                              *)
(***************************************************************************)
LastColder(l, hot, n) ==
    LET last[t \in Nodes] ==
            IF l.next[t] # NULL /\ hot[n] > hot[l.next[t]] THEN last[l.next[t]] ELSE t
    IN  last[n]

(* Plausible bug: one hop, where the code loops. *)
FirstHotterOneHop(l, hot, n) == l.pre[n]

FirstHotter(l, hot, n) ==
    LET first[t \in {m \in Nodes : l.pre[m] # NULL}] ==
            IF hot[n] < Degree(hot, l.pre[t]) THEN first[l.pre[t]] ELSE t
    IN  first[n]

(* Plausible bug: t was the tail, and still is. *)
MoveBehindTailKept(l, n, t) ==
    LET above == [l.pre EXCEPT ![l.next[n]] = l.pre[n], ![n] = t] IN
    [next |-> [l.next EXCEPT ![l.pre[n]] = l.next[n], ![n] = l.next[t], ![t] = n],
     pre  |-> IF t = l.tail THEN above ELSE [above EXCEPT ![l.next[t]] = n],
     tail |-> l.tail]

(* n, which is not the tail, goes behind t. *)
MoveBehind(l, n, t) ==
    LET above == [l.pre EXCEPT ![l.next[n]] = l.pre[n], ![n] = t] IN
    [next |-> [l.next EXCEPT ![l.pre[n]] = l.next[n], ![n] = l.next[t], ![t] = n],
     pre  |-> IF t = l.tail THEN above ELSE [above EXCEPT ![l.next[t]] = n],
     tail |-> IF t = l.tail THEN n ELSE l.tail]

(* n goes in front of t. *)
MoveBefore(l, n, t) ==
    LET above == IF n = l.tail THEN l.pre ELSE [l.pre EXCEPT ![l.next[n]] = l.pre[n]] IN
    [next |-> [l.next EXCEPT ![l.pre[n]] = l.next[n], ![n] = t, ![l.pre[t]] = n],
     pre  |-> [above EXCEPT ![n] = l.pre[t], ![t] = n],
     tail |-> IF n = l.tail THEN l.pre[n] ELSE l.tail]

Sorting(l, hot, n) ==
    IF l.next[n] # NULL /\ hot[n] > hot[l.next[n]] THEN MoveBehind(l, n, LastColder(l, hot, n))
    ELSE IF hot[n] < Degree(hot, l.pre[n]) THEN MoveBefore(l, n, FirstHotter(l, hot, n))
    ELSE l

-----------------------------------------------------------------------------
(* del_in_remote_node and its two copies; the node is freed afterwards. *)
Del(l, n) ==
    LET p == l.pre[n]
        s == l.next[n]
        freed(f) == [f EXCEPT ![n] = NULL]
    IN  IF n = l.tail
        THEN [next |-> freed([l.next EXCEPT ![p] = NULL]), pre |-> freed(l.pre), tail |-> p]
        ELSE [next |-> freed([l.next EXCEPT ![p] = s]), pre |-> freed([l.pre EXCEPT ![s] = p]),
              tail |-> l.tail]

(* The nodes from the head on, in order. *)
Order(l) ==
    LET from[n \in Nodes \cup {ListHead}] ==
            IF l.next[n] = NULL THEN << >> ELSE <<l.next[n]>> \o from[l.next[n]]
    IN  from[ListHead]
=============================================================================

----------------------------- MODULE ListsProofs -----------------------------
(***************************************************************************)
(* The lists of list.c, for any number of nodes.                           *)
(*                                                                         *)
(* First, each pointer operation leaves the links of both directions in    *)
(* agreement, and lists or unlists just the node it is about.  Second,     *)
(* whatever handlers insert, delete and re-sort, the nodes of a list can   *)
(* be numbered from the head on so that next and pre follow the numbers    *)
(* and the hot degrees rise with them.                                     *)
(***************************************************************************)
EXTENDS Lists, WellFoundedInduction, TLAPS

AllNodes == Nodes \cup {ListHead}

In(l) == {n \in Nodes : l.pre[n] # NULL}

Linked(l) ==
    /\ l \in List
    /\ l.pre[ListHead] = NULL
    /\ \A n \in AllNodes : l.next[n] # NULL => l.next[n] \in Nodes /\ l.pre[l.next[n]] = n
    /\ \A n \in In(l) : l.pre[n] \in In(l) \cup {ListHead} /\ l.next[l.pre[n]] = n
    /\ \A n \in Nodes : l.pre[n] = NULL => l.next[n] = NULL
    /\ l.tail \in In(l) \cup {ListHead}
    /\ \A n \in In(l) \cup {ListHead} : l.next[n] = NULL <=> n = l.tail

(***************************************************************************)
(* init_list and lru_data_init (list.c:261, migrate.c:447): a list with no *)
(* node but its head is linked.                                            *)
(***************************************************************************)
THEOREM EmptyLinked == Linked(EmptyList) /\ In(EmptyList) = {}
  <1>1. /\ EmptyList \in List
        /\ \A n \in AllNodes : EmptyList.next[n] = NULL /\ EmptyList.pre[n] = NULL
        /\ EmptyList.tail = ListHead
    BY DEF EmptyList, List, Pointer, AllNodes
  <1> QED
    BY <1>1, HeadAssumption DEF Linked, In, AllNodes

(***************************************************************************)
(* add_in_remote_node_to_tail and its copies: a node that is not in the    *)
(* list becomes its tail (list.c:159).                                     *)
(***************************************************************************)
THEOREM AddKeepsLinks ==
    ASSUME NEW l, Linked(l), NEW n \in Nodes, n \notin In(l)
    PROVE  /\ Linked(AddToTail(l, n))
           /\ In(AddToTail(l, n)) = In(l) \cup {n}
           /\ AddToTail(l, n).tail = n
  <1> DEFINE k == AddToTail(l, n)
  <1>1. /\ l.next \in [AllNodes -> Pointer] /\ l.pre \in [AllNodes -> Pointer]
        /\ l.tail \in AllNodes
        /\ n \in AllNodes /\ n # l.tail /\ n # ListHead /\ n \in Pointer /\ l.tail \in Pointer
        /\ NULL \in Pointer /\ l.tail # NULL
    BY HeadAssumption DEF Linked, List, AllNodes, Pointer
  <1>2. /\ k \in List
        /\ k.next = [l.next EXCEPT ![n] = NULL, ![l.tail] = n]
        /\ k.pre = [l.pre EXCEPT ![n] = l.tail]
        /\ k.tail = n
    BY <1>1 DEF AddToTail, List, AllNodes
  <1> HIDE DEF k
  <1>3. /\ k.next[n] = NULL /\ k.next[l.tail] = n
        /\ \A p \in AllNodes \ {n, l.tail} : k.next[p] = l.next[p]
        /\ k.pre[n] = l.tail
        /\ \A p \in AllNodes \ {n} : k.pre[p] = l.pre[p]
    BY <1>1, <1>2
  <1>4. In(k) = In(l) \cup {n}
    BY <1>1, <1>3 DEF In, AllNodes
  <1>5. \A p \in AllNodes : k.next[p] # NULL => k.next[p] \in Nodes /\ k.pre[k.next[p]] = p
    BY <1>1, <1>3, HeadAssumption DEF Linked, In, AllNodes
  <1>6. \A p \in In(k) : k.pre[p] \in In(k) \cup {ListHead} /\ k.next[k.pre[p]] = p
    BY <1>1, <1>3, <1>4, HeadAssumption DEF Linked, In, AllNodes
  <1>7. \A p \in In(k) \cup {ListHead} : k.next[p] = NULL <=> p = k.tail
    BY <1>1, <1>2, <1>3, <1>4, HeadAssumption DEF Linked, In, AllNodes
  <1>8. k.pre[ListHead] = NULL /\ \A p \in Nodes : k.pre[p] = NULL => k.next[p] = NULL
    BY <1>1, <1>3, HeadAssumption DEF Linked, In, AllNodes
  <1> QED
    BY <1>2, <1>4, <1>5, <1>6, <1>7, <1>8 DEF Linked, k

(***************************************************************************)
(* del_in_remote_node and its copies unlink one node and no other          *)
(* (list.c:194), also when it is the tail.                                 *)
(***************************************************************************)
THEOREM DelKeepsLinks ==
    ASSUME NEW l, Linked(l), NEW n \in In(l)
    PROVE  Linked(Del(l, n)) /\ In(Del(l, n)) = In(l) \ {n}
  <1> DEFINE k == Del(l, n)
             p == l.pre[n]
             s == l.next[n]
  <1>1. /\ l.next \in [AllNodes -> Pointer] /\ l.pre \in [AllNodes -> Pointer]
        /\ l.tail \in AllNodes
        /\ n \in AllNodes /\ n \in Nodes /\ n # ListHead /\ NULL \in Pointer
        /\ p \in In(l) \cup {ListHead} /\ p \in AllNodes /\ l.next[p] = n
        /\ s \in Pointer
    BY HeadAssumption DEF Linked, List, AllNodes, Pointer, In
  <1>2. CASE n = l.tail
    <2>1. s = NULL
      BY <1>2 DEF Linked
    <2>2. /\ k \in List
          /\ k.next = [[l.next EXCEPT ![p] = NULL] EXCEPT ![n] = NULL]
          /\ k.pre = [l.pre EXCEPT ![n] = NULL]
          /\ k.tail = p
      BY <1>1, <1>2 DEF Del, List, AllNodes
    <2> HIDE DEF k
    <2>3. /\ k.next[n] = NULL /\ k.next[p] = NULL
          /\ \A q \in AllNodes \ {n, p} : k.next[q] = l.next[q]
          /\ k.pre[n] = NULL
          /\ \A q \in AllNodes \ {n} : k.pre[q] = l.pre[q]
      BY <1>1, <2>2
    <2>4. In(k) = In(l) \ {n}
      BY <1>1, <2>3 DEF In, AllNodes
    <2>5. p # n
      BY <1>1, <2>1, HeadAssumption DEF Linked, In, AllNodes
    <2>6. \A q \in AllNodes : k.next[q] # NULL => k.next[q] \in Nodes /\ k.pre[k.next[q]] = q
      BY <1>1, <2>3, <2>5 DEF Linked, In, AllNodes
    <2>7. \A q \in In(k) : k.pre[q] \in In(k) \cup {ListHead} /\ k.next[k.pre[q]] = q
      <3> SUFFICES ASSUME NEW q \in In(k)
                   PROVE  k.pre[q] \in In(k) \cup {ListHead} /\ k.next[k.pre[q]] = q
        OBVIOUS
      <3>1. q \in In(l) /\ q # n /\ q \in AllNodes /\ k.pre[q] = l.pre[q]
        BY <2>3, <2>4 DEF In, AllNodes
      <3>2. l.pre[q] \in In(l) \cup {ListHead} /\ l.next[l.pre[q]] = q /\ l.pre[q] \in AllNodes
        BY <3>1 DEF Linked, In, AllNodes
      <3>3. l.pre[q] # n /\ l.pre[q] # p
        BY <3>1, <3>2, <1>1, <2>1, HeadAssumption DEF In
      <3> QED
        BY <3>1, <3>2, <3>3, <2>3, <2>4
    <2>8. \A q \in In(k) \cup {ListHead} : k.next[q] = NULL <=> q = k.tail
      BY <1>1, <1>2, <2>2, <2>3, <2>4, <2>5 DEF Linked, In, AllNodes
    <2>9. /\ k.pre[ListHead] = NULL /\ k.tail \in In(k) \cup {ListHead}
          /\ \A q \in Nodes : k.pre[q] = NULL => k.next[q] = NULL
      BY <1>1, <2>2, <2>3, <2>4, <2>5 DEF Linked, In, AllNodes
    <2> QED
      BY <2>2, <2>4, <2>6, <2>7, <2>8, <2>9 DEF Linked, k
  <1>3. CASE n # l.tail
    <2>1. s \in Nodes /\ l.pre[s] = n /\ s # NULL /\ s \in AllNodes
      BY <1>1, <1>3 DEF Linked, AllNodes
    <2>2. /\ k \in List
          /\ k.next = [[l.next EXCEPT ![p] = s] EXCEPT ![n] = NULL]
          /\ k.pre = [[l.pre EXCEPT ![s] = p] EXCEPT ![n] = NULL]
          /\ k.tail = l.tail
      BY <1>1, <1>3, <2>1 DEF Del, List, AllNodes, Pointer
    <2> HIDE DEF k
    <2>3. /\ k.next[n] = NULL /\ k.pre[n] = NULL
          /\ p # n => k.next[p] = s
          /\ s # n => k.pre[s] = p
          /\ \A q \in AllNodes \ {n, p} : k.next[q] = l.next[q]
          /\ \A q \in AllNodes \ {n, s} : k.pre[q] = l.pre[q]
      BY <1>1, <2>1, <2>2
    <2>4. In(k) = In(l) \ {n}
      <3>1. p # NULL /\ s \in In(l)
        BY <1>1, <2>1, HeadAssumption DEF In, AllNodes
      <3> QED
        BY <1>1, <2>1, <2>3, <3>1, HeadAssumption DEF In, AllNodes
    <2>5. (p = n <=> s = n) /\ s \in In(l)
      BY <1>1, <2>1, HeadAssumption DEF Linked, In, AllNodes
    <2>6. \A q \in AllNodes : k.next[q] # NULL => k.next[q] \in Nodes /\ k.pre[k.next[q]] = q
      <3> SUFFICES ASSUME NEW q \in AllNodes, k.next[q] # NULL
                   PROVE  k.next[q] \in Nodes /\ k.pre[k.next[q]] = q
        OBVIOUS
      <3>1. q # n
        BY <2>3
      <3>2. CASE q = p
        BY <3>1, <3>2, <2>1, <2>3, <2>5
      <3>3. CASE q # p
        <4>1. k.next[q] = l.next[q] /\ l.next[q] \in Nodes /\ l.pre[l.next[q]] = q
          BY <3>1, <3>3, <2>3 DEF Linked
        <4>2. l.next[q] # n /\ l.next[q] # s /\ l.next[q] \in AllNodes
          BY <4>1, <3>1, <3>3, <2>1 DEF AllNodes
        <4> QED
          BY <4>1, <4>2, <2>3
      <3> QED
        BY <3>2, <3>3
    <2>7. \A q \in In(k) : k.pre[q] \in In(k) \cup {ListHead} /\ k.next[k.pre[q]] = q
      <3> SUFFICES ASSUME NEW q \in In(k)
                   PROVE  k.pre[q] \in In(k) \cup {ListHead} /\ k.next[k.pre[q]] = q
        OBVIOUS
      <3>1. q \in In(l) /\ q # n /\ q \in AllNodes
        BY <2>4 DEF In, AllNodes
      <3>2. l.pre[q] \in In(l) \cup {ListHead} /\ l.next[l.pre[q]] = q /\ l.pre[q] \in AllNodes
        BY <3>1 DEF Linked, In, AllNodes
      <3>3. CASE q = s
        BY <3>1, <3>3, <1>1, <2>3, <2>4, <2>5
      <3>4. CASE q # s
        <4>1. k.pre[q] = l.pre[q] /\ l.pre[q] # n /\ l.pre[q] # p
          BY <3>1, <3>2, <3>4, <1>1, <2>3
        <4> QED
          BY <4>1, <3>2, <2>3, <2>4
      <3> QED
        BY <3>3, <3>4
    <2>8. \A q \in In(k) \cup {ListHead} : k.next[q] = NULL <=> q = k.tail
      <3> SUFFICES ASSUME NEW q \in In(k) \cup {ListHead}
                   PROVE  k.next[q] = NULL <=> q = k.tail
        OBVIOUS
      <3>1. q \in In(l) \cup {ListHead} /\ q # n /\ q \in AllNodes
        BY <2>4, <1>1 DEF In, AllNodes
      <3>2. l.next[q] = NULL <=> q = l.tail
        BY <3>1 DEF Linked
      <3>3. CASE q = p
        BY <3>1, <3>2, <3>3, <1>1, <2>1, <2>2, <2>3, HeadAssumption
      <3>4. CASE q # p
        BY <3>1, <3>2, <3>4, <2>2, <2>3
      <3> QED
        BY <3>3, <3>4
    <2>9. /\ k.pre[ListHead] = NULL /\ k.tail \in In(k) \cup {ListHead}
          /\ \A q \in Nodes : k.pre[q] = NULL => k.next[q] = NULL
      <3>1. l.pre[ListHead] = NULL /\ ListHead \in AllNodes /\ ListHead # s
        BY <2>1, HeadAssumption DEF Linked, AllNodes
      <3>2. k.pre[ListHead] = NULL
        BY <3>1, <1>1, <2>3
      <3>3. k.tail \in In(k) \cup {ListHead}
        BY <1>3, <2>2, <2>4 DEF Linked
      <3>4. ASSUME NEW q \in Nodes, k.pre[q] = NULL PROVE k.next[q] = NULL
        <4>1. CASE q = n
          BY <4>1, <2>3
        <4>2. CASE q # n
          <5>1. q \notin In(l)
            BY <3>4, <4>2, <2>4 DEF In
          <5>2. l.next[q] = NULL /\ q # p /\ q \in AllNodes
            BY <5>1, <1>1, HeadAssumption DEF Linked, In, AllNodes
          <5> QED
            BY <5>2, <4>2, <2>3
        <4> QED
          BY <4>1, <4>2
      <3> QED
        BY <3>2, <3>3, <3>4
    <2> QED
      BY <2>2, <2>4, <2>6, <2>7, <2>8, <2>9 DEF Linked, k
  <1> QED
    BY <1>2, <1>3

-----------------------------------------------------------------------------
(* The order of the nodes, as their distance from the head. *)
Distances(l, far) ==
    far \in [AllNodes -> Nat] /\ \A m \in In(l) : far[l.pre[m]] < far[m]

(***************************************************************************)
(* in_remote_sorting and its copies towards the tail (list.c:21): a node   *)
(* that is taken out and put behind a later one, also behind the tail,     *)
(* leaves the same nodes linked in both directions.                        *)
(***************************************************************************)
THEOREM MoveBehindKeepsLinks ==
    ASSUME NEW l, Linked(l), NEW far, Distances(l, far),
           NEW n \in In(l), NEW t \in In(l), n # l.tail, far[n] < far[t]
    PROVE  Linked(MoveBehind(l, n, t)) /\ In(MoveBehind(l, n, t)) = In(l)
  <1> DEFINE k == MoveBehind(l, n, t)
             p == l.pre[n]
             s == l.next[n]
             x == l.next[t]
  <1>1. /\ l.next \in [AllNodes -> Pointer] /\ l.pre \in [AllNodes -> Pointer]
        /\ l.tail \in AllNodes
        /\ n \in AllNodes /\ n \in Nodes /\ n # ListHead /\ n # NULL
        /\ t \in AllNodes /\ t \in Nodes /\ t # ListHead /\ t # NULL
        /\ p \in In(l) \cup {ListHead} /\ p \in AllNodes /\ l.next[p] = n /\ p # NULL
        /\ s \in Pointer /\ x \in Pointer /\ ListHead \notin Nodes /\ NULL \notin Nodes
    BY HeadAssumption DEF Linked, List, AllNodes, Pointer, In
  <1>2. /\ s \in In(l) /\ s \in Nodes /\ s \in AllNodes /\ l.pre[s] = n
        /\ x = NULL <=> t = l.tail
        /\ t # l.tail => x \in In(l) /\ x \in Nodes /\ x \in AllNodes /\ l.pre[x] = t
    BY <1>1 DEF Linked, In, AllNodes
  <1>3. p # n /\ p # t /\ t # n /\ x # n /\ s # n /\ s # x
    <2>1. far \in [AllNodes -> Nat] /\ \A m \in In(l) : far[l.pre[m]] < far[m]
      BY DEF Distances
    <2>2. far[p] < far[n] /\ far[n] < far[s] /\ far[p] \in Nat /\ far[n] \in Nat /\ far[t] \in Nat
      BY <1>1, <1>2, <2>1
    <2>3. x # NULL => far[t] < far[x] /\ far[x] \in Nat
      BY <1>2, <2>1
    <2> QED
      BY <1>1, <1>2, <2>2, <2>3
  <1>4. /\ k \in List
        /\ k.next = [[[l.next EXCEPT ![p] = s] EXCEPT ![n] = x] EXCEPT ![t] = n]
        /\ t = l.tail => k.pre = [[l.pre EXCEPT ![s] = p] EXCEPT ![n] = t] /\ k.tail = n
        /\ t # l.tail => /\ k.pre = [[[l.pre EXCEPT ![s] = p] EXCEPT ![n] = t] EXCEPT ![x] = n]
                         /\ k.tail = l.tail
    BY <1>1, <1>2 DEF MoveBehind, List, AllNodes, Pointer
  <1> HIDE DEF k
  <1>5. /\ k.next[p] = s /\ k.next[n] = x /\ k.next[t] = n
        /\ \A q \in AllNodes \ {p, n, t} : k.next[q] = l.next[q]
        /\ k.pre[s] = p /\ k.pre[n] = t /\ (t # l.tail => k.pre[x] = n)
        /\ \A q \in AllNodes \ {s, n, x} : k.pre[q] = l.pre[q]
    BY <1>1, <1>2, <1>3, <1>4
  <1> HIDE DEF p, s, x
  <1>6. In(k) = In(l)
    BY <1>1, <1>2, <1>5 DEF In, AllNodes
  <1>7. \A q \in AllNodes : k.next[q] # NULL => k.next[q] \in Nodes /\ k.pre[k.next[q]] = q
    <2> SUFFICES ASSUME NEW q \in AllNodes, k.next[q] # NULL
                 PROVE  k.next[q] \in Nodes /\ k.pre[k.next[q]] = q
      OBVIOUS
    <2>1. CASE q \in {p, n, t}
      BY <2>1, <1>1, <1>2, <1>3, <1>5
    <2>2. CASE q \notin {p, n, t}
      <3>1. k.next[q] = l.next[q] /\ l.next[q] \in Nodes /\ l.pre[l.next[q]] = q
        BY <2>2, <1>5 DEF Linked
      <3>2. l.next[q] \notin {s, n, x} /\ l.next[q] \in AllNodes
        BY <2>2, <3>1, <1>2 DEF p, AllNodes
      <3> QED
        BY <3>1, <3>2, <1>5
    <2> QED
      BY <2>1, <2>2
  <1>8. \A q \in In(k) : k.pre[q] \in In(k) \cup {ListHead} /\ k.next[k.pre[q]] = q
    <2> SUFFICES ASSUME NEW q \in In(l)
                 PROVE  k.pre[q] \in In(l) \cup {ListHead} /\ k.next[k.pre[q]] = q
      BY <1>6
    <2>1. CASE q \in {s, n, x}
      BY <2>1, <1>1, <1>2, <1>5 DEF In
    <2>2. CASE q \notin {s, n, x}
      <3>1. q \in AllNodes /\ l.pre[q] \in In(l) \cup {ListHead} /\ l.next[l.pre[q]] = q
        BY DEF Linked, In, AllNodes
      <3>2. k.pre[q] = l.pre[q] /\ l.pre[q] \notin {p, n, t} /\ l.pre[q] \in AllNodes
        BY <2>2, <3>1, <1>1, <1>5 DEF s, x, In, AllNodes
      <3> QED
        BY <3>1, <3>2, <1>5
    <2> QED
      BY <2>1, <2>2
  <1>9. \A q \in In(k) \cup {ListHead} : k.next[q] = NULL <=> q = k.tail
    <2> SUFFICES ASSUME NEW q \in In(l) \cup {ListHead}
                 PROVE  k.next[q] = NULL <=> q = k.tail
      BY <1>6
    <2>1. q \in AllNodes /\ (l.next[q] = NULL <=> q = l.tail)
      BY DEF Linked, In, AllNodes
    <2>2. CASE q \in {p, n, t}
      BY <2>1, <2>2, <1>1, <1>2, <1>3, <1>4, <1>5
    <2>3. CASE q \notin {p, n, t}
      BY <2>1, <2>3, <1>4, <1>5
    <2> QED
      BY <2>2, <2>3
  <1>10. k.tail \in In(k) \cup {ListHead}
    BY <1>4, <1>6 DEF Linked
  <1>11. k.pre[ListHead] = NULL
    <2>1. ListHead \in AllNodes /\ ListHead # x
      BY <1>1, <1>2, HeadAssumption DEF AllNodes
    <2> QED
      BY <2>1, <1>1, <1>2, <1>5 DEF Linked
  <1>12. \A q \in Nodes : k.pre[q] = NULL => k.next[q] = NULL
    <2> SUFFICES ASSUME NEW q \in Nodes, q \notin In(l) PROVE k.next[q] = NULL
      BY <1>6 DEF In
    <2>1. l.next[q] = NULL /\ q \notin {p, n, t} /\ q \in AllNodes
      BY <1>1 DEF Linked, In, AllNodes
    <2> QED
      BY <2>1, <1>5
  <1> QED
    BY <1>4, <1>6, <1>7, <1>8, <1>9, <1>10, <1>11, <1>12 DEF Linked, k

(***************************************************************************)
(* The same towards the head (list.c:37), where the node that moves may be *)
(* the tail and the one it is put before the first.                        *)
(***************************************************************************)
THEOREM MoveBeforeKeepsLinks ==
    ASSUME NEW l, Linked(l), NEW far, Distances(l, far),
           NEW n \in In(l), NEW t \in In(l), far[t] < far[n]
    PROVE  Linked(MoveBefore(l, n, t)) /\ In(MoveBefore(l, n, t)) = In(l)
  <1> DEFINE k == MoveBefore(l, n, t)
             p == l.pre[n]
             s == l.next[n]
             g == l.pre[t]
  <1>1. /\ l.next \in [AllNodes -> Pointer] /\ l.pre \in [AllNodes -> Pointer]
        /\ l.tail \in AllNodes
        /\ n \in AllNodes /\ n \in Nodes /\ n # ListHead /\ n # NULL
        /\ t \in AllNodes /\ t \in Nodes /\ t # ListHead /\ t # NULL
        /\ p \in In(l) \cup {ListHead} /\ p \in AllNodes /\ l.next[p] = n /\ p # NULL
        /\ g \in In(l) \cup {ListHead} /\ g \in AllNodes /\ l.next[g] = t /\ g # NULL
        /\ s \in Pointer /\ ListHead \notin Nodes /\ NULL \notin Nodes
    BY HeadAssumption DEF Linked, List, AllNodes, Pointer, In
  <1>2. /\ s = NULL <=> n = l.tail
        /\ n # l.tail => s \in In(l) /\ s \in Nodes /\ s \in AllNodes /\ l.pre[s] = n
    BY <1>1 DEF Linked, In, AllNodes
  <1>3. p # n /\ g # n /\ g # p /\ g # t /\ t # n /\ s # n /\ s # t
    <2>1. far \in [AllNodes -> Nat] /\ \A m \in In(l) : far[l.pre[m]] < far[m]
      BY DEF Distances
    <2>2. /\ far[p] < far[n] /\ far[g] < far[t] /\ far[t] < far[n]
          /\ far[p] \in Nat /\ far[g] \in Nat /\ far[n] \in Nat /\ far[t] \in Nat
      BY <1>1, <2>1
    <2>3. s # NULL => far[n] < far[s] /\ far[s] \in Nat
      BY <1>2, <2>1
    <2> QED
      BY <1>1, <1>2, <2>2, <2>3
  <1>4. /\ k \in List
        /\ k.next = [[[l.next EXCEPT ![p] = s] EXCEPT ![n] = t] EXCEPT ![g] = n]
        /\ n = l.tail => k.pre = [[l.pre EXCEPT ![n] = g] EXCEPT ![t] = n] /\ k.tail = p
        /\ n # l.tail => /\ k.pre = [[[l.pre EXCEPT ![s] = p] EXCEPT ![n] = g] EXCEPT ![t] = n]
                         /\ k.tail = l.tail
    BY <1>1, <1>2 DEF MoveBefore, List, AllNodes, Pointer
  <1> HIDE DEF k
  <1>5. /\ k.next[p] = s /\ k.next[n] = t /\ k.next[g] = n
        /\ \A q \in AllNodes \ {p, n, g} : k.next[q] = l.next[q]
        /\ k.pre[n] = g /\ k.pre[t] = n /\ (n # l.tail => k.pre[s] = p)
        /\ \A q \in AllNodes \ {s, n, t} : k.pre[q] = l.pre[q]
    BY <1>1, <1>2, <1>3, <1>4
  <1> HIDE DEF p, s, g
  <1>6. In(k) = In(l)
    BY <1>1, <1>2, <1>5 DEF In, AllNodes
  <1>7. \A q \in AllNodes : k.next[q] # NULL => k.next[q] \in Nodes /\ k.pre[k.next[q]] = q
    <2> SUFFICES ASSUME NEW q \in AllNodes, k.next[q] # NULL
                 PROVE  k.next[q] \in Nodes /\ k.pre[k.next[q]] = q
      OBVIOUS
    <2>1. CASE q \in {p, n, g}
      BY <2>1, <1>1, <1>2, <1>3, <1>5
    <2>2. CASE q \notin {p, n, g}
      <3>1. k.next[q] = l.next[q] /\ l.next[q] \in Nodes /\ l.pre[l.next[q]] = q
        BY <2>2, <1>5 DEF Linked
      <3>2. l.next[q] \notin {s, n, t} /\ l.next[q] \in AllNodes
        BY <2>2, <3>1, <1>2 DEF p, g, AllNodes
      <3> QED
        BY <3>1, <3>2, <1>5
    <2> QED
      BY <2>1, <2>2
  <1>8. \A q \in In(k) : k.pre[q] \in In(k) \cup {ListHead} /\ k.next[k.pre[q]] = q
    <2> SUFFICES ASSUME NEW q \in In(l)
                 PROVE  k.pre[q] \in In(l) \cup {ListHead} /\ k.next[k.pre[q]] = q
      BY <1>6
    <2>1. CASE q \in {s, n, t}
      BY <2>1, <1>1, <1>2, <1>5 DEF In
    <2>2. CASE q \notin {s, n, t}
      <3>1. q \in AllNodes /\ l.pre[q] \in In(l) \cup {ListHead} /\ l.next[l.pre[q]] = q
        BY DEF Linked, In, AllNodes
      <3>2. k.pre[q] = l.pre[q] /\ l.pre[q] \notin {p, n, g} /\ l.pre[q] \in AllNodes
        BY <2>2, <3>1, <1>1, <1>5 DEF s, In, AllNodes
      <3> QED
        BY <3>1, <3>2, <1>5
    <2> QED
      BY <2>1, <2>2
  <1>9. \A q \in In(k) \cup {ListHead} : k.next[q] = NULL <=> q = k.tail
    <2> SUFFICES ASSUME NEW q \in In(l) \cup {ListHead}
                 PROVE  k.next[q] = NULL <=> q = k.tail
      BY <1>6
    <2>1. q \in AllNodes /\ (l.next[q] = NULL <=> q = l.tail)
      BY DEF Linked, In, AllNodes
    <2>2. CASE q \in {p, n, g}
      BY <2>1, <2>2, <1>1, <1>2, <1>3, <1>4, <1>5
    <2>3. CASE q \notin {p, n, g}
      BY <2>1, <2>3, <1>4, <1>5
    <2> QED
      BY <2>2, <2>3
  <1>10. k.tail \in In(k) \cup {ListHead}
    BY <1>1, <1>4, <1>6 DEF Linked
  <1>11. k.pre[ListHead] = NULL
    <2>1. ListHead \in AllNodes /\ ListHead # s
      BY <1>1, <1>2, HeadAssumption DEF AllNodes
    <2> QED
      BY <2>1, <1>1, <1>2, <1>5 DEF Linked
  <1>12. \A q \in Nodes : k.pre[q] = NULL => k.next[q] = NULL
    <2> SUFFICES ASSUME NEW q \in Nodes, q \notin In(l) PROVE k.next[q] = NULL
      BY <1>6 DEF In
    <2>1. l.next[q] = NULL /\ q \notin {p, n, g} /\ q \in AllNodes
      BY <1>1 DEF Linked, In, AllNodes
    <2> QED
      BY <2>1, <1>5
  <1> QED
    BY <1>4, <1>6, <1>7, <1>8, <1>9, <1>10, <1>11, <1>12 DEF Linked, k

-----------------------------------------------------------------------------
(* c numbers the nodes of list l from the head on, which is number 0. *)
Chain(l, N, c) ==
    /\ l \in List /\ N \in Nat /\ c \in [0..N -> AllNodes] /\ c[0] = ListHead
    /\ \A i, j \in 0..N : c[i] = c[j] => i = j
    /\ l.pre[ListHead] = NULL /\ \A i \in 1..N : l.pre[c[i]] = c[i - 1]
    /\ l.next[c[N]] = NULL /\ \A i \in 0..(N - 1) : l.next[c[i]] = c[i + 1]
    /\ \A n \in Nodes : (\A i \in 1..N : c[i] # n) => l.pre[n] = NULL /\ l.next[n] = NULL
    /\ l.tail = c[N]

(***************************************************************************)
(* A set of numbers that is not empty has a least one: how far a sorting   *)
(* walk of list.c gets is the least number at which its loop ends.         *)
(***************************************************************************)
LEMMA LeastNumber ==
    ASSUME NEW T, T \subseteq Nat, T # {}
    PROVE  \E m \in T : \A k \in T : m <= k
  <1>1. PICK m \in T : \A k \in T : ~(<<k, m>> \in OpToRel(<, Nat))
    BY NatLessThanWellFounded, WFMin
  <1>2. \A k \in T : ~(k < m)
    BY <1>1, Zenon DEF OpToRel
  <1> QED
    BY <1>2

(***************************************************************************)
(* What a numbering says of the nodes: those of the list and no others     *)
(* have a number, and next and pre go to the next and the one before       *)
(* (list.c:159).                                                           *)
(***************************************************************************)
LEMMA ChainFacts ==
    ASSUME NEW l, NEW N, NEW c, Chain(l, N, c)
    PROVE  /\ N \in Nat /\ c[0] = ListHead
           /\ \A i \in 1..N : c[i] \in Nodes /\ c[i] \in AllNodes /\ c[i] # ListHead /\ c[i] # NULL
           /\ \A i \in 0..N : c[i] \in AllNodes /\ c[i] # NULL
           /\ In(l) = {c[i] : i \in 1..N}
           /\ \A n \in In(l) : \E i \in 1..N : c[i] = n
           /\ l.next \in [AllNodes -> Pointer] /\ l.pre \in [AllNodes -> Pointer]
           /\ l.tail \in AllNodes
           /\ c \in [0..N -> AllNodes] /\ \A i, j \in 0..N : c[i] = c[j] => i = j
           /\ l.tail = c[N] /\ l.next[c[N]] = NULL /\ l.pre[ListHead] = NULL
           /\ \A i \in 1..N : l.pre[c[i]] = c[i - 1]
           /\ \A i \in 0..(N - 1) : l.next[c[i]] = c[i + 1]
  <1>1. N \in Nat /\ c[0] = ListHead /\ 0 \in 0..N
    BY DEF Chain
  <1>2. \A i \in 0..N : c[i] \in AllNodes /\ c[i] # NULL
    BY HeadAssumption DEF Chain, AllNodes
  <1>3. ASSUME NEW i \in 1..N
        PROVE  c[i] \in Nodes /\ c[i] # ListHead
    <2>1. i \in 0..N /\ i # 0
      BY <1>1
    <2>2. c[i] # c[0]
      BY <2>1, <1>1 DEF Chain
    <2> QED
      BY <2>1, <2>2, <1>1, <1>2 DEF AllNodes
  <1>4. ASSUME NEW i \in 1..N
        PROVE  l.pre[c[i]] # NULL
    <2>1. i - 1 \in 0..N /\ l.pre[c[i]] = c[i - 1]
      BY <1>1 DEF Chain
    <2> QED
      BY <2>1, <1>2
  <1>5. \A n \in In(l) : \E i \in 1..N : c[i] = n
    BY DEF In, Chain
  <1>6. In(l) = {c[i] : i \in 1..N}
    BY <1>3, <1>4, <1>5 DEF In
  <1>7. \A i \in 1..N : i \in 0..N
    BY <1>1
  <1>8. l.next \in [AllNodes -> Pointer] /\ l.pre \in [AllNodes -> Pointer] /\ l.tail \in AllNodes
    BY DEF Chain, List, AllNodes
  <1>9. /\ c \in [0..N -> AllNodes] /\ \A i, j \in 0..N : c[i] = c[j] => i = j
        /\ l.tail = c[N] /\ l.next[c[N]] = NULL /\ l.pre[ListHead] = NULL
        /\ \A i \in 1..N : l.pre[c[i]] = c[i - 1]
        /\ \A i \in 0..(N - 1) : l.next[c[i]] = c[i + 1]
    BY DEF Chain
  <1> QED
    BY <1>1, <1>2, <1>3, <1>5, <1>6, <1>7, <1>8, <1>9

(***************************************************************************)
(* next goes from a number to the next one (the walks from a head,         *)
(* userfaultfd.c:166).                                                     *)
(***************************************************************************)
LEMMA ChainNext ==
    ASSUME NEW l, NEW N, NEW c, Chain(l, N, c), NEW i \in 0..(N - 1)
    PROVE  l.next[c[i]] = c[i + 1]
  BY ChainFacts

(***************************************************************************)
(* pre goes from a number to the one before (the walks from a tail,        *)
(* migrate.c:71).                                                          *)
(***************************************************************************)
LEMMA ChainPre ==
    ASSUME NEW l, NEW N, NEW c, Chain(l, N, c), NEW i \in 1..N
    PROVE  l.pre[c[i]] = c[i - 1]
  BY ChainFacts

(***************************************************************************)
(* A walk from the head over next (userfaultfd.c:166) sees the nodes in    *)
(* the order of their numbers.                                             *)
(***************************************************************************)
LEMMA ChainOrder ==
    ASSUME NEW l, NEW N, NEW c, Chain(l, N, c)
    PROVE  Order(l) = [i \in 1..N |-> c[i]]
  <1> DEFINE from[n \in AllNodes] ==
                IF l.next[n] = NULL THEN << >> ELSE <<l.next[n]>> \o from[l.next[n]]
             P(f) == f = [n \in AllNodes |->
                            IF l.next[n] = NULL THEN << >> ELSE <<l.next[n]>> \o f[l.next[n]]]
             rest(i) == [k \in 1..(N - i) |-> c[i + k]]
  <1>1. /\ N \in Nat /\ c[0] = ListHead /\ ListHead \in AllNodes /\ c \in [0..N -> AllNodes]
        /\ \A i \in 1..N : c[i] \in Nodes
        /\ \A i \in 0..N : c[i] \in AllNodes /\ c[i] # NULL
        /\ \A i, j \in 0..N : c[i] = c[j] => i = j
        /\ l.next[c[N]] = NULL
        /\ \A i \in 0..(N - 1) : l.next[c[i]] = c[i + 1]
        /\ \A n \in AllNodes : (\A i \in 0..N : c[i] # n) => l.next[n] = NULL
    <2>1. ASSUME NEW n \in AllNodes, \A i \in 0..N : c[i] # n
          PROVE  l.next[n] = NULL
      <3>1. n \in Nodes /\ \A i \in 1..N : c[i] # n
        BY <2>1, ChainFacts DEF AllNodes
      <3> QED
        BY <3>1 DEF Chain
    <2>2. ListHead \in AllNodes
      BY DEF AllNodes
    <2>3. /\ c \in [0..N -> AllNodes] /\ \A i, j \in 0..N : c[i] = c[j] => i = j
          /\ l.next[c[N]] = NULL /\ \A i \in 0..(N - 1) : l.next[c[i]] = c[i + 1]
      BY DEF Chain
    <2>4. /\ N \in Nat /\ c[0] = ListHead /\ \A i \in 1..N : c[i] \in Nodes
          /\ \A i \in 0..N : c[i] \in AllNodes /\ c[i] # NULL
      BY ChainFacts
    <2> QED
      BY <2>1, <2>2, <2>3, <2>4
  <1>2. PICK g : g = [n \in AllNodes |-> IF \E i \in 0..N : c[i] = n
                                         THEN rest(CHOOSE i \in 0..N : c[i] = n) ELSE << >>]
    OBVIOUS
  <1>3. ASSUME NEW i \in 0..N
        PROVE  g[c[i]] = rest(i)
    <2>1. (CHOOSE j \in 0..N : c[j] = c[i]) = i
      BY <1>1
    <2> QED
      BY <2>1, <1>1, <1>2
  <1>4. ASSUME NEW n \in AllNodes, \A i \in 0..N : c[i] # n
        PROVE  g[n] = << >>
    BY <1>2, <1>4
  <1>5. ASSUME NEW n \in AllNodes
        PROVE  g[n] = IF l.next[n] = NULL THEN << >> ELSE <<l.next[n]>> \o g[l.next[n]]
    <2>1. CASE \A i \in 0..N : c[i] # n
      BY <2>1, <1>1, <1>4
    <2>2. ASSUME NEW i \in 0..N, c[i] = n, i = N
          PROVE  g[n] = IF l.next[n] = NULL THEN << >> ELSE <<l.next[n]>> \o g[l.next[n]]
      <3>1. rest(N) = << >>
        BY <1>1
      <3> QED
        BY <2>2, <3>1, <1>1, <1>3
    <2>3. ASSUME NEW i \in 0..N, c[i] = n, i # N
          PROVE  g[n] = IF l.next[n] = NULL THEN << >> ELSE <<l.next[n]>> \o g[l.next[n]]
      <3>1. i + 1 \in 0..N /\ i \in 0..(N - 1)
        BY <2>3, <1>1
      <3>2. <<c[i + 1]>> \o rest(i + 1) = rest(i)
        BY <3>1, <1>1
      <3>3. l.next[n] = c[i + 1] /\ l.next[n] # NULL
        BY <2>3, <3>1, <1>1
      <3>4. g[n] = rest(i) /\ g[c[i + 1]] = rest(i + 1)
        BY <2>3, <3>1, <1>3
      <3> QED
        BY Zenon, <3>2, <3>3, <3>4
    <2> QED
      BY <2>1, <2>2, <2>3
  <1>6. P(g)
    BY <1>2, <1>5
  <1>7. P(from)
    <2>1. P(CHOOSE f : P(f))
      <3> HIDE DEF P
      <3> QED
        BY <1>6
    <2> QED
      BY <2>1, Zenon
  <1>8. Order(l) = from[ListHead]
    BY Zenon DEF Order, AllNodes
  <1> HIDE DEF from
  <1>9. \A n \in AllNodes :
            from[n] = IF l.next[n] = NULL THEN << >> ELSE <<l.next[n]>> \o from[l.next[n]]
    BY <1>7
  <1> HIDE DEF P
  <1>10. PICK T : T = {k \in Nat : k <= N /\ from[c[N - k]] # g[c[N - k]]}
    OBVIOUS
  <1>11. T = {}
    <2> SUFFICES ASSUME T # {} PROVE FALSE
      OBVIOUS
    <2>1. PICK k \in T : \A j \in T : k <= j
      BY <1>10, LeastNumber
    <2>2. k \in Nat /\ k <= N /\ from[c[N - k]] # g[c[N - k]]
      BY <2>1, <1>10
    <2>3. k # 0
      <3>1. N \in 0..N /\ c[N] \in AllNodes
        BY <1>1
      <3>2. from[c[N]] = << >>
        BY <3>1, <1>1, <1>9
      <3>3. g[c[N]] = << >>
        BY <3>1, <1>1, <1>5
      <3> QED
        BY <3>2, <3>3, <2>2, <1>1
    <2>4. PICK i : i = N - k
      OBVIOUS
    <2>5. i \in 0..(N - 1) /\ i \in 0..N /\ i + 1 \in 0..N /\ k - 1 \in Nat /\ N - (k - 1) = i + 1
      BY <2>2, <2>3, <2>4, <1>1
    <2>6. from[c[i + 1]] = g[c[i + 1]]
      <3>1. k - 1 \notin T
        BY <2>1, <2>2, <2>5
      <3>2. k - 1 <= N
        BY <2>2, <2>5, <1>1
      <3> QED
        BY <3>1, <3>2, <2>5, <1>10
    <2>7. l.next[c[i]] = c[i + 1] /\ c[i + 1] # NULL /\ c[i] \in AllNodes
      BY <2>5, <1>1
    <2>8. from[c[i]] = <<c[i + 1]>> \o from[c[i + 1]]
      BY <2>7, <1>9
    <2>9. g[c[i]] = <<c[i + 1]>> \o g[c[i + 1]]
      BY <2>7, <1>5
    <2> QED
      BY <2>2, <2>4, <2>6, <2>8, <2>9
  <1>12. from[c[0]] = g[c[0]]
    BY <1>1, <1>10, <1>11
  <1> QED
    BY <1>1, <1>3, <1>8, <1>12

Added(N, c, n) == [i \in 0..(N + 1) |-> IF i <= N THEN c[i] ELSE n]

Without(N, c, k) == [i \in 0..(N - 1) |-> IF i < k THEN c[i] ELSE c[i + 1]]

(* Number k goes behind number j > k, or in front of number j < k. *)
Behind(N, c, k, j) ==
    [i \in 0..N |-> IF i < k \/ i > j THEN c[i] ELSE IF i = j THEN c[k] ELSE c[i + 1]]

InFront(N, c, k, j) ==
    [i \in 0..N |-> IF i < j \/ i > k THEN c[i] ELSE IF i = j THEN c[k] ELSE c[i - 1]]

(***************************************************************************)
(* add_in_remote_node_to_tail and its copies (list.c:159) give the new     *)
(* node the number after the last.                                         *)
(***************************************************************************)
LEMMA ChainAdd ==
    ASSUME NEW l, NEW N, NEW c, Chain(l, N, c), NEW n \in Nodes, \A i \in 1..N : c[i] # n
    PROVE  Chain(AddToTail(l, n), N + 1, Added(N, c, n))
  <1> PICK a : a = AddToTail(l, n)
    OBVIOUS
  <1> PICK d : d = Added(N, c, n)
    OBVIOUS
  <1>1. /\ l.next \in [AllNodes -> Pointer] /\ l.pre \in [AllNodes -> Pointer]
        /\ l.tail \in AllNodes
        /\ n \in AllNodes /\ n # ListHead /\ n \in Pointer /\ l.tail \in Pointer
        /\ NULL \in Pointer
    BY ChainFacts, HeadAssumption DEF AllNodes, Pointer
  <1>2. /\ N \in Nat /\ c[0] = ListHead /\ c \in [0..N -> AllNodes]
        /\ \A i \in 0..N : c[i] \in AllNodes /\ c[i] # NULL /\ c[i] # n
        /\ \A i \in 1..N : c[i] \in Nodes
        /\ \A i, j \in 0..N : c[i] = c[j] => i = j
        /\ l.tail = c[N]
    <2>1. \A i \in 0..N : c[i] # n
      <3> TAKE i \in 0..N
      <3>1. i = 0 \/ i \in 1..N
        BY ChainFacts
      <3> QED
        BY <3>1, <1>1, ChainFacts
    <2> QED
      BY <2>1, ChainFacts
  <1>3. a \in List /\ a.tail = n
    BY <1>1 DEF AddToTail, List, AllNodes
  <1>4. /\ a.next[n] = NULL /\ a.next[c[N]] = n
        /\ \A p \in AllNodes : p # n /\ p # c[N] => a.next[p] = l.next[p]
        /\ a.pre[n] = c[N]
        /\ \A p \in AllNodes : p # n => a.pre[p] = l.pre[p]
    BY <1>1, <1>2 DEF AddToTail
  <1>5. /\ d \in [0..(N + 1) -> AllNodes] /\ d[0] = ListHead /\ d[N + 1] = n
        /\ \A i \in 0..N : d[i] = c[i]
    BY <1>1, <1>2 DEF Added
  <1>6. \A i, j \in 0..(N + 1) : d[i] = d[j] => i = j
    <2>1. \A i \in 0..(N + 1) : i \in 0..N \/ i = N + 1
      BY <1>2
    <2> QED
      BY <2>1, <1>2, <1>5
  <1>7. a.pre[ListHead] = NULL
    BY <1>1, <1>4 DEF Chain, AllNodes
  <1>8. ASSUME NEW i \in 1..(N + 1)
        PROVE  a.pre[d[i]] = d[i - 1]
    <2>1. CASE i = N + 1
      BY <2>1, <1>2, <1>4, <1>5
    <2>2. CASE i # N + 1
      <3>1. i \in 1..N /\ i \in 0..N /\ i - 1 \in 0..N
        BY <2>2, <1>2
      <3>2. l.pre[c[i]] = c[i - 1]
        BY <3>1 DEF Chain
      <3> QED
        BY <3>1, <3>2, <1>2, <1>4, <1>5
    <2> QED
      BY <2>1, <2>2
  <1>9. ASSUME NEW i \in 0..N
        PROVE  a.next[d[i]] = d[i + 1]
    <2>1. CASE i = N
      BY <2>1, <1>2, <1>4, <1>5
    <2>2. CASE i # N
      <3>1. i \in 0..(N - 1) /\ i + 1 \in 0..N /\ N \in 0..N
        BY <2>2, <1>2
      <3>2. l.next[c[i]] = c[i + 1] /\ c[i] # c[N]
        BY <3>1, <2>2, <1>2 DEF Chain
      <3> QED
        BY <3>1, <3>2, <1>2, <1>4, <1>5
    <2> QED
      BY <2>1, <2>2
  <1>10. ASSUME NEW m \in Nodes, \A i \in 1..(N + 1) : d[i] # m
         PROVE  a.pre[m] = NULL /\ a.next[m] = NULL
    <2>1. \A i \in 1..N : c[i] # m
      BY <1>2, <1>5, <1>10
    <2>2. m # n /\ m \in AllNodes /\ m # ListHead
      <3>1. N + 1 \in 1..(N + 1)
        BY <1>2
      <3> QED
        BY <3>1, <1>5, <1>10, HeadAssumption DEF AllNodes
    <2>3. m # c[N]
      <3>1. N = 0 \/ N \in 1..N
        BY <1>2
      <3> QED
        BY <3>1, <2>1, <2>2, <1>2
    <2> QED
      BY <2>1, <2>2, <2>3, <1>4 DEF Chain
  <1>11. N + 1 \in Nat /\ (N + 1) - 1 = N
    BY <1>2
  <1> QED
    BY <1>3, <1>4, <1>5, <1>6, <1>7, <1>8, <1>9, <1>10, <1>11 DEF Chain

(***************************************************************************)
(* del_in_remote_node and its copies (list.c:194, 213): the nodes behind   *)
(* the deleted one move up, and the tail stays the last.                   *)
(***************************************************************************)
LEMMA ChainDel ==
    ASSUME NEW l, NEW N, NEW c, Chain(l, N, c), NEW k \in 1..N
    PROVE  Chain(Del(l, c[k]), N - 1, Without(N, c, k))
  <1> PICK n, p, a : n = c[k] /\ p = c[k - 1] /\ a = Del(l, n)
    OBVIOUS
  <1> PICK d : d = Without(N, c, k)
    OBVIOUS
  <1>1. /\ N \in Nat /\ k \in 0..N /\ k - 1 \in 0..N /\ k - 1 \in 0..(N - 1)
        /\ c[0] = ListHead /\ c \in [0..N -> AllNodes]
        /\ \A i \in 0..N : c[i] \in AllNodes /\ c[i] # NULL /\ c[i] \in Pointer
        /\ \A i \in 1..N : c[i] \in Nodes /\ c[i] # ListHead
        /\ \A i, j \in 0..N : c[i] = c[j] => i = j
        /\ l.tail = c[N] /\ l.pre[n] = p /\ l.next[p] = n /\ p # n
        /\ n \in Nodes /\ n # ListHead
    <2>1. N \in Nat /\ k \in 0..N /\ k - 1 \in 0..N /\ k - 1 \in 0..(N - 1) /\ k - 1 # k /\ k - 1 + 1 = k
      BY ChainFacts
    <2>2. \A i \in 0..N : c[i] \in Pointer
      BY ChainFacts DEF Pointer, AllNodes
    <2> QED
      BY <2>1, <2>2, ChainFacts
  <1>2. /\ l.next \in [AllNodes -> Pointer] /\ l.pre \in [AllNodes -> Pointer]
        /\ l.tail \in AllNodes
        /\ n \in AllNodes /\ p \in AllNodes /\ p \in Pointer /\ NULL \in Pointer
    BY <1>1, ChainFacts DEF Pointer
  <1>3. (k = N => l.next[n] = NULL) /\ (k # N => l.next[n] = c[k + 1] /\ k + 1 \in 1..N)
    <2>1. k # N => k \in 0..(N - 1) /\ k + 1 \in 1..N
      BY <1>1
    <2> QED
      BY <2>1, ChainFacts
  <1>4. n = l.tail <=> k = N
    BY <1>1
  <1>5. /\ a \in List /\ a.tail = IF k = N THEN p ELSE c[N]
        /\ a.next[n] = NULL /\ a.next[p] = IF k = N THEN NULL ELSE c[k + 1]
        /\ \A q \in AllNodes : q # n /\ q # p => a.next[q] = l.next[q]
        /\ a.pre[n] = NULL /\ (k # N => a.pre[c[k + 1]] = p)
        /\ \A q \in AllNodes : q # n /\ (k # N => q # c[k + 1]) => a.pre[q] = l.pre[q]
    <2>1. CASE k = N
      BY <2>1, <1>1, <1>2, <1>3, <1>4 DEF Del, List, AllNodes
    <2>2. CASE k # N
      <3>1. /\ k + 1 \in 1..N /\ c[k + 1] # n /\ c[k + 1] \in AllNodes /\ c[k + 1] \in Pointer
            /\ c[k + 1] = l.next[n]
        BY <2>2, <1>1, <1>3
      <3>2. /\ a = [next |-> [[l.next EXCEPT ![p] = c[k + 1]] EXCEPT ![n] = NULL],
                    pre |-> [[l.pre EXCEPT ![c[k + 1]] = p] EXCEPT ![n] = NULL],
                    tail |-> l.tail]
        BY <2>2, <3>1, <1>1, <1>4 DEF Del
      <3>3. PICK nx, pr : /\ nx = [[l.next EXCEPT ![p] = c[k + 1]] EXCEPT ![n] = NULL]
                          /\ pr = [[l.pre EXCEPT ![c[k + 1]] = p] EXCEPT ![n] = NULL]
        OBVIOUS
      <3>4. /\ nx \in [AllNodes -> Pointer] /\ pr \in [AllNodes -> Pointer]
            /\ nx[n] = NULL /\ nx[p] = c[k + 1] /\ pr[n] = NULL /\ pr[c[k + 1]] = p
            /\ \A q \in AllNodes : q # n /\ q # p => nx[q] = l.next[q]
            /\ \A q \in AllNodes : q # n /\ q # c[k + 1] => pr[q] = l.pre[q]
        BY <3>1, <3>3, <1>1, <1>2
      <3>5. a = [next |-> nx, pre |-> pr, tail |-> l.tail]
        BY <3>2, <3>3
      <3>6. a.next = nx /\ a.pre = pr /\ a.tail = l.tail /\ a \in List
        BY <3>4, <3>5, <1>2 DEF List, AllNodes
      <3> QED
        BY <3>4, <3>6, <2>2, <1>1
    <2> QED
      BY <2>1, <2>2
  <1>6. /\ d \in [0..(N - 1) -> AllNodes]
        /\ \A i \in 0..(N - 1) : d[i] = IF i < k THEN c[i] ELSE c[i + 1]
    <2>1. \A i \in 0..(N - 1) : i \in 0..N /\ i + 1 \in 0..N
      BY <1>1
    <2> QED
      BY <2>1, <1>1 DEF Without
  <1>7. d[0] = ListHead /\ N - 1 \in Nat
    BY <1>1, <1>6
  <1>8. \A i, j \in 0..(N - 1) : d[i] = d[j] => i = j
    <2>1. \A i \in 0..(N - 1) : i \in 0..N /\ i + 1 \in 0..N
      BY <1>1
    <2> QED
      BY <2>1, <1>1, <1>6
  <1>9. a.pre[ListHead] = NULL
    <2>1. ListHead \in AllNodes /\ (k # N => ListHead # c[k + 1]) /\ l.pre[ListHead] = NULL
      BY <1>1, <1>3, ChainFacts DEF AllNodes
    <2> QED
      BY <2>1, <1>1, <1>5
  <1>10. ASSUME NEW i \in 1..(N - 1)
         PROVE  a.pre[d[i]] = d[i - 1]
    <2>1. i \in 0..(N - 1) /\ i - 1 \in 0..(N - 1) /\ i \in 1..N /\ i + 1 \in 1..N /\ i + 1 - 1 = i
      BY <1>1
    <2>2. CASE i < k
      <3>1. d[i] = c[i] /\ d[i - 1] = c[i - 1] /\ l.pre[c[i]] = c[i - 1]
        <4>1. l.pre[c[i]] = c[i - 1]
          BY <2>1, ChainFacts
        <4> QED
          BY <4>1, <2>1, <2>2, <1>1, <1>6
      <3>2. c[i] # n /\ (k # N => c[i] # c[k + 1]) /\ c[i] \in AllNodes
        BY <2>1, <2>2, <1>1
      <3> QED
        BY <3>1, <3>2, <1>5
    <2>3. CASE i = k
      <3>1. d[i] = c[k + 1] /\ d[i - 1] = c[k - 1] /\ k # N
        BY <2>1, <2>3, <1>1, <1>6
      <3> QED
        BY <3>1, <1>5
    <2>4. CASE i > k
      <3>1. d[i] = c[i + 1] /\ d[i - 1] = c[i] /\ l.pre[c[i + 1]] = c[i]
        <4>1. l.pre[c[i + 1]] = c[i]
          BY <2>1, ChainFacts
        <4>2. ~(i < k) /\ ~(i - 1 < k) /\ i - 1 + 1 = i
          BY <2>1, <2>4, <1>1
        <4> QED
          BY <4>1, <4>2, <2>1, <1>6
      <3>2. c[i + 1] # n /\ (k # N => c[i + 1] # c[k + 1]) /\ c[i + 1] \in AllNodes
        BY <2>1, <2>4, <1>1
      <3> QED
        BY <3>1, <3>2, <1>5
    <2> QED
      BY <2>2, <2>3, <2>4, <1>1
  <1>11. ASSUME NEW i \in 0..(N - 2)
         PROVE  a.next[d[i]] = d[i + 1]
    <2>1. i \in 0..(N - 1) /\ i + 1 \in 0..(N - 1) /\ i \in 0..N /\ i + 1 \in 0..N
      BY <1>1
    <2>2. CASE i < k - 1
      <3>1. d[i] = c[i] /\ d[i + 1] = c[i + 1] /\ l.next[c[i]] = c[i + 1]
        <4>1. i < k /\ i + 1 < k /\ i \in 0..(N - 1)
          BY <2>1, <2>2, <1>1
        <4>2. l.next[c[i]] = c[i + 1]
          BY <4>1, ChainFacts
        <4> QED
          BY <4>1, <4>2, <2>1, <1>6
      <3>2. c[i] # n /\ c[i] # p /\ c[i] \in AllNodes
        BY <2>1, <2>2, <1>1
      <3> QED
        BY <3>1, <3>2, <1>5
    <2>3. CASE i = k - 1
      <3>1. d[i] = p /\ d[i + 1] = c[k + 1] /\ k # N
        BY <2>1, <2>3, <1>1, <1>6
      <3> QED
        BY <3>1, <1>5
    <2>4. CASE i > k - 1
      <3>1. d[i] = c[i + 1] /\ d[i + 1] = c[i + 2] /\ l.next[c[i + 1]] = c[i + 2]
        <4>1. i + 1 \in 0..(N - 1) /\ i + 1 + 1 = i + 2 /\ ~(i < k) /\ ~(i + 1 < k)
          BY <2>1, <2>4, <1>1
        <4>2. l.next[c[i + 1]] = c[i + 2]
          BY <4>1, ChainFacts
        <4> QED
          BY <4>1, <4>2, <2>1, <1>6
      <3>2. c[i + 1] # n /\ c[i + 1] # p /\ c[i + 1] \in AllNodes
        BY <2>1, <2>4, <1>1
      <3> QED
        BY <3>1, <3>2, <1>5
    <2> QED
      BY <2>2, <2>3, <2>4, <1>1
  <1>12. a.tail = d[N - 1] /\ a.next[d[N - 1]] = NULL
    <2>1. N - 1 \in 0..(N - 1) /\ N - 1 + 1 = N /\ N \in 0..N
      BY <1>1
    <2>2. CASE k = N
      BY <2>1, <2>2, <1>1, <1>5, <1>6
    <2>3. CASE k # N
      <3>1. d[N - 1] = c[N] /\ c[N] # n /\ c[N] # p
        BY <2>1, <2>3, <1>1, <1>6
      <3> QED
        BY <2>1, <2>3, <3>1, <1>1, <1>5, ChainFacts
    <2> QED
      BY <2>2, <2>3
  <1>13. ASSUME NEW m \in Nodes, \A i \in 1..(N - 1) : d[i] # m
         PROVE  a.pre[m] = NULL /\ a.next[m] = NULL
    <2>1. CASE m = n
      BY <2>1, <1>5
    <2>2. CASE m # n
      <3>1. ASSUME NEW i \in 1..N PROVE c[i] # m
        <4>1. CASE i < k
          <5>1. i \in 1..(N - 1) /\ i \in 0..(N - 1)
            BY <4>1, <1>1
          <5> QED
            BY <5>1, <4>1, <1>6, <1>13
        <4>2. CASE i = k
          BY <4>2, <2>2
        <4>3. CASE i > k
          <5>1. i - 1 \in 1..(N - 1) /\ i - 1 \in 0..(N - 1) /\ ~(i - 1 < k) /\ i - 1 + 1 = i
            BY <4>3, <1>1
          <5> QED
            BY <5>1, <1>6, <1>13
        <4> QED
          BY <4>1, <4>2, <4>3, <1>1
      <3>2. m \in AllNodes /\ l.pre[m] = NULL /\ l.next[m] = NULL
        BY <3>1 DEF Chain, AllNodes
      <3>3. m # p /\ (k # N => m # c[k + 1])
        BY <3>1, <3>2, <1>1, <1>3
      <3> QED
        BY <2>2, <3>2, <3>3, <1>5
    <2> QED
      BY <2>1, <2>2
  <1>14. N - 1 - 1 = N - 2
    BY <1>1
  <1> QED
    BY <1>5, <1>6, <1>7, <1>8, <1>9, <1>10, <1>11, <1>12, <1>13, <1>14 DEF Chain

(***************************************************************************)
(* The first move of the sortings (list.c:21): the node goes just behind   *)
(* the last colder one, also when that is the tail.                        *)
(***************************************************************************)
LEMMA ChainBehind ==
    ASSUME NEW l, NEW N, NEW c, Chain(l, N, c), NEW k \in 1..N, NEW j \in 1..N, k < j
    PROVE  Chain(MoveBehind(l, c[k], c[j]), N, Behind(N, c, k, j))
  <1> PICK n, p, s, t, a : /\ n = c[k] /\ p = c[k - 1] /\ s = c[k + 1] /\ t = c[j]
                        /\ a = MoveBehind(l, n, t)
    OBVIOUS
  <1> PICK d : d = Behind(N, c, k, j)
    OBVIOUS
  <1>1. /\ N \in Nat /\ k \in 1..(N - 1) /\ k - 1 \in 0..(N - 1) /\ k + 1 \in 1..N
        /\ c[0] = ListHead /\ c \in [0..N -> AllNodes]
        /\ \A i \in 0..N : c[i] \in AllNodes /\ c[i] # NULL /\ c[i] \in Pointer
        /\ \A i \in 1..N : c[i] \in Nodes /\ c[i] # ListHead
        /\ \A i, m \in 0..N : c[i] = c[m] => i = m
        /\ l.tail = c[N] /\ l.pre[n] = p /\ l.next[p] = n /\ l.next[n] = s
    <2>1. /\ N \in Nat /\ k - 1 \in 0..(N - 1) /\ k - 1 + 1 = k /\ k + 1 \in 1..N
          /\ k \in 0..(N - 1) /\ k \in 1..(N - 1)
      BY ChainFacts
    <2>2. \A i \in 0..N : c[i] \in Pointer
      BY ChainFacts DEF Pointer, AllNodes
    <2>3. l.pre[n] = p /\ l.next[n] = s
      BY <2>1, ChainFacts
    <2>4. l.next[p] = n
      <3>1. l.next[c[k - 1]] = c[k - 1 + 1]
        BY <2>1, ChainNext
      <3> QED
        BY <3>1, <2>1
    <2>5. /\ c[0] = ListHead /\ c \in [0..N -> AllNodes] /\ l.tail = c[N]
          /\ \A i \in 0..N : c[i] \in AllNodes /\ c[i] # NULL
          /\ \A i \in 1..N : c[i] \in Nodes /\ c[i] # ListHead
          /\ \A i, m \in 0..N : c[i] = c[m] => i = m
      BY ChainFacts
    <2> QED
      BY <2>1, <2>2, <2>3, <2>4, <2>5
  <1>2. /\ l.next \in [AllNodes -> Pointer] /\ l.pre \in [AllNodes -> Pointer]
        /\ l.tail \in AllNodes
        /\ NULL \in Pointer
        /\ \A i \in 0..N : i # k => c[i] # n
        /\ \A i \in 0..N : i # j => c[i] # t
        /\ \A i \in 0..N : i # k - 1 => c[i] # p
        /\ \A i \in 0..N : i # k + 1 => c[i] # s
        /\ {n, p, s, t} \subseteq AllNodes /\ {n, p, s, t} \subseteq Pointer
        /\ n # p /\ n # s /\ n # t /\ p # t
    <2>1. k \in 0..N /\ k - 1 \in 0..N /\ k + 1 \in 0..N /\ j \in 0..N
      BY <1>1
    <2>2. l.next \in [AllNodes -> Pointer] /\ l.pre \in [AllNodes -> Pointer] /\ l.tail \in AllNodes
      BY ChainFacts
    <2> QED
      BY <2>1, <2>2, <1>1 DEF Pointer
  <1>3. /\ j = N => l.next[t] = NULL /\ t = l.tail
        /\ j # N => /\ l.next[t] = c[j + 1] /\ j + 1 \in 1..N /\ t # l.tail
                    /\ c[j + 1] # n /\ c[j + 1] # s
                    /\ \A i \in 0..N : i # j + 1 => c[i] # c[j + 1]
    <2>1. j = N => l.next[t] = NULL /\ t = l.tail
      BY ChainFacts
    <2>2. j # N => j \in 0..(N - 1) /\ j + 1 \in 1..N /\ j + 1 \in 0..N /\ N \in 0..N /\ j \in 0..N
      BY <1>1
    <2>3. j # N => l.next[t] = c[j + 1]
      BY <2>2, ChainFacts
    <2>4. j # N => \A i \in 0..N : i # j + 1 => c[i] # c[j + 1]
      BY <2>2, <1>1
    <2>5. k \in 0..N /\ k + 1 \in 0..N /\ k # j + 1 /\ k + 1 # j + 1
      BY <1>1
    <2> QED
      BY <2>1, <2>2, <2>3, <2>4, <2>5, <1>1
  <1>4. /\ a \in List /\ a.tail = IF j = N THEN n ELSE c[N]
        /\ a.next[p] = s /\ a.next[t] = n /\ a.next[n] = IF j = N THEN NULL ELSE c[j + 1]
        /\ \A q \in AllNodes : q # p /\ q # t /\ q # n => a.next[q] = l.next[q]
        /\ a.pre[s] = p /\ a.pre[n] = t /\ (j # N => a.pre[c[j + 1]] = n)
        /\ \A q \in AllNodes : q # s /\ q # n /\ (j # N => q # c[j + 1]) => a.pre[q] = l.pre[q]
    <2>1. PICK nx, above, pr :
             /\ nx = [[[l.next EXCEPT ![p] = s] EXCEPT ![n] = l.next[t]] EXCEPT ![t] = n]
             /\ above = [[l.pre EXCEPT ![s] = p] EXCEPT ![n] = t]
             /\ pr = IF j = N THEN above ELSE [above EXCEPT ![c[j + 1]] = n]
      OBVIOUS
    <2>2. /\ a.next = nx /\ a.pre = pr /\ a.tail = IF j = N THEN n ELSE c[N]
          /\ a = [next |-> nx, pre |-> pr, tail |-> IF j = N THEN n ELSE c[N]]
      BY <2>1, <1>1, <1>3 DEF MoveBehind
    <2>3. l.next[t] \in Pointer
      BY <1>2
    <2>4. /\ nx \in [AllNodes -> Pointer] /\ nx[p] = s /\ nx[t] = n /\ nx[n] = l.next[t]
          /\ \A q \in AllNodes : q # p /\ q # t /\ q # n => nx[q] = l.next[q]
      BY <2>1, <2>3, <1>2
    <2>5. /\ above \in [AllNodes -> Pointer] /\ above[s] = p /\ above[n] = t
          /\ \A q \in AllNodes : q # s /\ q # n => above[q] = l.pre[q]
      BY <2>1, <1>2
    <2>6. /\ pr \in [AllNodes -> Pointer] /\ pr[s] = p /\ pr[n] = t /\ (j # N => pr[c[j + 1]] = n)
          /\ \A q \in AllNodes : q # s /\ q # n /\ (j # N => q # c[j + 1]) => pr[q] = l.pre[q]
      <3>1. CASE j = N
        BY <3>1, <2>1, <2>5
      <3>2. CASE j # N
        <4>1. c[j + 1] \in AllNodes /\ n \in Pointer /\ c[j + 1] # n /\ c[j + 1] # s
          BY <3>2, <1>1, <1>2, <1>3
        <4> QED
          BY <4>1, <3>2, <2>1, <2>5, <1>2
      <3> QED
        BY <3>1, <3>2
    <2>7. a \in List
      <3>1. n \in AllNodes /\ c[N] \in AllNodes /\ N \in 0..N
        BY <1>1, <1>2
      <3> QED
        BY <3>1, <2>2, <2>4, <2>6 DEF List, AllNodes
    <2> QED
      BY <2>2, <2>4, <2>6, <2>7, <1>3
  <1>5. /\ d \in [0..N -> AllNodes]
        /\ \A i \in 0..N : i < k \/ i > j => d[i] = c[i]
        /\ \A i \in 0..N : k <= i /\ i < j => d[i] = c[i + 1]
        /\ d[j] = n
    <2>1. \A i \in 0..N : k <= i /\ i < j => i + 1 \in 0..N
      BY <1>1
    <2>2. k \in 0..N /\ j \in 0..N
      BY <1>1
    <2> QED
      BY <2>1, <2>2, <1>1 DEF Behind
  <1>6. \A i \in 0..N : i < k \/ i > j \/ (k <= i /\ i < j) \/ i = j
    BY <1>1
  <1>7. d[0] = ListHead
    BY <1>1, <1>5
  <1>8. \A i, m \in 0..N : d[i] = d[m] => i = m
    <2>1. \A i \in 0..N : k <= i /\ i < j => i + 1 \in 0..N
      BY <1>1
    <2>2. k \in 0..N /\ j \in 0..N
      BY <1>1
    <2> QED
      BY <2>1, <2>2, <1>1, <1>5
  <1>9. a.pre[ListHead] = NULL
    <2>1. ListHead \in AllNodes /\ ListHead # s /\ ListHead # n /\ (j # N => ListHead # c[j + 1])
      BY <1>1, <1>3 DEF AllNodes
    <2> QED
      BY <2>1, <1>4, ChainFacts
  <1>10. ASSUME NEW i \in 1..N
         PROVE  a.pre[d[i]] = d[i - 1]
    <2>1. i \in 0..N /\ i - 1 \in 0..N /\ i - 1 + 1 = i
      BY <1>1
    <2>2. CASE i < k \/ i > j + 1
      <3>1. l.pre[c[i]] = c[i - 1]
        BY ChainFacts
      <3>2. d[i] = c[i] /\ d[i - 1] = c[i - 1]
        BY <2>1, <2>2, <1>5
      <3>3. c[i] # s /\ c[i] # n /\ (j # N => c[i] # c[j + 1]) /\ c[i] \in AllNodes
        BY <2>1, <2>2, <1>1, <1>2, <1>3
      <3> QED
        BY <3>1, <3>2, <3>3, <1>4
    <2>3. CASE i = k
      <3>1. d[i] = s /\ d[i - 1] = p
        BY <2>1, <2>3, <1>5
      <3> QED
        BY <3>1, <1>4
    <2>4. CASE k < i /\ i < j
      <3>1. i + 1 \in 1..N /\ i + 1 - 1 = i /\ i + 1 \in 0..N
        BY <2>4, <1>1
      <3>2. l.pre[c[i + 1]] = c[i]
        BY <3>1, ChainPre
      <3>3. d[i] = c[i + 1] /\ d[i - 1] = c[i]
        BY <2>1, <2>4, <1>5
      <3>4. c[i + 1] # s /\ c[i + 1] # n /\ (j # N => c[i + 1] # c[j + 1]) /\ c[i + 1] \in AllNodes
        BY <3>1, <2>1, <2>4, <1>1, <1>2, <1>3
      <3> QED
        BY <3>2, <3>3, <3>4, <1>4
    <2>5. CASE i = j
      <3>1. d[i] = n /\ d[i - 1] = t
        BY <2>1, <2>5, <1>5
      <3> QED
        BY <3>1, <1>4
    <2>6. CASE i = j + 1
      <3>1. d[i] = c[j + 1] /\ d[i - 1] = n /\ j # N
        BY <2>1, <2>6, <1>5, <1>1
      <3> QED
        BY <3>1, <1>4
    <2> QED
      BY <2>2, <2>3, <2>4, <2>5, <2>6, <1>1
  <1>11. ASSUME NEW i \in 0..(N - 1)
         PROVE  a.next[d[i]] = d[i + 1]
    <2>1. i \in 0..N /\ i + 1 \in 0..N
      BY <1>1
    <2>2. CASE i < k - 1 \/ i > j
      <3>1. l.next[c[i]] = c[i + 1]
        BY ChainFacts
      <3>2. d[i] = c[i] /\ d[i + 1] = c[i + 1]
        BY <2>1, <2>2, <1>5
      <3>3. c[i] # p /\ c[i] # n /\ c[i] # t /\ c[i] \in AllNodes
        BY <2>1, <2>2, <1>1, <1>2
      <3> QED
        BY <3>1, <3>2, <3>3, <1>4
    <2>3. CASE i = k - 1
      <3>1. d[i] = p /\ d[i + 1] = s
        BY <2>1, <2>3, <1>5
      <3> QED
        BY <3>1, <1>4
    <2>4. CASE k <= i /\ i < j - 1
      <3>1. i + 1 \in 0..(N - 1) /\ i + 1 + 1 = i + 2 /\ i + 1 < j
        BY <2>4, <1>1
      <3>2. l.next[c[i + 1]] = c[i + 2]
        <4>1. l.next[c[i + 1]] = c[i + 1 + 1]
          BY <3>1, ChainNext
        <4> QED
          BY <4>1, <3>1
      <3>3. d[i] = c[i + 1] /\ d[i + 1] = c[i + 2]
        BY <3>1, <2>1, <2>4, <1>5
      <3>4. c[i + 1] # p /\ c[i + 1] # n /\ c[i + 1] # t /\ c[i + 1] \in AllNodes
        BY <3>1, <2>1, <2>4, <1>1, <1>2
      <3> QED
        BY <3>2, <3>3, <3>4, <1>4
    <2>5. CASE i = j - 1
      <3>1. d[i] = t /\ d[i + 1] = n
        BY <2>1, <2>5, <1>5
      <3> QED
        BY <3>1, <1>4
    <2>6. CASE i = j
      <3>1. d[i] = n /\ d[i + 1] = c[j + 1] /\ j # N
        BY <2>1, <2>6, <1>5, <1>1
      <3> QED
        BY <3>1, <1>4
    <2> QED
      BY <2>2, <2>3, <2>4, <2>5, <2>6, <1>1
  <1>12. a.tail = d[N] /\ a.next[d[N]] = NULL
    <2>1. N \in 0..N
      BY <1>1
    <2>2. CASE j = N
      BY <2>1, <2>2, <1>4, <1>5
    <2>3. CASE j # N
      <3>1. d[N] = c[N] /\ c[N] # p /\ c[N] # n /\ c[N] # t /\ c[N] \in AllNodes
        BY <2>1, <2>3, <1>1, <1>2, <1>5
      <3>2. l.next[c[N]] = NULL
        BY ChainFacts
      <3> QED
        BY <2>3, <3>1, <3>2, <1>4
    <2> QED
      BY <2>2, <2>3
  <1>13. ASSUME NEW m \in Nodes, \A i \in 1..N : d[i] # m
         PROVE  a.pre[m] = NULL /\ a.next[m] = NULL
    <2>1. ASSUME NEW i \in 1..N PROVE c[i] # m
      <3>1. CASE i < k \/ i > j
        BY <3>1, <1>5, <1>13
      <3>2. CASE i = k
        BY <3>2, <1>5, <1>13
      <3>3. CASE k < i /\ i <= j
        <4>1. i - 1 \in 1..N /\ i - 1 \in 0..N /\ k <= i - 1 /\ i - 1 < j /\ i - 1 + 1 = i
          BY <3>3, <1>1
        <4> QED
          BY <4>1, <1>5, <1>13
      <3> QED
        BY <3>1, <3>2, <3>3, <1>1
    <2>2. m \in AllNodes /\ l.pre[m] = NULL /\ l.next[m] = NULL
      BY <2>1 DEF Chain, AllNodes
    <2>3. m # n /\ m # s /\ m # t /\ (j # N => m # c[j + 1])
      BY <2>1, <1>1, <1>3
    <2>4. m # p
      <3>1. m # ListHead
        BY HeadAssumption
      <3>2. k - 1 = 0 \/ k - 1 \in 1..N
        BY <1>1
      <3> QED
        BY <3>1, <3>2, <2>1, <1>1
    <2> QED
      BY <2>2, <2>3, <2>4, <1>4
  <1>14. Chain(a, N, d)
    <2>1. a \in List /\ N \in Nat /\ d \in [0..N -> AllNodes]
      BY <1>1, <1>4, <1>5
    <2> QED
      BY <2>1, <1>7, <1>8, <1>9, <1>10, <1>11, <1>12, <1>13 DEF Chain
  <1> QED
    BY <1>14

(***************************************************************************)
(* The second move of the sortings (list.c:37): the node goes just in      *)
(* front of the first hotter one, also when it was the tail.               *)
(***************************************************************************)
LEMMA ChainBefore ==
    ASSUME NEW l, NEW N, NEW c, Chain(l, N, c), NEW k \in 1..N, NEW j \in 1..N, j < k
    PROVE  Chain(MoveBefore(l, c[k], c[j]), N, InFront(N, c, k, j))
  <1> PICK n, p, g, t, a : /\ n = c[k] /\ p = c[k - 1] /\ g = c[j - 1] /\ t = c[j]
                        /\ a = MoveBefore(l, n, t)
    OBVIOUS
  <1> PICK d : d = InFront(N, c, k, j)
    OBVIOUS
  <1>1. /\ N \in Nat /\ j \in 1..(N - 1) /\ k - 1 \in 1..N /\ j - 1 \in 0..N
        /\ c[0] = ListHead /\ c \in [0..N -> AllNodes]
        /\ \A i \in 0..N : c[i] \in AllNodes /\ c[i] # NULL /\ c[i] \in Pointer
        /\ \A i \in 1..N : c[i] \in Nodes /\ c[i] # ListHead
        /\ \A i, m \in 0..N : c[i] = c[m] => i = m
        /\ l.tail = c[N] /\ l.pre[n] = p /\ l.pre[t] = g
    <2>1. N \in Nat /\ j \in 1..(N - 1) /\ k - 1 \in 1..N /\ j - 1 \in 0..N
      BY ChainFacts
    <2>2. \A i \in 0..N : c[i] \in Pointer
      BY ChainFacts DEF Pointer, AllNodes
    <2>3. l.pre[n] = p /\ l.pre[t] = g
      BY ChainFacts
    <2>4. /\ c[0] = ListHead /\ c \in [0..N -> AllNodes] /\ l.tail = c[N]
          /\ \A i \in 0..N : c[i] \in AllNodes /\ c[i] # NULL
          /\ \A i \in 1..N : c[i] \in Nodes /\ c[i] # ListHead
          /\ \A i, m \in 0..N : c[i] = c[m] => i = m
      BY ChainFacts
    <2> QED
      BY <2>1, <2>2, <2>3, <2>4
  <1>2. /\ l.next \in [AllNodes -> Pointer] /\ l.pre \in [AllNodes -> Pointer]
        /\ l.tail \in AllNodes
        /\ NULL \in Pointer
        /\ \A i \in 0..N : i # k => c[i] # n
        /\ \A i \in 0..N : i # j => c[i] # t
        /\ \A i \in 0..N : i # k - 1 => c[i] # p
        /\ \A i \in 0..N : i # j - 1 => c[i] # g
        /\ {n, p, g, t} \subseteq AllNodes /\ {n, p, g, t} \subseteq Pointer
        /\ n # p /\ n # g /\ n # t /\ g # t /\ p # g
    <2>1. k \in 0..N /\ k - 1 \in 0..N /\ j - 1 \in 0..N /\ j \in 0..N
      BY <1>1
    <2>2. l.next \in [AllNodes -> Pointer] /\ l.pre \in [AllNodes -> Pointer] /\ l.tail \in AllNodes
      BY ChainFacts
    <2> QED
      BY <2>1, <2>2, <1>1 DEF Pointer
  <1>3. /\ k = N => l.next[n] = NULL /\ n = l.tail
        /\ k # N => /\ l.next[n] = c[k + 1] /\ k + 1 \in 1..N /\ n # l.tail
                    /\ c[k + 1] # n /\ c[k + 1] # t
                    /\ \A i \in 0..N : i # k + 1 => c[i] # c[k + 1]
    <2>1. k = N => l.next[n] = NULL /\ n = l.tail
      BY ChainFacts
    <2>2. k # N => k \in 0..(N - 1) /\ k + 1 \in 1..N /\ k + 1 \in 0..N /\ N \in 0..N /\ k \in 0..N
      BY <1>1
    <2>3. k # N => l.next[n] = c[k + 1]
      BY <2>2, ChainFacts
    <2>4. k # N => \A i \in 0..N : i # k + 1 => c[i] # c[k + 1]
      BY <2>2, <1>1
    <2>5. k \in 0..N /\ j \in 0..N /\ k # k + 1 /\ j # k + 1
      BY <1>1
    <2> QED
      BY <2>1, <2>2, <2>3, <2>4, <2>5, <1>1
  <1>4. /\ a \in List /\ a.tail = IF k = N THEN p ELSE c[N]
        /\ a.next[g] = n /\ a.next[n] = t /\ a.next[p] = IF k = N THEN NULL ELSE c[k + 1]
        /\ \A q \in AllNodes : q # p /\ q # g /\ q # n => a.next[q] = l.next[q]
        /\ a.pre[n] = g /\ a.pre[t] = n /\ (k # N => a.pre[c[k + 1]] = p)
        /\ \A q \in AllNodes : q # t /\ q # n /\ (k # N => q # c[k + 1]) => a.pre[q] = l.pre[q]
    <2>1. PICK nx, above, pr :
             /\ nx = [[[l.next EXCEPT ![p] = l.next[n]] EXCEPT ![n] = t] EXCEPT ![g] = n]
             /\ above = IF k = N THEN l.pre ELSE [l.pre EXCEPT ![c[k + 1]] = p]
             /\ pr = [[above EXCEPT ![n] = g] EXCEPT ![t] = n]
      OBVIOUS
    <2>2. /\ a.next = nx /\ a.pre = pr /\ a.tail = IF k = N THEN p ELSE c[N]
          /\ a = [next |-> nx, pre |-> pr, tail |-> IF k = N THEN p ELSE c[N]]
      BY <2>1, <1>1, <1>3 DEF MoveBefore
    <2>3. l.next[n] \in Pointer
      BY <1>2
    <2>4. /\ nx \in [AllNodes -> Pointer] /\ nx[g] = n /\ nx[n] = t /\ nx[p] = l.next[n]
          /\ \A q \in AllNodes : q # p /\ q # g /\ q # n => nx[q] = l.next[q]
      BY <2>1, <2>3, <1>2
    <2>5. /\ above \in [AllNodes -> Pointer] /\ (k # N => above[c[k + 1]] = p)
          /\ \A q \in AllNodes : (k # N => q # c[k + 1]) => above[q] = l.pre[q]
      <3>1. CASE k = N
        BY <3>1, <2>1, <1>2
      <3>2. CASE k # N
        <4>1. c[k + 1] \in AllNodes
          BY <3>2, <1>1, <1>3
        <4> QED
          BY <4>1, <3>2, <2>1, <1>2
      <3> QED
        BY <3>1, <3>2
    <2>6. /\ pr \in [AllNodes -> Pointer] /\ pr[n] = g /\ pr[t] = n /\ (k # N => pr[c[k + 1]] = p)
          /\ \A q \in AllNodes : q # t /\ q # n /\ (k # N => q # c[k + 1]) => pr[q] = l.pre[q]
      <3>1. /\ pr \in [AllNodes -> Pointer] /\ pr[n] = g /\ pr[t] = n
            /\ \A q \in AllNodes : q # t /\ q # n => pr[q] = above[q]
        BY <2>1, <2>5, <1>2
      <3>2. k # N => c[k + 1] \in AllNodes /\ c[k + 1] # t /\ c[k + 1] # n
        BY <1>1, <1>3
      <3> QED
        BY <3>1, <3>2, <2>5
    <2>7. a \in List
      <3>1. p \in AllNodes /\ c[N] \in AllNodes /\ N \in 0..N
        BY <1>1, <1>2
      <3> QED
        BY <3>1, <2>2, <2>4, <2>6 DEF List, AllNodes
    <2> QED
      BY <2>2, <2>4, <2>6, <2>7, <1>3
  <1>5. /\ d \in [0..N -> AllNodes]
        /\ \A i \in 0..N : i < j \/ i > k => d[i] = c[i]
        /\ \A i \in 0..N : j < i /\ i <= k => d[i] = c[i - 1]
        /\ d[j] = n
    <2>1. \A i \in 0..N : j < i /\ i <= k => i - 1 \in 0..N
      BY <1>1
    <2>2. k \in 0..N /\ j \in 0..N
      BY <1>1
    <2> QED
      BY <2>1, <2>2, <1>1 DEF InFront
  <1>7. d[0] = ListHead
    BY <1>1, <1>5
  <1>8. \A i, m \in 0..N : d[i] = d[m] => i = m
    <2>1. \A i \in 0..N : j < i /\ i <= k => i - 1 \in 0..N
      BY <1>1
    <2>2. k \in 0..N /\ j \in 0..N
      BY <1>1
    <2> QED
      BY <2>1, <2>2, <1>1, <1>5
  <1>9. a.pre[ListHead] = NULL
    <2>1. ListHead \in AllNodes /\ ListHead # t /\ ListHead # n /\ (k # N => ListHead # c[k + 1])
      BY <1>1, <1>3 DEF AllNodes
    <2>2. l.pre[ListHead] = NULL
      BY ChainFacts
    <2> QED
      BY <2>1, <2>2, <1>4
  <1>10. ASSUME NEW i \in 1..N
         PROVE  a.pre[d[i]] = d[i - 1]
    <2>1. i \in 0..N /\ i - 1 \in 0..N /\ i - 1 + 1 = i
      BY <1>1
    <2>2. CASE i < j \/ i > k + 1
      <3>1. l.pre[c[i]] = c[i - 1]
        BY ChainFacts
      <3>2. d[i] = c[i] /\ d[i - 1] = c[i - 1]
        BY <2>1, <2>2, <1>5
      <3>3. c[i] # t /\ c[i] # n /\ (k # N => c[i] # c[k + 1]) /\ c[i] \in AllNodes
        BY <2>1, <2>2, <1>1, <1>2, <1>3
      <3> QED
        BY <3>1, <3>2, <3>3, <1>4
    <2>3. CASE i = j
      <3>1. d[i] = n /\ d[i - 1] = g
        BY <2>1, <2>3, <1>5
      <3> QED
        BY <3>1, <1>4
    <2>4. CASE i = j + 1
      <3>1. d[i] = t /\ d[i - 1] = n
        <4>1. j < i /\ i <= k /\ i - 1 = j
          BY <2>4, <1>1
        <4> QED
          BY <4>1, <2>1, <1>5
      <3> QED
        BY <3>1, <1>4
    <2>5. CASE j + 1 < i /\ i <= k
      <3>1. i - 1 \in 1..N /\ i - 1 - 1 = i - 2 /\ j < i /\ j < i - 1 /\ i - 1 <= k
        BY <2>5, <1>1
      <3>2. l.pre[c[i - 1]] = c[i - 2]
        <4>1. l.pre[c[i - 1]] = c[i - 1 - 1]
          BY <3>1, ChainPre
        <4> QED
          BY <4>1, <3>1
      <3>3. d[i] = c[i - 1] /\ d[i - 1] = c[i - 2]
        BY <3>1, <2>1, <2>5, <1>5
      <3>4. c[i - 1] # t /\ c[i - 1] # n /\ (k # N => c[i - 1] # c[k + 1]) /\ c[i - 1] \in AllNodes
        BY <3>1, <2>1, <2>5, <1>1, <1>2, <1>3
      <3> QED
        BY <3>2, <3>3, <3>4, <1>4
    <2>6. CASE i = k + 1
      <3>1. d[i] = c[k + 1] /\ d[i - 1] = p /\ k # N
        <4>1. i > k /\ j < i - 1 /\ i - 1 <= k /\ i - 1 = k /\ k # N
          BY <2>6, <1>1
        <4> QED
          BY <4>1, <2>6, <2>1, <1>5
      <3> QED
        BY <3>1, <1>4
    <2> QED
      BY <2>2, <2>3, <2>4, <2>5, <2>6, <1>1
  <1>11. ASSUME NEW i \in 0..(N - 1)
         PROVE  a.next[d[i]] = d[i + 1]
    <2>1. i \in 0..N /\ i + 1 \in 0..N /\ i + 1 - 1 = i
      BY <1>1
    <2>2. CASE i < j - 1 \/ i > k
      <3>1. l.next[c[i]] = c[i + 1]
        BY ChainFacts
      <3>2. d[i] = c[i] /\ d[i + 1] = c[i + 1]
        BY <2>1, <2>2, <1>5
      <3>3. c[i] # p /\ c[i] # n /\ c[i] # g /\ c[i] \in AllNodes
        BY <2>1, <2>2, <1>1, <1>2
      <3> QED
        BY <3>1, <3>2, <3>3, <1>4
    <2>3. CASE i = j - 1
      <3>1. d[i] = g /\ d[i + 1] = n
        <4>1. i < j /\ i + 1 = j
          BY <2>3, <1>1
        <4> QED
          BY <4>1, <2>1, <2>3, <1>5
      <3> QED
        BY <3>1, <1>4
    <2>4. CASE i = j
      <3>1. d[i] = n /\ d[i + 1] = t
        <4>1. j < i + 1 /\ i + 1 <= k
          BY <2>4, <1>1
        <4> QED
          BY <4>1, <2>1, <2>4, <1>5
      <3> QED
        BY <3>1, <1>4
    <2>5. CASE j < i /\ i < k
      <3>1. i - 1 \in 0..(N - 1) /\ i - 1 + 1 = i /\ i <= k /\ i + 1 <= k /\ j < i + 1
        BY <2>5, <1>1
      <3>2. l.next[c[i - 1]] = c[i]
        BY <3>1, ChainNext
      <3>3. d[i] = c[i - 1] /\ d[i + 1] = c[i]
        BY <3>1, <2>1, <2>5, <1>5
      <3>4. c[i - 1] # p /\ c[i - 1] # n /\ c[i - 1] # g /\ c[i - 1] \in AllNodes
        <4>1. i - 1 \in 0..N /\ i - 1 # k - 1 /\ i - 1 # k /\ i - 1 # j - 1
          BY <2>5, <1>1
        <4> QED
          BY <4>1, <1>1, <1>2
      <3> QED
        BY <3>2, <3>3, <3>4, <1>4
    <2>6. CASE i = k
      <3>1. d[i] = p /\ d[i + 1] = c[k + 1] /\ k # N
        <4>1. j < i /\ i <= k /\ i + 1 > k /\ k # N
          BY <2>6, <1>1
        <4> QED
          BY <4>1, <2>1, <2>6, <1>5
      <3> QED
        BY <3>1, <1>4
    <2> QED
      BY <2>2, <2>3, <2>4, <2>5, <2>6, <1>1
  <1>12. a.tail = d[N] /\ a.next[d[N]] = NULL
    <2>1. N \in 0..N
      BY <1>1
    <2>2. CASE k = N
      <3>1. d[N] = p
        BY <2>1, <2>2, <1>5
      <3> QED
        BY <3>1, <2>2, <1>4
    <2>3. CASE k # N
      <3>1. d[N] = c[N] /\ c[N] # p /\ c[N] # n /\ c[N] # g /\ c[N] \in AllNodes
        BY <2>1, <2>3, <1>1, <1>2, <1>5
      <3>2. l.next[c[N]] = NULL
        BY ChainFacts
      <3> QED
        BY <2>3, <3>1, <3>2, <1>4
    <2> QED
      BY <2>2, <2>3
  <1>13. ASSUME NEW m \in Nodes, \A i \in 1..N : d[i] # m
         PROVE  a.pre[m] = NULL /\ a.next[m] = NULL
    <2>1. ASSUME NEW i \in 1..N PROVE c[i] # m
      <3>1. CASE i < j \/ i > k
        BY <3>1, <1>5, <1>13
      <3>2. CASE i = k
        BY <3>2, <1>5, <1>13
      <3>3. CASE j <= i /\ i < k
        <4>1. i + 1 \in 1..N /\ i + 1 \in 0..N /\ j < i + 1 /\ i + 1 <= k /\ i + 1 - 1 = i
          BY <3>3, <1>1
        <4> QED
          BY <4>1, <1>5, <1>13
      <3> QED
        BY <3>1, <3>2, <3>3, <1>1
    <2>2. m \in AllNodes /\ l.pre[m] = NULL /\ l.next[m] = NULL
      BY <2>1 DEF Chain, AllNodes
    <2>3. m # n /\ m # p /\ m # t /\ (k # N => m # c[k + 1])
      BY <2>1, <1>1, <1>3
    <2>4. m # g
      <3>1. m # ListHead
        BY HeadAssumption
      <3>2. j - 1 = 0 \/ j - 1 \in 1..N
        BY <1>1
      <3> QED
        BY <3>1, <3>2, <2>1, <1>1
    <2> QED
      BY <2>2, <2>3, <2>4, <1>4
  <1>14. Chain(a, N, d)
    <2>1. a \in List /\ N \in Nat /\ d \in [0..N -> AllNodes]
      BY <1>1, <1>4, <1>5
    <2> QED
      BY <2>1, <1>7, <1>8, <1>9, <1>10, <1>11, <1>12, <1>13 DEF Chain
  <1> QED
    BY <1>14

(***************************************************************************)
(* The sorting loop over next (list.c:19) ends just behind the colder      *)
(* nodes that follow, and before the first that is not colder.             *)
(***************************************************************************)
LEMMA LastColderIs ==
    ASSUME NEW l, NEW N, NEW c, Chain(l, N, c), NEW h \in [Nodes -> Nat], NEW k \in 1..N
    PROVE  \E j \in k..N :
             /\ LastColder(l, h, c[k]) = c[j]
             /\ \A m \in (k + 1)..j : h[c[k]] > h[c[m]]
             /\ j # N => ~(h[c[k]] > h[c[j + 1]])
  <1> PICK n : n = c[k]
    OBVIOUS
  <1> DEFINE last[t \in Nodes] ==
                IF l.next[t] # NULL /\ h[n] > h[l.next[t]] THEN last[l.next[t]] ELSE t
             P(f) == f = [t \in Nodes |->
                            IF l.next[t] # NULL /\ h[n] > h[l.next[t]] THEN f[l.next[t]] ELSE t]
             Stop(i, j) == /\ j \in i..N
                           /\ j # N => ~(h[n] > h[c[j + 1]])
                           /\ \A m \in (i + 1)..j : h[n] > h[c[m]]
  <1>1. /\ N \in Nat /\ n \in Nodes /\ c \in [0..N -> AllNodes]
        /\ \A i \in 1..N : c[i] \in Nodes
        /\ \A i, j \in 1..N : c[i] = c[j] => i = j
        /\ \A i \in 1..N : i # N => i + 1 \in 1..N /\ l.next[c[i]] = c[i + 1] /\ c[i + 1] # NULL
        /\ l.next[c[N]] = NULL
    <2>1. ASSUME NEW i \in 1..N, i # N
          PROVE  i + 1 \in 1..N /\ l.next[c[i]] = c[i + 1] /\ c[i + 1] # NULL
      <3>1. i + 1 \in 1..N /\ i \in 0..(N - 1)
        BY <2>1, ChainFacts
      <3> QED
        BY <3>1, ChainFacts
    <2>2. \A i \in 1..N : i \in 0..N
      BY ChainFacts
    <2> QED
      BY <2>1, <2>2, ChainFacts
  <1>2. \A i \in 1..N : \E j : Stop(i, j)
    <2> TAKE i \in 1..N
    <2>1. PICK T : T = {j \in Nat : j \in i..N /\ (j # N => ~(h[n] > h[c[j + 1]]))}
      OBVIOUS
    <2>2. N \in T
      BY <2>1, <1>1
    <2>3. PICK j \in T : \A m \in T : j <= m
      BY <2>1, <2>2, LeastNumber
    <2>4. j \in i..N /\ (j # N => ~(h[n] > h[c[j + 1]]))
      BY <2>1, <2>3
    <2>5. ASSUME NEW m \in (i + 1)..j
          PROVE  h[n] > h[c[m]]
      <3>1. m - 1 \in Nat /\ m - 1 \in i..N /\ m - 1 # N /\ m - 1 + 1 = m /\ ~(j <= m - 1)
        BY <2>4, <1>1
      <3>2. m - 1 \notin T
        BY <3>1, <2>3
      <3> QED
        BY <3>1, <3>2, <2>1
    <2> QED
      BY <2>4, <2>5
  <1>3. ASSUME NEW i \in 1..N, NEW j, Stop(i, j), NEW m, Stop(i, m)
        PROVE  j = m
    <2>1. ASSUME NEW x \in i..N, NEW y \in i..N, Stop(i, x), Stop(i, y), x < y
          PROVE  FALSE
      <3>1. x # N /\ x + 1 \in (i + 1)..y
        BY <2>1, <1>1
      <3> QED
        BY <3>1, <2>1
    <2>2. j \in i..N /\ m \in i..N
      BY <1>3
    <2>3. j < m \/ m < j \/ j = m
      BY <2>2, <1>1
    <2> QED
      BY <2>1, <2>2, <2>3, <1>3
  <1>4. ASSUME NEW i \in 1..N, i # N, h[n] > h[c[i + 1]], NEW j, Stop(i + 1, j)
        PROVE  Stop(i, j)
    <2>1. j \in (i + 1)..N /\ i + 1 \in 1..N
      BY <1>1, <1>4
    <2>2. j \in i..N
      BY <2>1, <1>1
    <2>3. ASSUME NEW m \in (i + 1)..j
          PROVE  h[n] > h[c[m]]
      <3>1. m = i + 1 \/ m \in ((i + 1) + 1)..j
        BY <2>1, <1>1
      <3> QED
        BY <3>1, <1>4
    <2> QED
      BY <2>2, <2>3, <1>4
  <1>5. ASSUME NEW i \in 1..N, i = N \/ ~(h[n] > h[c[i + 1]])
        PROVE  Stop(i, i)
    BY <1>1, <1>5
  <1> HIDE DEF Stop
  <1>6. PICK g : g = [t \in Nodes |-> IF \E i \in 1..N : c[i] = t
                                      THEN c[CHOOSE j : Stop(CHOOSE i \in 1..N : c[i] = t, j)] ELSE t]
    OBVIOUS
  <1>7. ASSUME NEW i \in 1..N, NEW j, Stop(i, j)
        PROVE  g[c[i]] = c[j]
    <2>1. (CHOOSE m \in 1..N : c[m] = c[i]) = i
      BY <1>1
    <2>2. (CHOOSE m : Stop(i, m)) = j
      BY <1>3, <1>7
    <2>3. c[i] \in Nodes /\ \E m \in 1..N : c[m] = c[i]
      BY <1>1
    <2> QED
      BY <2>1, <2>2, <2>3, <1>6
  <1>8. \A t \in Nodes : g[t] = IF l.next[t] # NULL /\ h[n] > h[l.next[t]] THEN g[l.next[t]] ELSE t
    <2> TAKE t \in Nodes
    <2>1. CASE \A i \in 1..N : c[i] # t
      <3>1. l.next[t] = NULL
        BY <2>1 DEF Chain
      <3> QED
        BY <3>1, <2>1, <1>6
    <2>2. ASSUME NEW i \in 1..N, c[i] = t
          PROVE  g[t] = IF l.next[t] # NULL /\ h[n] > h[l.next[t]] THEN g[l.next[t]] ELSE t
      <3>1. CASE i # N /\ h[n] > h[c[i + 1]]
        <4>1. i + 1 \in 1..N /\ l.next[t] = c[i + 1] /\ c[i + 1] # NULL
          BY <2>2, <3>1, <1>1
        <4>2. PICK j : Stop(i + 1, j)
          BY <4>1, <1>2
        <4>3. g[c[i]] = c[j] /\ g[c[i + 1]] = c[j]
          BY <3>1, <4>1, <4>2, <1>4, <1>7
        <4> QED
          BY <2>2, <3>1, <4>1, <4>3
      <3>2. CASE i = N \/ ~(h[n] > h[c[i + 1]])
        <4>1. g[c[i]] = c[i]
          BY <3>2, <1>5, <1>7
        <4>2. l.next[t] = NULL \/ ~(h[n] > h[l.next[t]])
          BY <2>2, <3>2, <1>1
        <4> QED
          BY <2>2, <4>1, <4>2
      <3> QED
        BY <3>1, <3>2
    <2> QED
      BY <2>1, <2>2
  <1>9. P(g)
    <2>1. g = [t \in Nodes |-> g[t]]
      BY <1>6
    <2> QED
      BY <2>1, <1>8
  <1>10. P(last)
    <2>1. P(CHOOSE f : P(f))
      <3> HIDE DEF P
      <3> QED
        BY <1>9
    <2> QED
      BY <2>1, Zenon
  <1>11. LastColder(l, h, n) = last[n]
    BY Zenon DEF LastColder
  <1> HIDE DEF last
  <1>12. \A t \in Nodes :
            last[t] = IF l.next[t] # NULL /\ h[n] > h[l.next[t]] THEN last[l.next[t]] ELSE t
    BY <1>10
  <1> HIDE DEF P
  <1>13. PICK j : Stop(k, j)
    BY <1>2
  <1>14. /\ j \in k..N /\ (j # N => ~(h[n] > h[c[j + 1]]))
         /\ \A m \in (k + 1)..j : h[n] > h[c[m]]
    BY <1>13 DEF Stop
  <1>15. PICK T : T = {m \in Nat : m <= j - k /\ last[c[j - m]] # c[j]}
    OBVIOUS
  <1>16. T = {}
    <2> SUFFICES ASSUME T # {} PROVE FALSE
      OBVIOUS
    <2>1. PICK m \in T : \A i \in T : m <= i
      BY <1>15, LeastNumber
    <2>2. m \in Nat /\ m <= j - k /\ last[c[j - m]] # c[j]
      BY <2>1, <1>15
    <2>3. m # 0
      <3>1. j \in 1..N /\ c[j] \in Nodes /\ j - 0 = j
        BY <1>1, <1>14
      <3>2. l.next[c[j]] = NULL \/ ~(h[n] > h[l.next[c[j]]])
        BY <3>1, <1>1, <1>14
      <3>3. last[c[j]] = c[j]
        BY <3>1, <3>2, <1>12
      <3> QED
        BY <3>1, <3>3, <2>2
    <2>4. PICK i : i = j - m
      OBVIOUS
    <2>5. /\ i \in 1..N /\ i # N /\ i + 1 \in (k + 1)..j /\ i + 1 \in 1..N
          /\ m - 1 \in Nat /\ j - (m - 1) = i + 1 /\ m - 1 <= j - k /\ ~(m <= m - 1)
      BY <2>2, <2>3, <2>4, <1>1, <1>14
    <2>6. last[c[i + 1]] = c[j]
      <3>1. m - 1 \notin T
        BY <2>1, <2>5
      <3> QED
        BY <3>1, <2>5, <1>15
    <2>7. l.next[c[i]] = c[i + 1] /\ c[i + 1] # NULL /\ h[n] > h[c[i + 1]] /\ c[i] \in Nodes
      BY <2>5, <1>1, <1>14
    <2>8. last[c[i]] = last[c[i + 1]]
      BY <2>7, <1>12
    <2> QED
      BY <2>2, <2>4, <2>6, <2>8
  <1>17. last[c[k]] = c[j]
    <2>1. j - k \in Nat /\ j - (j - k) = k
      BY <1>1, <1>14
    <2> QED
      BY <2>1, <1>15, <1>16
  <1> QED
    BY <1>11, <1>14, <1>17

(***************************************************************************)
(* The sorting loop over pre (list.c:35) ends at the first of the hotter   *)
(* nodes in front, at the latest behind the head, whose degree is -1.      *)
(***************************************************************************)
LEMMA FirstHotterIs ==
    ASSUME NEW l, NEW N, NEW c, Chain(l, N, c), NEW h \in [Nodes -> Nat], NEW k \in 1..N
    PROVE  \E j \in 1..k :
             /\ FirstHotter(l, h, c[k]) = c[j]
             /\ \A m \in j..(k - 1) : h[c[k]] < h[c[m]]
             /\ j # 1 => ~(h[c[k]] < h[c[j - 1]])
  <1> PICK n : n = c[k]
    OBVIOUS
  <1> DEFINE D == {m \in Nodes : l.pre[m] # NULL}
             first[t \in D] == IF h[n] < Degree(h, l.pre[t]) THEN first[l.pre[t]] ELSE t
             P(f) == f = [t \in D |-> IF h[n] < Degree(h, l.pre[t]) THEN f[l.pre[t]] ELSE t]
             Stop(i, j) == /\ j \in 1..i
                           /\ j # 1 => ~(h[n] < h[c[j - 1]])
                           /\ \A m \in j..(i - 1) : h[n] < h[c[m]]
  <1>1. /\ N \in Nat /\ n \in Nodes /\ h[n] \in Nat
        /\ \A t \in D : \E i \in 1..N : c[i] = t
        /\ \A i \in 1..N : c[i] \in Nodes /\ c[i] \in D /\ h[c[i]] \in Nat
        /\ \A i, j \in 1..N : c[i] = c[j] => i = j
        /\ \A i \in 1..N : i # 1 => /\ i - 1 \in 1..N /\ l.pre[c[i]] = c[i - 1]
                                    /\ Degree(h, c[i - 1]) = h[c[i - 1]]
        /\ ~(h[n] < Degree(h, l.pre[c[1]]))
    <2>1. ASSUME NEW i \in 1..N, i # 1
          PROVE  i - 1 \in 1..N /\ l.pre[c[i]] = c[i - 1] /\ Degree(h, c[i - 1]) = h[c[i - 1]]
      <3>1. i - 1 \in 1..N
        BY <2>1, ChainFacts
      <3> QED
        BY <3>1, ChainFacts DEF Degree
    <2>2. N \in Nat /\ n \in Nodes /\ h[n] \in Nat /\ \A i \in 1..N : c[i] \in Nodes /\ h[c[i]] \in Nat
      BY ChainFacts
    <2>3. \A i, j \in 1..N : c[i] = c[j] => i = j
      <3>1. \A i \in 1..N : i \in 0..N
        BY <2>2
      <3> QED
        BY <3>1, ChainFacts
    <2>4. D = In(l)
      BY DEF In
    <2>5. (\A t \in D : \E i \in 1..N : c[i] = t) /\ \A i \in 1..N : c[i] \in D
      BY <2>4, ChainFacts
    <2>6. ~(h[n] < Degree(h, l.pre[c[1]]))
      <3>1. 1 \in 1..N /\ 1 - 1 = 0
        BY <2>2
      <3>2. l.pre[c[1]] = ListHead
        <4>1. l.pre[c[1]] = c[1 - 1]
          BY <3>1, ChainPre
        <4>2. c[0] = ListHead
          BY ChainFacts
        <4> QED
          BY <4>1, <4>2, <3>1
      <3> QED
        BY <2>2, <3>2 DEF Degree
    <2> QED
      BY <2>1, <2>2, <2>3, <2>5, <2>6
  <1> HIDE DEF D
  <1>2. \A i \in 1..N : \E j : Stop(i, j)
    <2> TAKE i \in 1..N
    <2>1. PICK T : T = {m \in Nat : i - m \in 1..i /\ (i - m # 1 => ~(h[n] < h[c[i - m - 1]]))}
      OBVIOUS
    <2>2. i - 1 \in T
      BY <2>1, <1>1
    <2>3. PICK m \in T : \A x \in T : m <= x
      BY <2>1, <2>2, LeastNumber
    <2>4. PICK j : j = i - m
      OBVIOUS
    <2>5. m \in Nat /\ j \in 1..i /\ (j # 1 => ~(h[n] < h[c[j - 1]]))
      BY <2>1, <2>3, <2>4
    <2>6. ASSUME NEW x \in j..(i - 1)
          PROVE  h[n] < h[c[x]]
      <3>1. PICK y : y = i - x - 1
        OBVIOUS
      <3>2. y \in Nat /\ i - y \in 1..i /\ i - y # 1 /\ i - y - 1 = x /\ ~(m <= y)
        BY <3>1, <2>4, <2>5, <1>1
      <3>3. y \notin T
        BY <3>2, <2>3
      <3> QED
        BY <3>2, <3>3, <2>1
    <2> QED
      BY <2>5, <2>6
  <1>3. ASSUME NEW i \in 1..N, NEW j, Stop(i, j), NEW m, Stop(i, m)
        PROVE  j = m
    <2>1. ASSUME NEW x \in 1..i, NEW y \in 1..i, Stop(i, x), Stop(i, y), x < y
          PROVE  FALSE
      <3>1. y # 1 /\ y - 1 \in x..(i - 1)
        BY <2>1, <1>1
      <3> QED
        BY <3>1, <2>1
    <2>2. j \in 1..i /\ m \in 1..i
      BY <1>3
    <2>3. j < m \/ m < j \/ j = m
      BY <2>2, <1>1
    <2> QED
      BY <2>1, <2>2, <2>3, <1>3
  <1>4. ASSUME NEW i \in 1..N, i # 1, h[n] < h[c[i - 1]], NEW j, Stop(i - 1, j)
        PROVE  Stop(i, j)
    <2>1. j \in 1..(i - 1) /\ i - 1 \in 1..N
      BY <1>1, <1>4
    <2>2. j \in 1..i
      BY <2>1, <1>1
    <2>3. ASSUME NEW m \in j..(i - 1)
          PROVE  h[n] < h[c[m]]
      <3>1. m = i - 1 \/ m \in j..((i - 1) - 1)
        BY <2>1, <1>1
      <3> QED
        BY <3>1, <1>4
    <2> QED
      BY <2>2, <2>3, <1>4
  <1>5. ASSUME NEW i \in 1..N, i = 1 \/ ~(h[n] < h[c[i - 1]])
        PROVE  Stop(i, i)
    BY <1>1, <1>5
  <1> HIDE DEF Stop
  <1>6. PICK g : g = [t \in D |-> c[CHOOSE j : Stop(CHOOSE i \in 1..N : c[i] = t, j)]]
    OBVIOUS
  <1>7. ASSUME NEW i \in 1..N, NEW j, Stop(i, j)
        PROVE  g[c[i]] = c[j]
    <2>1. (CHOOSE m \in 1..N : c[m] = c[i]) = i
      BY <1>1
    <2>2. (CHOOSE m : Stop(i, m)) = j
      BY <1>3, <1>7
    <2>3. c[i] \in D
      BY <1>1
    <2> QED
      BY <2>1, <2>2, <2>3, <1>6
  <1>8. \A t \in D : g[t] = IF h[n] < Degree(h, l.pre[t]) THEN g[l.pre[t]] ELSE t
    <2> TAKE t \in D
    <2>1. PICK i \in 1..N : c[i] = t
      BY <1>1
    <2>2. CASE i # 1 /\ h[n] < h[c[i - 1]]
      <3>1. i - 1 \in 1..N /\ l.pre[t] = c[i - 1] /\ Degree(h, l.pre[t]) = h[c[i - 1]]
        BY <2>1, <2>2, <1>1
      <3>2. PICK j : Stop(i - 1, j)
        BY <3>1, <1>2
      <3>3. g[c[i]] = c[j] /\ g[c[i - 1]] = c[j]
        BY <2>2, <3>1, <3>2, <1>4, <1>7
      <3> QED
        BY <2>1, <2>2, <3>1, <3>3
    <2>3. CASE i = 1 \/ ~(h[n] < h[c[i - 1]])
      <3>1. g[c[i]] = c[i]
        BY <2>3, <1>5, <1>7
      <3>2. ~(h[n] < Degree(h, l.pre[t]))
        BY <2>1, <2>3, <1>1
      <3> QED
        BY <2>1, <3>1, <3>2
    <2> QED
      BY <2>2, <2>3
  <1>9. P(g)
    <2>1. g = [t \in D |-> g[t]]
      BY <1>6
    <2> QED
      BY <2>1, <1>8
  <1>10. P(first)
    <2>1. P(CHOOSE f : P(f))
      <3> HIDE DEF P
      <3> QED
        BY <1>9
    <2> QED
      BY <2>1, Zenon
  <1>11. FirstHotter(l, h, n) = first[n]
    BY Zenon DEF FirstHotter, D
  <1> HIDE DEF first
  <1>12. \A t \in D : first[t] = IF h[n] < Degree(h, l.pre[t]) THEN first[l.pre[t]] ELSE t
    BY <1>10
  <1> HIDE DEF P
  <1>13. PICK j : Stop(k, j)
    BY <1>2
  <1>14. /\ j \in 1..k
         /\ j # 1 => ~(h[n] < h[c[j - 1]])
         /\ \A m \in j..(k - 1) : h[n] < h[c[m]]
    BY <1>13 DEF Stop
  <1>15. PICK T : T = {m \in Nat : m <= k - j /\ first[c[j + m]] # c[j]}
    OBVIOUS
  <1>16. T = {}
    <2> SUFFICES ASSUME T # {} PROVE FALSE
      OBVIOUS
    <2>1. PICK m \in T : \A i \in T : m <= i
      BY <1>15, LeastNumber
    <2>2. m \in Nat /\ m <= k - j /\ first[c[j + m]] # c[j]
      BY <2>1, <1>15
    <2>3. m # 0
      <3>1. j \in 1..N /\ c[j] \in D /\ j + 0 = j
        BY <1>1, <1>14
      <3>2. ~(h[n] < Degree(h, l.pre[c[j]]))
        BY <3>1, <1>1, <1>14
      <3>3. first[c[j]] = c[j]
        BY <3>1, <3>2, <1>12
      <3> QED
        BY <3>1, <3>3, <2>2
    <2>4. PICK i : i = j + m
      OBVIOUS
    <2>5. /\ i \in 1..N /\ i # 1 /\ i - 1 \in j..(k - 1)
          /\ m - 1 \in Nat /\ j + (m - 1) = i - 1 /\ m - 1 <= k - j /\ ~(m <= m - 1)
      <3>1. N \in Nat /\ j \in 1..k
        BY <1>1, <1>14
      <3> QED
        BY <3>1, <2>2, <2>3, <2>4
    <2>6. first[c[i - 1]] = c[j]
      <3>1. m - 1 \notin T
        BY <2>1, <2>5
      <3> QED
        BY <3>1, <2>5, <1>15
    <2>7. l.pre[c[i]] = c[i - 1] /\ h[n] < Degree(h, l.pre[c[i]]) /\ c[i] \in D
      BY <2>5, <1>1, <1>14
    <2>8. first[c[i]] = first[c[i - 1]]
      BY <2>7, <1>12
    <2> QED
      BY <2>2, <2>4, <2>6, <2>8
  <1>17. first[c[k]] = c[j]
    <2>1. k - j \in Nat /\ j + (k - j) = k
      BY <1>1, <1>14
    <2> QED
      BY <2>1, <1>15, <1>16
  <1> QED
    BY <1>11, <1>14, <1>17

InOrder(N, c, h) == \A i, j \in 1..N : i < j => h[c[i]] <= h[c[j]]

(* a is at or before b. *)
Ahead(N, c, a, b) == \E i, j \in 0..N : i <= j /\ c[i] = a /\ c[j] = b

(* Nodes other than n are as they were to each other. *)
SameOthers(N, c, M, d, n) ==
    \A a, b : a # n /\ b # n => (Ahead(N, c, a, b) <=> Ahead(M, d, a, b))

(* f sends the numbers of nodes other than n in c to theirs in d, in order. *)
Shifts(f, N, c, M, d, n) ==
    /\ \A i \in 0..N : c[i] # n => f[i] \in 0..M /\ d[f[i]] = c[i]
    /\ \A i, j \in 0..N : i <= j /\ c[i] # n /\ c[j] # n => f[i] <= f[j]

(***************************************************************************)
(* Two numberings that go into each other in order, node n aside, say the  *)
(* same of the order of the nodes other than n.                            *)
(***************************************************************************)
LEMMA ShiftKeepsOthers ==
    ASSUME NEW N, NEW c, NEW M, NEW d, NEW n,
           NEW f, Shifts(f, N, c, M, d, n), NEW g, Shifts(g, M, d, N, c, n)
    PROVE  SameOthers(N, c, M, d, n)
  <1> SUFFICES ASSUME NEW a, NEW b, a # n, b # n
               PROVE  Ahead(N, c, a, b) <=> Ahead(M, d, a, b)
    BY DEF SameOthers
  <1>1. ASSUME Ahead(N, c, a, b) PROVE Ahead(M, d, a, b)
    <2> PICK i, j \in 0..N : i <= j /\ c[i] = a /\ c[j] = b
      BY <1>1 DEF Ahead
    <2>1. f[i] \in 0..M /\ f[j] \in 0..M /\ f[i] <= f[j] /\ d[f[i]] = a /\ d[f[j]] = b
      BY DEF Shifts
    <2> QED
      BY <2>1 DEF Ahead
  <1>2. ASSUME Ahead(M, d, a, b) PROVE Ahead(N, c, a, b)
    <2> PICK i, j \in 0..M : i <= j /\ d[i] = a /\ d[j] = b
      BY <1>2 DEF Ahead
    <2>1. g[i] \in 0..N /\ g[j] \in 0..N /\ g[i] <= g[j] /\ c[g[i]] = a /\ c[g[j]] = b
      BY DEF Shifts
    <2> QED
      BY <2>1 DEF Ahead
  <1> QED
    BY <1>1, <1>2

(* A node added at the tail (list.c:159) leaves the others as they were. *)
LEMMA AddedOthers ==
    ASSUME NEW N \in Nat, NEW c, NEW n
    PROVE  SameOthers(N, c, N + 1, Added(N, c, n), n)
  <1> PICK d, f : d = Added(N, c, n) /\ f = [i \in 0..(N + 1) |-> i]
    OBVIOUS
  <1>1. d[N + 1] = n /\ \A i \in 0..N : d[i] = c[i]
    BY DEF Added
  <1>2. \A i \in 0..(N + 1) : f[i] = i /\ (i = N + 1 \/ i \in 0..N)
    OBVIOUS
  <1>3. \A i \in 0..N : i \in 0..(N + 1)
    OBVIOUS
  <1>4. \A i \in 0..N : f[i] \in 0..(N + 1) /\ d[f[i]] = c[i]
    BY <1>1, <1>2, <1>3
  <1>5. \A i \in 0..(N + 1) : d[i] # n => f[i] \in 0..N /\ c[f[i]] = d[i]
    BY <1>1, <1>2
  <1>6. /\ \A i, j \in 0..N : i <= j => f[i] <= f[j]
        /\ \A i, j \in 0..(N + 1) : i <= j => f[i] <= f[j]
    BY <1>2, <1>3
  <1> HIDE DEF Added
  <1>7. Shifts(f, N, c, N + 1, d, n) /\ Shifts(f, N + 1, d, N, c, n)
    BY <1>4, <1>5, <1>6 DEF Shifts
  <1>8. SameOthers(N, c, N + 1, d, n)
    BY <1>7, ShiftKeepsOthers
  <1> QED
    BY <1>8

(* A node deleted (list.c:194) leaves the others as they were. *)
LEMMA WithoutOthers ==
    ASSUME NEW N \in Nat, NEW c, NEW k \in 1..N
    PROVE  SameOthers(N, c, N - 1, Without(N, c, k), c[k])
  <1> PICK n, d, f, g : /\ n = c[k] /\ d = Without(N, c, k)
                        /\ f = [i \in 0..N |-> IF i < k THEN i ELSE i - 1]
                        /\ g = [i \in 0..(N - 1) |-> IF i < k THEN i ELSE i + 1]
    OBVIOUS
  <1>1. \A i \in 0..(N - 1) : d[i] = IF i < k THEN c[i] ELSE c[i + 1]
    BY DEF Without
  <1>2. \A i \in 0..N : i # k => f[i] \in 0..(N - 1) /\ d[f[i]] = c[i]
    <2> TAKE i \in 0..N
    <2>1. CASE i < k
      BY <2>1, <1>1
    <2>2. CASE i > k
      <3>1. f[i] = i - 1 /\ i - 1 \in 0..(N - 1) /\ ~(i - 1 < k) /\ i - 1 + 1 = i
        BY <2>2
      <3> QED
        BY <3>1, <1>1
    <2> QED
      BY <2>1, <2>2
  <1>3. \A i, j \in 0..N : i <= j => f[i] <= f[j]
    OBVIOUS
  <1>4. \A i \in 0..(N - 1) : g[i] \in 0..N /\ c[g[i]] = d[i]
    BY <1>1
  <1>5. \A i, j \in 0..(N - 1) : i <= j => g[i] <= g[j]
    OBVIOUS
  <1>6. \A i \in 0..N : c[i] # n => i # k
    OBVIOUS
  <1>7. Shifts(f, N, c, N - 1, d, n) /\ Shifts(g, N - 1, d, N, c, n)
    BY <1>2, <1>3, <1>4, <1>5, <1>6 DEF Shifts
  <1>8. SameOthers(N, c, N - 1, d, n)
    BY <1>7, ShiftKeepsOthers
  <1> QED
    BY <1>8

(***************************************************************************)
(* A node moved towards the tail (list.c:21) leaves the others as they     *)
(* were.                                                                   *)
(***************************************************************************)
LEMMA BehindOthers ==
    ASSUME NEW N \in Nat, NEW c, NEW k \in 1..N, NEW j \in 1..N, k < j
    PROVE  SameOthers(N, c, N, Behind(N, c, k, j), c[k])
  <1> PICK n, d, f, g : /\ n = c[k] /\ d = Behind(N, c, k, j)
                        /\ f = [i \in 0..N |-> IF i < k \/ i > j THEN i ELSE i - 1]
                        /\ g = [i \in 0..N |-> IF i < k \/ i > j THEN i ELSE i + 1]
    OBVIOUS
  <1>1. /\ \A i \in 0..N : i < k \/ i > j => d[i] = c[i]
        /\ \A i \in 0..N : k <= i /\ i < j => d[i] = c[i + 1]
        /\ d[j] = n
    BY DEF Behind
  <1>2. \A i \in 0..N : i # k => f[i] \in 0..N /\ d[f[i]] = c[i]
    <2> TAKE i \in 0..N
    <2>1. CASE i < k \/ i > j
      BY <2>1, <1>1
    <2>2. CASE k < i /\ i <= j
      <3>1. f[i] = i - 1 /\ i - 1 \in 0..N /\ k <= i - 1 /\ i - 1 < j /\ i - 1 + 1 = i
        BY <2>2
      <3> QED
        BY <3>1, <1>1
    <2> QED
      BY <2>1, <2>2
  <1>3. \A i, m \in 0..N : i <= m => f[i] <= f[m]
    OBVIOUS
  <1>4. \A i \in 0..N : i # j => g[i] \in 0..N /\ c[g[i]] = d[i]
    <2> TAKE i \in 0..N
    <2>1. CASE i < k \/ i > j
      BY <2>1, <1>1
    <2>2. CASE k <= i /\ i < j
      <3>1. g[i] = i + 1 /\ i + 1 \in 0..N
        BY <2>2
      <3> QED
        BY <3>1, <2>2, <1>1
    <2> QED
      BY <2>1, <2>2
  <1>5. \A i, m \in 0..N : i <= m /\ i # j /\ m # j => g[i] <= g[m]
    OBVIOUS
  <1>6. \A i \in 0..N : (c[i] # n => i # k) /\ (d[i] # n => i # j)
    BY <1>1
  <1>7. Shifts(f, N, c, N, d, n) /\ Shifts(g, N, d, N, c, n)
    BY <1>2, <1>3, <1>4, <1>5, <1>6 DEF Shifts
  <1>8. SameOthers(N, c, N, d, n)
    BY <1>7, ShiftKeepsOthers
  <1> QED
    BY <1>8

(***************************************************************************)
(* A node moved towards the head (list.c:37) leaves the others as they     *)
(* were.                                                                   *)
(***************************************************************************)
LEMMA InFrontOthers ==
    ASSUME NEW N \in Nat, NEW c, NEW k \in 1..N, NEW j \in 1..N, j < k
    PROVE  SameOthers(N, c, N, InFront(N, c, k, j), c[k])
  <1> PICK n, d, f, g : /\ n = c[k] /\ d = InFront(N, c, k, j)
                        /\ f = [i \in 0..N |-> IF i < j \/ i > k THEN i ELSE i + 1]
                        /\ g = [i \in 0..N |-> IF i < j \/ i > k THEN i ELSE i - 1]
    OBVIOUS
  <1>1. /\ \A i \in 0..N : i < j \/ i > k => d[i] = c[i]
        /\ \A i \in 0..N : j < i /\ i <= k => d[i] = c[i - 1]
        /\ d[j] = n
    BY DEF InFront
  <1>2. \A i \in 0..N : i # k => f[i] \in 0..N /\ d[f[i]] = c[i]
    <2> TAKE i \in 0..N
    <2>1. CASE i < j \/ i > k
      BY <2>1, <1>1
    <2>2. CASE j <= i /\ i < k
      <3>1. f[i] = i + 1 /\ i + 1 \in 0..N /\ j < i + 1 /\ i + 1 <= k /\ i + 1 - 1 = i
        BY <2>2
      <3> QED
        BY <3>1, <1>1
    <2> QED
      BY <2>1, <2>2
  <1>3. \A i, m \in 0..N : i <= m /\ i # k /\ m # k => f[i] <= f[m]
    OBVIOUS
  <1>4. \A i \in 0..N : i # j => g[i] \in 0..N /\ c[g[i]] = d[i]
    BY <1>1
  <1>5. \A i, m \in 0..N : i <= m => g[i] <= g[m]
    OBVIOUS
  <1>6. \A i \in 0..N : (c[i] # n => i # k) /\ (d[i] # n => i # j)
    BY <1>1
  <1>7. Shifts(f, N, c, N, d, n) /\ Shifts(g, N, d, N, c, n)
    BY <1>2, <1>3, <1>4, <1>5, <1>6 DEF Shifts
  <1>8. SameOthers(N, c, N, d, n)
    BY <1>7, ShiftKeepsOthers
  <1> QED
    BY <1>8

(***************************************************************************)
(* With the others in order, a node moved behind those colder than it, up  *)
(* to one that is not, leaves them all in order.                           *)
(***************************************************************************)
LEMMA BehindInOrder ==
    ASSUME NEW N \in Nat, NEW c, NEW h, \A i \in 1..N : h[c[i]] \in Nat,
           NEW k \in 1..N, NEW j \in 1..N, k < j,
           \A x, y \in 1..N : x < y /\ x # k /\ y # k => h[c[x]] <= h[c[y]],
           \A m \in (k + 1)..j : h[c[k]] > h[c[m]],
           j # N => ~(h[c[k]] > h[c[j + 1]])
    PROVE  InOrder(N, Behind(N, c, k, j), h)
  <1> PICK n, d : n = c[k] /\ d = Behind(N, c, k, j)
    OBVIOUS
  <1>1. /\ \A i \in 1..N : i < k \/ i > j => d[i] = c[i]
        /\ \A i \in 1..N : k <= i /\ i < j => d[i] = c[i + 1] /\ i + 1 \in 1..N
        /\ d[j] = n
    BY DEF Behind
  <1>2. h[n] \in Nat
    OBVIOUS
  <1>3. ASSUME NEW x \in 1..N, x < j
        PROVE  h[d[x]] <= h[n]
    <2>1. CASE x < k
      <3>1. k + 1 \in 1..N /\ k + 1 \in (k + 1)..j /\ x < k + 1
        BY <2>1
      <3>2. h[c[x]] <= h[c[k + 1]] /\ h[c[k + 1]] < h[n] /\ d[x] = c[x]
        BY <3>1, <2>1, <1>1
      <3> QED
        BY <3>1, <3>2, <1>2
    <2>2. CASE k <= x
      <3>1. x + 1 \in (k + 1)..j /\ d[x] = c[x + 1] /\ x + 1 \in 1..N
        BY <2>2, <1>1, <1>3
      <3> QED
        BY <3>1, <1>2
    <2> QED
      BY <2>1, <2>2
  <1>4. ASSUME NEW y \in 1..N, j < y
        PROVE  h[n] <= h[d[y]]
    <2>1. j # N /\ j + 1 \in 1..N /\ d[y] = c[y]
      BY <1>1, <1>4
    <2>2. h[n] <= h[c[j + 1]]
      BY <2>1, <1>2
    <2>3. h[c[j + 1]] <= h[c[y]]
      <3>1. y = j + 1 \/ j + 1 < y
        BY <1>4
      <3> QED
        BY <3>1, <2>1, <1>4
    <2> QED
      BY <2>1, <2>2, <2>3, <1>2
  <1>5. ASSUME NEW x \in 1..N, NEW y \in 1..N, x < y, x # j, y # j
        PROVE  h[d[x]] <= h[d[y]]
    <2>1. \A i \in 1..N : i # j => \/ (i < k \/ i > j) /\ d[i] = c[i]
                                   \/ (k <= i /\ i < j) /\ d[i] = c[i + 1] /\ i + 1 \in 1..N
      BY <1>1
    <2>2. PICK v \in 1..N : /\ d[x] = c[v] /\ v # k
                           /\ (v = x \/ (v = x + 1 /\ x < j /\ k <= x))
                           /\ (v = x => x < k \/ x > j)
      BY <2>1, <1>5
    <2>3. PICK w \in 1..N : /\ d[y] = c[w] /\ w # k
                           /\ (w = y \/ (w = y + 1 /\ y < j /\ k <= y))
                           /\ (w = y => y < k \/ y > j)
      BY <2>1, <1>5
    <2>4. v < w
      BY <2>2, <2>3, <1>5
    <2> QED
      BY <2>2, <2>3, <2>4
  <1>6. InOrder(N, d, h)
    <2> SUFFICES ASSUME NEW x \in 1..N, NEW y \in 1..N, x < y
                 PROVE  h[d[x]] <= h[d[y]]
      BY DEF InOrder
    <2>1. CASE x = j
      BY <2>1, <1>1, <1>4
    <2>2. CASE y = j
      BY <2>2, <1>1, <1>3
    <2>3. CASE x # j /\ y # j
      BY <2>3, <1>5
    <2> QED
      BY <2>1, <2>2, <2>3
  <1> QED
    BY <1>6

(***************************************************************************)
(* With the others in order, a node moved in front of those hotter than    *)
(* it, up to one that is not, leaves them all in order.                    *)
(***************************************************************************)
LEMMA InFrontInOrder ==
    ASSUME NEW N \in Nat, NEW c, NEW h, \A i \in 1..N : h[c[i]] \in Nat,
           NEW k \in 1..N, NEW j \in 1..N, j < k,
           \A x, y \in 1..N : x < y /\ x # k /\ y # k => h[c[x]] <= h[c[y]],
           \A m \in j..(k - 1) : h[c[k]] < h[c[m]],
           j # 1 => ~(h[c[k]] < h[c[j - 1]])
    PROVE  InOrder(N, InFront(N, c, k, j), h)
  <1> PICK n, d : n = c[k] /\ d = InFront(N, c, k, j)
    OBVIOUS
  <1>1. /\ \A i \in 1..N : i < j \/ i > k => d[i] = c[i]
        /\ \A i \in 1..N : j < i /\ i <= k => d[i] = c[i - 1] /\ i - 1 \in 1..N
        /\ d[j] = n
    BY DEF InFront
  <1>2. h[n] \in Nat
    OBVIOUS
  <1>3. ASSUME NEW y \in 1..N, j < y
        PROVE  h[n] <= h[d[y]]
    <2>1. CASE y > k
      <3>1. k - 1 \in 1..N /\ k - 1 \in j..(k - 1) /\ k - 1 < y
        BY <2>1
      <3>2. h[c[k - 1]] <= h[c[y]] /\ h[n] < h[c[k - 1]] /\ d[y] = c[y]
        BY <3>1, <2>1, <1>1
      <3> QED
        BY <3>1, <3>2, <1>2
    <2>2. CASE y <= k
      <3>1. y - 1 \in j..(k - 1) /\ d[y] = c[y - 1] /\ y - 1 \in 1..N
        BY <2>2, <1>1, <1>3
      <3> QED
        BY <3>1, <1>2
    <2> QED
      BY <2>1, <2>2
  <1>4. ASSUME NEW x \in 1..N, x < j
        PROVE  h[d[x]] <= h[n]
    <2>1. j # 1 /\ j - 1 \in 1..N /\ d[x] = c[x]
      BY <1>1, <1>4
    <2>2. h[c[j - 1]] <= h[n]
      BY <2>1, <1>2
    <2>3. h[c[x]] <= h[c[j - 1]]
      <3>1. x = j - 1 \/ x < j - 1
        BY <1>4
      <3> QED
        BY <3>1, <2>1, <1>4
    <2> QED
      BY <2>1, <2>2, <2>3, <1>2
  <1>5. ASSUME NEW x \in 1..N, NEW y \in 1..N, x < y, x # j, y # j
        PROVE  h[d[x]] <= h[d[y]]
    <2>1. \A i \in 1..N : i # j => \/ (i < j \/ i > k) /\ d[i] = c[i]
                                   \/ (j < i /\ i <= k) /\ d[i] = c[i - 1] /\ i - 1 \in 1..N
      BY <1>1
    <2>2. PICK v \in 1..N : /\ d[x] = c[v] /\ v # k
                           /\ (v = x \/ (v = x - 1 /\ j < x /\ x <= k))
                           /\ (v = x => x < j \/ x > k)
      BY <2>1, <1>5
    <2>3. PICK w \in 1..N : /\ d[y] = c[w] /\ w # k
                           /\ (w = y \/ (w = y - 1 /\ j < y /\ y <= k))
                           /\ (w = y => y < j \/ y > k)
      BY <2>1, <1>5
    <2>4. v < w
      BY <2>2, <2>3, <1>5
    <2> QED
      BY <2>2, <2>3, <2>4
  <1>6. InOrder(N, d, h)
    <2> SUFFICES ASSUME NEW x \in 1..N, NEW y \in 1..N, x < y
                 PROVE  h[d[x]] <= h[d[y]]
      BY DEF InOrder
    <2>1. CASE x = j
      BY <2>1, <1>1, <1>3
    <2>2. CASE y = j
      BY <2>2, <1>1, <1>4
    <2>3. CASE x # j /\ y # j
      BY <2>3, <1>5
    <2> QED
      BY <2>1, <2>2, <2>3
  <1> QED
    BY <1>6

(***************************************************************************)
(* buffer_in_remote_sorting and its copies (list.c:14, 64, 115): when      *)
(* only one node may be out of order, they put the list in order and       *)
(* leave the other nodes as they were to each other.                       *)
(***************************************************************************)
LEMMA SortingOrders ==
    ASSUME NEW l, NEW N, NEW c, Chain(l, N, c), NEW h \in [Nodes -> Nat], NEW k \in 1..N,
           \A x, y \in 1..N : x < y /\ x # k /\ y # k => h[c[x]] <= h[c[y]]
    PROVE  \E d : /\ Chain(Sorting(l, h, c[k]), N, d) /\ InOrder(N, d, h)
                  /\ SameOthers(N, c, N, d, c[k]) /\ \E i \in 1..N : d[i] = c[k]
  <1> PICK n : n = c[k]
    OBVIOUS
  <1>1. /\ N \in Nat /\ n \in Nodes /\ h[n] \in Nat
        /\ \A i \in 1..N : c[i] \in Nodes /\ h[c[i]] \in Nat /\ Degree(h, c[i]) = h[c[i]]
    BY ChainFacts DEF Degree
  <1>2. /\ k = N => l.next[n] = NULL
        /\ k # N => k + 1 \in 1..N /\ l.next[n] = c[k + 1] /\ c[k + 1] # NULL
    <2>1. k # N => k \in 0..(N - 1) /\ k + 1 \in 1..N
      BY <1>1
    <2> QED
      BY <2>1, ChainFacts
  <1>3. /\ k = 1 => ~(h[n] < Degree(h, l.pre[n]))
        /\ k # 1 => k - 1 \in 1..N /\ Degree(h, l.pre[n]) = h[c[k - 1]]
    <2>1. l.pre[n] = c[k - 1]
      BY ChainFacts
    <2>2. k = 1 => c[k - 1] = ListHead
      BY ChainFacts
    <2>3. k # 1 => k - 1 \in 1..N
      BY <1>1
    <2> QED
      BY <2>1, <2>2, <2>3, <1>1 DEF Degree
  <1>4. CASE k # N /\ h[n] > h[c[k + 1]]
    <2>1. PICK j \in k..N : /\ LastColder(l, h, n) = c[j]
                            /\ \A m \in (k + 1)..j : h[n] > h[c[m]]
                            /\ j # N => ~(h[n] > h[c[j + 1]])
      BY LastColderIs
    <2>2. k < j /\ j \in 1..N
      <3>1. j # k
        BY <2>1, <1>4
      <3> QED
        BY <3>1, <1>1
    <2>3. Sorting(l, h, n) = MoveBehind(l, n, c[j])
      BY <2>1, <1>2, <1>4 DEF Sorting
    <2>4. Chain(MoveBehind(l, n, c[j]), N, Behind(N, c, k, j))
      BY <2>2, ChainBehind
    <2>5. InOrder(N, Behind(N, c, k, j), h)
      BY <2>1, <2>2, <1>1, BehindInOrder
    <2>6. SameOthers(N, c, N, Behind(N, c, k, j), n)
      BY <2>2, <1>1, BehindOthers
    <2>7. Behind(N, c, k, j)[j] = n
      BY <2>2, <1>1 DEF Behind
    <2> QED
      BY <2>2, <2>3, <2>4, <2>5, <2>6, <2>7
  <1>5. CASE ~(k # N /\ h[n] > h[c[k + 1]]) /\ h[n] < Degree(h, l.pre[n])
    <2>1. k # 1 /\ k - 1 \in 1..N /\ h[n] < h[c[k - 1]]
      BY <1>3, <1>5
    <2>2. PICK j \in 1..k : /\ FirstHotter(l, h, n) = c[j]
                            /\ \A m \in j..(k - 1) : h[n] < h[c[m]]
                            /\ j # 1 => ~(h[n] < h[c[j - 1]])
      BY FirstHotterIs
    <2>3. j < k /\ j \in 1..N
      <3>1. j # k
        BY <2>1, <2>2
      <3> QED
        BY <3>1, <1>1
    <2>4. Sorting(l, h, n) = MoveBefore(l, n, c[j])
      BY <2>2, <1>2, <1>5 DEF Sorting
    <2>5. Chain(MoveBefore(l, n, c[j]), N, InFront(N, c, k, j))
      BY <2>3, ChainBefore
    <2>6. InOrder(N, InFront(N, c, k, j), h)
      BY <2>2, <2>3, <1>1, InFrontInOrder
    <2>7. SameOthers(N, c, N, InFront(N, c, k, j), n)
      BY <2>3, <1>1, InFrontOthers
    <2>8. InFront(N, c, k, j)[j] = n
      BY <2>3, <1>1 DEF InFront
    <2> QED
      BY <2>3, <2>4, <2>5, <2>6, <2>7, <2>8
  <1>6. CASE ~(k # N /\ h[n] > h[c[k + 1]]) /\ ~(h[n] < Degree(h, l.pre[n]))
    <2>1. Sorting(l, h, n) = l
      BY <1>2, <1>6 DEF Sorting
    <2>2. ASSUME NEW x \in 1..N, NEW y \in 1..N, x < y
          PROVE  h[c[x]] <= h[c[y]]
      <3>1. CASE x = k
        <4>1. k # N /\ h[n] <= h[c[k + 1]] /\ k + 1 \in 1..N
          BY <3>1, <2>2, <1>1, <1>2, <1>6
        <4>2. y = k + 1 \/ h[c[k + 1]] <= h[c[y]]
          BY <3>1, <4>1, <2>2
        <4> QED
          BY <3>1, <4>1, <4>2, <1>1
      <3>2. CASE y = k
        <4>1. k # 1 /\ h[c[k - 1]] <= h[n] /\ k - 1 \in 1..N
          BY <3>2, <2>2, <1>1, <1>3, <1>6
        <4>2. x = k - 1 \/ h[c[x]] <= h[c[k - 1]]
          BY <3>2, <4>1, <2>2
        <4> QED
          BY <3>2, <4>1, <4>2, <1>1
      <3>3. CASE x # k /\ y # k
        BY <3>3, <2>2
      <3> QED
        BY <3>1, <3>2, <3>3
    <2>3. InOrder(N, c, h) /\ SameOthers(N, c, N, c, n)
      BY <2>2 DEF InOrder, SameOthers
    <2> QED
      BY <2>1, <2>3
  <1> QED
    BY <1>4, <1>5, <1>6
=============================================================================

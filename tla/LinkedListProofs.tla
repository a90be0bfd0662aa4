-------------------------- MODULE LinkedListProofs --------------------------
(***************************************************************************)
(* A list that handlers insert into, delete from and re-sort while a walk  *)
(* is under way: what walks see, and that it implements HotList.           *)
(***************************************************************************)
EXTENDS LinkedList, ListsProofs

WalkRecord == [at        : AllNodes \cup {NULL},
               for       : Nodes \cup {NULL},
               disturbed : BOOLEAN,
               outcome   : {"none", "missed", "found"}]

(* What a walk looks for is further on, unless it has been disturbed. *)
WalkOK(N, c) ==
    /\ walk \in WalkRecord
    /\ Walking => walk.for \in Nodes
    /\ Walking /\ ~walk.disturbed => walk.at # walk.for /\ Ahead(N, c, walk.at, walk.for)
    /\ MissedOnlyIfMoved

Inv ==
    /\ hot \in [Nodes -> Hot]
    /\ \E N, c : Chain(list, N, c) /\ InOrder(N, c, hot) /\ WalkOK(N, c)

(* Node n alone is not as it was. *)
Changed(n, N, c, M, d) ==
    /\ hot' \in [Nodes -> Hot] /\ \A m \in Nodes \ {n} : hot'[m] = hot[m]
    /\ Chain(list', M, d) /\ InOrder(M, d, hot') /\ SameOthers(N, c, M, d, n)

(***************************************************************************)
(* A handler that adds a node and sorts it in (rpc.c:606, 840) leaves an   *)
(* ordered list with that node in it.                                      *)
(***************************************************************************)
LEMMA InsertChanges ==
    ASSUME hot \in [Nodes -> Hot], NEW N, NEW c, Chain(list, N, c), InOrder(N, c, hot),
           NEW n \in Nodes, NEW h \in Hot, Insert(n, h)
    PROVE  \E M, d : Changed(n, N, c, M, d) /\ \E i \in 1..M : d[i] = n
  <1>1. /\ N \in Nat /\ (\A i \in 1..N : c[i] \in Nodes) /\ Hot \subseteq Nat
        /\ n \notin In(list) /\ In(list) = {c[i] : i \in 1..N}
    BY ChainFacts, HotAssumption DEF Insert, Listed, In
  <1>2. PICK l, k, e, g : /\ l = AddToTail(list, n) /\ k = N + 1 /\ e = Added(N, c, n)
                          /\ g = [hot EXCEPT ![n] = h]
    OBVIOUS
  <1>3. hot' = g /\ list' = Sorting(l, g, n)
    BY <1>2 DEF Insert
  <1>4. g \in [Nodes -> Hot] /\ g \in [Nodes -> Nat] /\ \A m \in Nodes \ {n} : g[m] = hot[m]
    BY <1>1, <1>2
  <1>5. \A i \in 1..N : c[i] # n
    BY <1>1
  <1>6. Chain(l, k, e)
    BY <1>2, <1>5, ChainAdd
  <1>7. e[k] = n /\ k \in 1..k /\ \A i \in 1..k : i # k => i \in 1..N /\ e[i] = c[i]
    BY <1>1, <1>2 DEF Added
  <1>8. \A x, y \in 1..k : x < y /\ x # k /\ y # k => g[e[x]] <= g[e[y]]
    BY <1>1, <1>4, <1>5, <1>7 DEF InOrder
  <1>9. PICK d : /\ Chain(Sorting(l, g, n), k, d) /\ InOrder(k, d, g)
                 /\ SameOthers(k, e, k, d, n) /\ \E i \in 1..k : d[i] = n
    <2>1. \E d : /\ Chain(Sorting(l, g, e[k]), k, d) /\ InOrder(k, d, g)
                 /\ SameOthers(k, e, k, d, e[k]) /\ \E i \in 1..k : d[i] = e[k]
      BY SMTT(30), <1>4, <1>6, <1>7, <1>8, SortingOrders
    <2> QED
      BY <2>1, <1>7
  <1>10. SameOthers(N, c, k, e, n)
    BY <1>1, <1>2, AddedOthers
  <1>11. SameOthers(N, c, k, d, n)
    BY <1>9, <1>10 DEF SameOthers
  <1>12. Changed(n, N, c, k, d)
    BY <1>3, <1>4, <1>9, <1>11 DEF Changed
  <1> QED
    BY <1>9, <1>12

(* update_lru_data (list.c:422) leaves an ordered list of the same nodes. *)
LEMMA UpdateChanges ==
    ASSUME hot \in [Nodes -> Hot], NEW N, NEW c, Chain(list, N, c), InOrder(N, c, hot),
           NEW n \in Nodes, NEW h \in Hot, Update(n, h)
    PROVE  \E d : Changed(n, N, c, N, d) /\ \E i \in 1..N : d[i] = n
  <1>1. /\ N \in Nat /\ (\A i \in 1..N : c[i] \in Nodes) /\ Hot \subseteq Nat /\ n \in In(list)
        /\ \A i, j \in 1..N : c[i] = c[j] => i = j
    <2>1. N \in Nat /\ \A i \in 1..N : i \in 0..N
      BY ChainFacts
    <2> QED
      BY <2>1, ChainFacts, HotAssumption DEF Update, Listed, In
  <1>2. PICK k \in 1..N : c[k] = n
    BY <1>1, ChainFacts
  <1>3. PICK g : g = [hot EXCEPT ![n] = h]
    OBVIOUS
  <1>4. hot' = g /\ list' = Sorting(list, g, n)
    BY <1>3 DEF Update
  <1>5. g \in [Nodes -> Hot] /\ g \in [Nodes -> Nat] /\ \A m \in Nodes \ {n} : g[m] = hot[m]
    BY <1>1, <1>3
  <1>6. \A x, y \in 1..N : x < y /\ x # k /\ y # k => g[c[x]] <= g[c[y]]
    BY <1>1, <1>2, <1>5 DEF InOrder
  <1>7. PICK d : /\ Chain(Sorting(list, g, n), N, d) /\ InOrder(N, d, g)
                 /\ SameOthers(N, c, N, d, n) /\ \E i \in 1..N : d[i] = n
    BY <1>2, <1>5, <1>6, SortingOrders
  <1>8. Changed(n, N, c, N, d)
    BY <1>4, <1>5, <1>7 DEF Changed
  <1> QED
    BY <1>7, <1>8

(* A handler that deletes a node leaves an ordered list without it. *)
LEMMA DeleteChanges ==
    ASSUME hot \in [Nodes -> Hot], NEW N, NEW c, Chain(list, N, c), InOrder(N, c, hot),
           NEW n \in Nodes, Delete(n)
    PROVE  \E d : Changed(n, N, c, N - 1, d) /\ \A i \in 1..(N - 1) : d[i] # n
  <1>1. N \in Nat /\ n \in In(list) /\ \A i, j \in 0..N : c[i] = c[j] => i = j
    BY ChainFacts DEF Delete, Listed, In
  <1>2. PICK k \in 1..N : c[k] = n
    BY <1>1, ChainFacts
  <1>3. PICK d : d = Without(N, c, k)
    OBVIOUS
  <1>4. Chain(list', N - 1, d)
    BY <1>2, <1>3, ChainDel DEF Delete
  <1>5. SameOthers(N, c, N - 1, d, n)
    BY <1>1, <1>2, <1>3, WithoutOthers
  <1>6. /\ \A i \in 1..(N - 1) : i < k => d[i] = c[i] /\ i \in 1..N
        /\ \A i \in 1..(N - 1) : i >= k => d[i] = c[i + 1] /\ i + 1 \in 1..N
    BY <1>1, <1>3 DEF Without
  <1>7. \A i \in 1..(N - 1) : d[i] # n
    BY <1>1, <1>2, <1>6
  <1>8. InOrder(N - 1, d, hot)
    <2> SUFFICES ASSUME NEW x \in 1..(N - 1), NEW y \in 1..(N - 1), x < y
                 PROVE  hot[d[x]] <= hot[d[y]]
      BY DEF InOrder
    <2>0. ASSUME NEW i \in 1..(N - 1)
          PROVE  \E v \in 1..N : d[i] = c[v] /\ ((v = i /\ i < k) \/ (v = i + 1 /\ i >= k))
      <3>1. CASE i < k
        <4>1. i \in 1..N /\ d[i] = c[i]
          BY <3>1, <1>6
        <4> QED
          BY <4>1, <3>1
      <3>2. CASE i >= k
        <4>1. i + 1 \in 1..N /\ d[i] = c[i + 1]
          BY <3>2, <1>6
        <4> QED
          BY <4>1, <3>2
      <3> QED
        BY <3>1, <3>2
    <2>1. PICK v \in 1..N : d[x] = c[v] /\ ((v = x /\ x < k) \/ (v = x + 1 /\ x >= k))
      BY <2>0
    <2>2. PICK w \in 1..N : d[y] = c[w] /\ ((w = y /\ y < k) \/ (w = y + 1 /\ y >= k))
      BY <2>0
    <2>3. v < w
      BY <2>1, <2>2
    <2> QED
      BY <2>1, <2>2, <2>3 DEF InOrder
  <1>9. hot' = hot
    BY DEF Delete
  <1>10. Changed(n, N, c, N - 1, d)
    BY <1>4, <1>5, <1>8, <1>9 DEF Changed
  <1> QED
    BY <1>7, <1>10

(* A walk goes on as it was while the nodes it is about are left alone. *)
LEMMA ChangeKeepsWalk ==
    ASSUME NEW N, NEW c, WalkOK(N, c), NEW n \in Nodes, NEW M, NEW d, Changed(n, N, c, M, d),
           \/ Disturb(n)
           \/ UNCHANGED walk /\ ~\E i \in 0..N : c[i] = n
    PROVE  WalkOK(M, d)'
  <1>1. /\ walk' \in WalkRecord /\ walk'.at = walk.at /\ walk'.for = walk.for
        /\ walk'.outcome = walk.outcome /\ (walk.disturbed => walk'.disturbed)
        /\ Walking' => walk'.for \in Nodes
    BY DEF WalkOK, WalkRecord, Disturb, Walking
  <1>2. ASSUME Walking', ~walk'.disturbed
        PROVE  walk'.at # walk'.for /\ Ahead(M, d, walk'.at, walk'.for)
    <2>1. Walking /\ ~walk.disturbed /\ walk.at # walk.for /\ Ahead(N, c, walk.at, walk.for)
      BY <1>1, <1>2 DEF Walking, WalkOK
    <2>2. walk.at # n /\ walk.for # n
      <3>1. CASE Disturb(n)
        BY <3>1, <2>1, <1>2 DEF Disturb, WalkOK, WalkRecord
      <3>2. CASE ~\E i \in 0..N : c[i] = n
        BY <3>2, <2>1 DEF Ahead
      <3> QED
        BY <3>1, <3>2
    <2> QED
      BY <2>1, <2>2, <1>1 DEF Changed, SameOthers
  <1>3. MissedOnlyIfMoved'
    BY <1>1 DEF WalkOK, MissedOnlyIfMoved
  <1> QED
    BY <1>1, <1>2, <1>3 DEF WalkOK

(* Whatever the order of a list is, there is one way to number it. *)
LEMMA ChainUnique ==
    ASSUME NEW l, NEW N, NEW c, Chain(l, N, c), NEW d, Chain(l, N, d)
    PROVE  \A i \in 0..N : c[i] = d[i]
  <1>1. [i \in 1..N |-> c[i]] = [i \in 1..N |-> d[i]]
    <2>1. Order(l) = [i \in 1..N |-> c[i]]
      BY ChainOrder
    <2>2. Order(l) = [i \in 1..N |-> d[i]]
      BY ChainOrder
    <2> QED
      BY <2>1, <2>2
  <1>2. N \in Nat /\ c[0] = ListHead /\ d[0] = ListHead
    BY ChainFacts
  <1> QED
    BY <1>1, <1>2

(* The empty list of init_list (list.c:261) satisfies the invariant. *)
LEMMA InitInv == Init => Inv
  <1> SUFFICES ASSUME Init PROVE Inv
    OBVIOUS
  <1>1. hot \in [Nodes -> Hot]
    BY HotAssumption DEF Init
  <1>2. PICK c : c = [i \in 0..0 |-> ListHead]
    OBVIOUS
  <1>3. /\ list \in List /\ list.tail = ListHead
        /\ \A n \in AllNodes : list.pre[n] = NULL /\ list.next[n] = NULL
    BY DEF Init, EmptyList, List, Pointer, AllNodes
  <1>4. c[0] = ListHead /\ c \in [0..0 -> AllNodes] /\ \A i \in 0..0 : i = 0
    BY <1>2 DEF AllNodes
  <1>5. Chain(list, 0, c)
    <2>1. ListHead \in AllNodes /\ Nodes \subseteq AllNodes
      BY DEF AllNodes
    <2>2. 1..0 = {} /\ 0..(0 - 1) = {} /\ 0 \in Nat
      OBVIOUS
    <2>3. \A i, j \in 0..0 : c[i] = c[j] => i = j
      BY <1>4
    <2> QED
      BY <1>3, <1>4, <2>1, <2>2, <2>3 DEF Chain
  <1>6. InOrder(0, c, hot)
    BY DEF InOrder
  <1>7. WalkOK(0, c)
    BY DEF Init, NoWalk, WalkOK, WalkRecord, Walking, MissedOnlyIfMoved
  <1> QED
    BY <1>1, <1>5, <1>6, <1>7 DEF Inv

(***************************************************************************)
(* An insertion keeps the invariant: the new node is none that a walk      *)
(* stands on or looks for.                                                 *)
(***************************************************************************)
LEMMA InsertKeeps ==
    ASSUME Inv, NEW n \in Nodes, NEW h \in Hot, Insert(n, h)
    PROVE  Inv'
  <1>1. PICK N, c : Chain(list, N, c) /\ InOrder(N, c, hot) /\ WalkOK(N, c)
    BY DEF Inv
  <1>2. PICK M, d : Changed(n, N, c, M, d)
    BY <1>1, InsertChanges DEF Inv
  <1>3. UNCHANGED walk /\ ~\E i \in 0..N : c[i] = n
    <2>1. n \notin In(list) /\ n # ListHead
      BY HeadAssumption DEF Insert, Listed, In
    <2>2. N \in Nat /\ c[0] = ListHead /\ In(list) = {c[i] : i \in 1..N}
      BY <1>1, ChainFacts
    <2>3. \A i \in 0..N : i = 0 \/ i \in 1..N
      BY <2>2
    <2> QED
      BY <2>1, <2>2, <2>3 DEF Insert
  <1>4. WalkOK(M, d)'
    BY <1>1, <1>2, <1>3, ChangeKeepsWalk
  <1> QED
    BY <1>2, <1>4 DEF Inv, Changed

(***************************************************************************)
(* A deletion keeps the invariant: it disturbs the walks about its node,   *)
(* and no others.                                                          *)
(***************************************************************************)
LEMMA DeleteKeeps ==
    ASSUME Inv, NEW n \in Nodes, Delete(n)
    PROVE  Inv'
  <1>1. PICK N, c : Chain(list, N, c) /\ InOrder(N, c, hot) /\ WalkOK(N, c)
    BY DEF Inv
  <1>2. PICK d : Changed(n, N, c, N - 1, d)
    BY <1>1, DeleteChanges DEF Inv
  <1>3. Disturb(n)
    BY DEF Delete
  <1>4. WalkOK(N - 1, d)'
    BY <1>1, <1>2, <1>3, ChangeKeepsWalk
  <1> QED
    BY <1>2, <1>4 DEF Inv, Changed

(***************************************************************************)
(* A re-sort keeps the invariant: it disturbs the walks about its node     *)
(* when it moves it, and no others.                                        *)
(***************************************************************************)
LEMMA UpdateKeeps ==
    ASSUME Inv, NEW n \in Nodes, NEW h \in Hot, Update(n, h)
    PROVE  Inv'
  <1>1. PICK N, c : Chain(list, N, c) /\ InOrder(N, c, hot) /\ WalkOK(N, c)
    BY DEF Inv
  <1>2. PICK d : Changed(n, N, c, N, d)
    BY <1>1, UpdateChanges DEF Inv
  <1>3. CASE list' # list
    <2>1. Disturb(n)
      BY <1>3 DEF Update
    <2>2. WalkOK(N, d)'
      BY <1>1, <1>2, <2>1, ChangeKeepsWalk
    <2> QED
      BY <1>2, <2>2 DEF Inv, Changed
  <1>4. CASE list' = list
    <2>1. \A i \in 0..N : c[i] = d[i]
      <3>1. Chain(list, N, d)
        BY <1>2, <1>4 DEF Changed
      <3> QED
        BY <1>1, <3>1, ChainUnique
    <2>2. UNCHANGED walk
      BY <1>4 DEF Update
    <2>3. \A a, b : Ahead(N, d, a, b) <=> Ahead(N, c, a, b)
      BY <2>1 DEF Ahead
    <2>4. WalkOK(N, d)'
      BY <1>1, <2>2, <2>3 DEF WalkOK, Walking, MissedOnlyIfMoved
    <2> QED
      BY <1>2, <2>4 DEF Inv, Changed
  <1> QED
    BY <1>3, <1>4

(* A walk starts at the head, before every node it may look for. *)
LEMMA StartWalkKeeps ==
    ASSUME Inv, NEW n \in Nodes, StartWalk(n)
    PROVE  Inv'
  <1>1. PICK N, c : Chain(list, N, c) /\ InOrder(N, c, hot) /\ WalkOK(N, c)
    BY DEF Inv
  <1>2. UNCHANGED <<list, hot>>
    BY DEF StartWalk
  <1>3. walk' = [at |-> ListHead, for |-> n, disturbed |-> FALSE, outcome |-> "none"]
    BY DEF StartWalk, NoWalk
  <1>4. ListHead # n /\ Ahead(N, c, ListHead, n)
    <2>1. n \in In(list) /\ n # ListHead
      BY HeadAssumption DEF StartWalk, Listed, In
    <2>2. PICK i \in 1..N : c[i] = n
      BY <1>1, <2>1, ChainFacts
    <2>3. N \in Nat /\ c[0] = ListHead
      BY <1>1, ChainFacts
    <2>4. 0 \in 0..N /\ i \in 0..N /\ 0 <= i
      BY <2>3
    <2> QED
      BY <2>1, <2>2, <2>3, <2>4 DEF Ahead
  <1>5. WalkOK(N, c)'
    BY <1>2, <1>3, <1>4 DEF WalkOK, WalkRecord, Walking, MissedOnlyIfMoved, AllNodes
  <1>6. hot \in [Nodes -> Hot]
    BY DEF Inv
  <1> QED
    BY <1>1, <1>2, <1>5, <1>6 DEF Inv

(***************************************************************************)
(* A step of a walk (userfaultfd.c:166) keeps the invariant: an            *)
(* undisturbed walk finds its node at the next one, or gets one nearer to  *)
(* it.                                                                     *)
(***************************************************************************)
LEMMA HopKeeps ==
    ASSUME Inv, Hop
    PROVE  Inv'
  <1>1. PICK N, c : Chain(list, N, c) /\ InOrder(N, c, hot) /\ WalkOK(N, c)
    BY DEF Inv
  <1>2. UNCHANGED <<list, hot>> /\ Walking /\ walk \in WalkRecord
    BY <1>1 DEF Hop, WalkOK
  <1>3. PICK n : n = list.next[walk.at]
    OBVIOUS
  <1>4. /\ n = NULL => walk' = [walk EXCEPT !.at = NULL, !.outcome = "missed"]
        /\ n # NULL /\ n = walk.for => walk' = [walk EXCEPT !.at = NULL, !.outcome = "found"]
        /\ n # NULL /\ n # walk.for => walk' = [walk EXCEPT !.at = n]
    <2>1. walk' = CASE n = NULL -> [walk EXCEPT !.at = NULL, !.outcome = "missed"]
                    [] n = walk.for -> [walk EXCEPT !.at = NULL, !.outcome = "found"]
                    [] OTHER -> [walk EXCEPT !.at = n]
      BY <1>3 DEF Hop
    <2>2. walk.for # NULL
      BY <1>1, <1>2, HeadAssumption DEF WalkOK
    <2> QED
      BY <2>1, <2>2
  <1>5. walk.at \in AllNodes /\ n \in Pointer
    BY <1>1, <1>2, <1>3, ChainFacts DEF WalkRecord, Walking
  <1>6. /\ walk' \in WalkRecord /\ walk'.for = walk.for /\ walk'.disturbed = walk.disturbed
        /\ walk.for \in Nodes
    BY <1>1, <1>2, <1>4, <1>5 DEF WalkRecord, WalkOK, Pointer, AllNodes
  <1>7. ASSUME ~walk.disturbed
        PROVE  /\ n # NULL
               /\ n # walk.for => Ahead(N, c, n, walk.for)
    <2>1. walk.at # walk.for /\ Ahead(N, c, walk.at, walk.for)
      BY <1>1, <1>2, <1>7 DEF WalkOK
    <2>2. PICK i, j \in 0..N : i <= j /\ c[i] = walk.at /\ c[j] = walk.for
      BY <2>1 DEF Ahead
    <2>3. N \in Nat
      BY <1>1, ChainFacts
    <2>4. i # j /\ i \in 0..(N - 1) /\ i + 1 \in 1..N /\ i + 1 \in 0..N /\ i + 1 <= j
      <3>1. i # j
        BY <2>1, <2>2
      <3> QED
        BY <3>1, <2>2, <2>3
    <2>5. n = c[i + 1]
      BY <1>1, <1>3, <2>2, <2>4, ChainFacts
    <2>6. n # NULL
      BY <1>1, <2>4, <2>5, ChainFacts
    <2> QED
      BY <2>2, <2>4, <2>5, <2>6 DEF Ahead
  <1>8. WalkOK(N, c)'
    <2>1. ASSUME Walking', ~walk'.disturbed
          PROVE  walk'.at # walk'.for /\ Ahead(N, c, walk'.at, walk'.for)
      <3>1. n # NULL /\ (n # walk.for => Ahead(N, c, n, walk.for))
        BY <1>6, <1>7, <2>1
      <3>2. n # walk.for /\ walk'.at = n
        BY <1>2, <1>4, <2>1, <3>1 DEF Walking, WalkRecord
      <3> QED
        BY <1>6, <3>1, <3>2
    <2>2. walk'.outcome = "missed" => walk'.disturbed
      <3>1. CASE n = NULL
        BY <3>1, <1>6, <1>7
      <3>2. CASE n # NULL /\ n = walk.for
        BY <3>2, <1>2, <1>4 DEF WalkRecord
      <3>3. CASE n # NULL /\ n # walk.for
        BY <3>3, <1>1, <1>2, <1>4, <1>6 DEF WalkRecord, WalkOK, MissedOnlyIfMoved
      <3> QED
        BY <3>1, <3>2, <3>3
    <2> QED
      BY <1>6, <2>1, <2>2 DEF WalkOK, MissedOnlyIfMoved
  <1>9. hot \in [Nodes -> Hot]
    BY DEF Inv
  <1> QED
    BY <1>1, <1>2, <1>8, <1>9 DEF Inv

(***************************************************************************)
(* In every state the nodes of the list have numbers along which both      *)
(* directions agree and the hot degrees rise, and what an undisturbed      *)
(* walk looks for is further on.                                           *)
(***************************************************************************)
THEOREM Invariant == Spec => []Inv
  <1>1. ASSUME Inv, [Next]_vars PROVE Inv'
    <2>1. CASE UNCHANGED vars
      <3>1. UNCHANGED <<list, hot, walk>>
        BY <2>1 DEF vars
      <3> QED
        BY <3>1, <1>1 DEF Inv, WalkOK, Walking, MissedOnlyIfMoved
    <2>2. ASSUME NEW n \in Nodes, NEW h \in Hot, Insert(n, h) \/ Update(n, h) PROVE Inv'
      BY <1>1, <2>2, InsertKeeps, UpdateKeeps
    <2>3. ASSUME NEW n \in Nodes, Delete(n) \/ StartWalk(n) PROVE Inv'
      BY <1>1, <2>3, DeleteKeeps, StartWalkKeeps
    <2>4. CASE Hop
      BY <1>1, <2>4, HopKeeps
    <2> QED
      BY Zenon, <1>1, <2>1, <2>2, <2>3, <2>4 DEF Next
  <1> QED
    BY <1>1, InitInv, PTL DEF Spec

(***************************************************************************)
(* With a numbering, the walks from the two ends see the same nodes        *)
(* (userfaultfd.c:166, migrate.c:71).                                      *)
(***************************************************************************)
LEMMA InvBothWays == Inv => BothWays
  <1> SUFFICES ASSUME Inv PROVE BothWays
    OBVIOUS
  <1>1. PICK N, c : Chain(list, N, c)
    BY DEF Inv
  <1>2. /\ N \in Nat /\ c[0] = ListHead /\ list.tail = c[N]
        /\ In(list) = {c[i] : i \in 1..N}
        /\ \A i \in 1..N : list.pre[c[i]] = c[i - 1]
    BY <1>1, ChainFacts
  <1>3. PICK s : s = Order(list)
    OBVIOUS
  <1>4. s = [i \in 1..N |-> c[i]]
    BY <1>1, <1>3, ChainOrder
  <1>5. DOMAIN s = 1..N /\ Len(s) = N /\ \A i \in 1..N : s[i] = c[i]
    BY <1>2, <1>4
  <1>6. s = << >> <=> N = 0
    BY <1>2, <1>4, <1>5
  <1>7. {s[i] : i \in DOMAIN s} = Listed
    <2>1. Listed = In(list)
      BY DEF Listed, In
    <2>2. {s[i] : i \in DOMAIN s} = {c[i] : i \in 1..N}
      BY <1>5
    <2> QED
      BY <2>1, <2>2, <1>2
  <1>8. list.tail = IF s = << >> THEN ListHead ELSE s[Len(s)]
    <2>1. N # 0 => N \in 1..N
      BY <1>2
    <2> QED
      BY <2>1, <1>2, <1>5, <1>6
  <1>9. ASSUME NEW i \in DOMAIN s
        PROVE  list.pre[s[i]] = IF i = 1 THEN ListHead ELSE s[i - 1]
    <2>1. i \in 1..N /\ list.pre[s[i]] = c[i - 1]
      BY <1>2, <1>5, <1>9
    <2>2. i = 1 => c[i - 1] = ListHead
      BY <1>2
    <2>3. i # 1 => i - 1 \in 1..N
      BY <2>1, <1>2
    <2> QED
      BY <2>1, <2>2, <2>3, <1>5
  <1> QED
    BY <1>3, <1>7, <1>8, <1>9 DEF BothWays

(***************************************************************************)
(* In every state a walk from the tail over pre (migrate.c:71, 298) sees   *)
(* the nodes a walk from the head over next (userfaultfd.c:166) sees, in   *)
(* the opposite order.                                                     *)
(***************************************************************************)
THEOREM ReadBothWays == Spec => []BothWays
  BY Invariant, InvBothWays, PTL

(***************************************************************************)
(* userfaultfd.c:166: a walk of the fault thread passes every node that    *)
(* is in the list, unless the node it stands on or the one it looks for    *)
(* has been moved or deleted under it.                                     *)
(***************************************************************************)
THEOREM WalkFinds == Spec => []MissedOnlyIfMoved
  <1>1. Inv => MissedOnlyIfMoved
    BY DEF Inv, WalkOK
  <1> QED
    BY <1>1, Invariant, PTL

-----------------------------------------------------------------------------
(* What HotList says of its sequence, said of a numbering of list.c's nodes. *)
LEMMA OrderSays ==
    ASSUME NEW N, NEW c, NEW l, Chain(l, N, c)
    PROVE  LET o == Order(l) IN
           /\ H!Members(o) = {c[i] : i \in 1..N}
           /\ H!Once(o)
           /\ \A n, q : q \in H!Others(o, n) <=>
                 \E a, b \in Nodes : q = <<a, b>> /\ a # n /\ b # n /\ Ahead(N, c, a, b)
           /\ \A h : InOrder(N, c, h) => H!Sorted(o, h)
  <1> DEFINE o == Order(l)
  <1>1. /\ N \in Nat /\ c[0] = ListHead /\ ListHead \notin Nodes
        /\ \A i \in 1..N : c[i] \in Nodes
        /\ \A i, j \in 1..N : c[i] = c[j] => i = j
    <2>1. N \in Nat /\ \A i \in 1..N : i \in 0..N
      BY ChainFacts
    <2> QED
      BY <2>1, ChainFacts, HeadAssumption
  <1>2. o = [i \in 1..N |-> c[i]]
    BY ChainOrder
  <1> HIDE DEF o
  <1>3. Len(o) = N /\ \A i \in 1..N : o[i] = c[i]
    BY <1>1, <1>2
  <1>4. H!Members(o) = {c[i] : i \in 1..N}
    BY <1>1, <1>3 DEF H!Members
  <1>5. H!Once(o)
    BY <1>1, <1>3 DEF H!Once
  <1>6. ASSUME NEW h, InOrder(N, c, h) PROVE H!Sorted(o, h)
    BY <1>1, <1>3, <1>6 DEF H!Sorted, InOrder
  <1>7. ASSUME NEW q
        PROVE  q \in H!Precedes(o) <=> \E a, b \in Nodes : q = <<a, b>> /\ Ahead(N, c, a, b)
    <2>1. q \in H!Precedes(o) <=> \E i, j \in 1..N : i <= j /\ q = <<c[i], c[j]>>
      <3>1. ASSUME NEW r \in {u \in (1..N) \X (1..N) : u[1] <= u[2]}, q = <<o[r[1]], o[r[2]]>>
            PROVE  \E i, j \in 1..N : i <= j /\ q = <<c[i], c[j]>>
        <4>1. r[1] \in 1..N /\ r[2] \in 1..N /\ r[1] <= r[2]
          OBVIOUS
        <4>2. q = <<c[r[1]], c[r[2]]>>
          BY <4>1, <3>1, <1>3
        <4> QED
          BY <4>1, <4>2
      <3>2. ASSUME NEW i \in 1..N, NEW j \in 1..N, i <= j, q = <<c[i], c[j]>>
            PROVE  \E r \in {u \in (1..N) \X (1..N) : u[1] <= u[2]} : q = <<o[r[1]], o[r[2]]>>
        <4>1. <<i, j>> \in {u \in (1..N) \X (1..N) : u[1] <= u[2]}
          BY <3>2
        <4>2. q = <<o[<<i, j>>[1]], o[<<i, j>>[2]]>>
          BY <3>2, <1>3
        <4> QED
          BY <4>1, <4>2
      <3>3. H!Precedes(o) = {<<o[r[1]], o[r[2]]>> : r \in {u \in (1..N) \X (1..N) : u[1] <= u[2]}}
        BY <1>3 DEF H!Precedes
      <3> QED
        BY <3>1, <3>2, <3>3
    <2>2. ASSUME NEW i \in 1..N, NEW j \in 1..N, i <= j, q = <<c[i], c[j]>>
          PROVE  \E a, b \in Nodes : q = <<a, b>> /\ Ahead(N, c, a, b)
      <3>1. i \in 0..N /\ j \in 0..N
        BY <1>1
      <3>2. Ahead(N, c, c[i], c[j])
        BY <3>1, <2>2 DEF Ahead
      <3> QED
        BY <3>2, <2>2, <1>1
    <2>3. ASSUME NEW a \in Nodes, NEW b \in Nodes, q = <<a, b>>, Ahead(N, c, a, b)
          PROVE  \E i, j \in 1..N : i <= j /\ q = <<c[i], c[j]>>
      <3>1. PICK i, j \in 0..N : i <= j /\ c[i] = a /\ c[j] = b
        BY <2>3 DEF Ahead
      <3>2. i \in 1..N /\ j \in 1..N
        BY <3>1, <1>1
      <3> QED
        BY <3>1, <3>2, <2>3
    <2> QED
      BY <2>1, <2>2, <2>3
  <1>8. ASSUME NEW n, NEW q
        PROVE  q \in H!Others(o, n) <=>
                  \E a, b \in Nodes : q = <<a, b>> /\ a # n /\ b # n /\ Ahead(N, c, a, b)
    BY <1>7 DEF H!Others
  <1> QED
    BY <1>4, <1>5, <1>6, <1>8 DEF o

(***************************************************************************)
(* A step that leaves all nodes but n as they were is a step of the        *)
(* abstract list about n.                                                  *)
(***************************************************************************)
LEMMA ChangedIsChange ==
    ASSUME NEW n \in Nodes, NEW N, NEW c, Chain(list, N, c), NEW M, NEW d, Changed(n, N, c, M, d)
    PROVE  /\ H!Change(n)
           /\ H!Members(Order(list)) = {c[i] : i \in 1..N}
           /\ H!Members(Order(list')) = {d[i] : i \in 1..M}
  <1>1. Chain(list', M, d) /\ InOrder(M, d, hot') /\ SameOthers(N, c, M, d, n)
    BY DEF Changed
  <1>2. PICK o, p : o = Order(list) /\ p = Order(list')
    OBVIOUS
  <1>3. /\ H!Members(o) = {c[i] : i \in 1..N}
        /\ \A q : q \in H!Others(o, n) <=>
              \E a, b \in Nodes : q = <<a, b>> /\ a # n /\ b # n /\ Ahead(N, c, a, b)
    BY <1>2, OrderSays
  <1>4. /\ H!Members(p) = {d[i] : i \in 1..M} /\ H!Once(p) /\ H!Sorted(p, hot')
        /\ \A q : q \in H!Others(p, n) <=>
              \E a, b \in Nodes : q = <<a, b>> /\ a # n /\ b # n /\ Ahead(M, d, a, b)
    BY <1>1, <1>2, OrderSays
  <1>5. H!Others(p, n) = H!Others(o, n)
    <2>1. \A q : q \in H!Others(p, n) <=> q \in H!Others(o, n)
      BY <1>1, <1>3, <1>4 DEF SameOthers
    <2> QED
      BY <2>1
  <1>6. H!Change(n)
    BY <1>2, <1>4, <1>5 DEF H!Change, Changed
  <1> QED
    BY <1>2, <1>3, <1>4, <1>6

(***************************************************************************)
(* list.c as HotList promises it: whatever handlers insert, delete and     *)
(* re-sort, the nodes stay in order of their hot degrees, each once, and   *)
(* an operation on one leaves the others as they were to each other.       *)
(***************************************************************************)
THEOREM ListIsHotList == Spec => ImplementsHotList
  <1>1. Init => H!Init
    <2> SUFFICES ASSUME Init PROVE Order(list) = << >>
      BY DEF H!Init
    <2>1. In(list) = {}
      BY DEF Init, EmptyList, In
    <2>2. PICK N, c : Chain(list, N, c)
      BY InitInv DEF Inv
    <2>3. N \in Nat /\ In(list) = {c[i] : i \in 1..N}
      BY <2>2, ChainFacts
    <2>4. N = 0
      <3>1. N # 0 => 1 \in 1..N
        BY <2>3
      <3> QED
        BY <3>1, <2>1, <2>3
    <2>5. Order(list) = [i \in 1..N |-> c[i]]
      BY <2>2, ChainOrder
    <2> QED
      BY <2>4, <2>5
  <1>2. ASSUME Inv, [Next]_vars
        PROVE  [H!Next]_<<Order(list), hot>>
    <2>1. PICK N, c : Chain(list, N, c) /\ InOrder(N, c, hot)
      BY <1>2 DEF Inv
    <2>2. N \in Nat /\ In(list) = {c[i] : i \in 1..N} /\ hot \in [Nodes -> Hot]
      BY <1>2, <2>1, ChainFacts DEF Inv
    <2>3. ASSUME NEW n \in Nodes, NEW h \in Hot, Insert(n, h) PROVE H!Insert(n)
      <3>1. PICK M, d : Changed(n, N, c, M, d) /\ \E i \in 1..M : d[i] = n
        BY <2>1, <2>2, <2>3, InsertChanges
      <3>2. n \notin In(list)
        BY <2>3 DEF Insert, Listed, In
      <3> QED
        BY <3>1, <3>2, <2>1, <2>2, ChangedIsChange DEF H!Insert
    <2>4. ASSUME NEW n \in Nodes, NEW h \in Hot, Update(n, h) PROVE H!Update(n)
      <3>1. PICK d : Changed(n, N, c, N, d) /\ \E i \in 1..N : d[i] = n
        BY <2>1, <2>2, <2>4, UpdateChanges
      <3>2. n \in In(list)
        BY <2>4 DEF Update, Listed, In
      <3> QED
        BY <3>1, <3>2, <2>1, <2>2, ChangedIsChange DEF H!Update
    <2>5. ASSUME NEW n \in Nodes, Delete(n) PROVE H!Delete(n)
      <3>1. PICK d : Changed(n, N, c, N - 1, d) /\ \A i \in 1..(N - 1) : d[i] # n
        BY <2>1, <2>2, <2>5, DeleteChanges
      <3>2. n \in In(list)
        BY <2>5 DEF Delete, Listed, In
      <3> QED
        BY <3>1, <3>2, <2>1, <2>2, ChangedIsChange DEF H!Delete
    <2>6. ASSUME UNCHANGED <<list, hot>> PROVE UNCHANGED <<Order(list), hot>>
      BY <2>6
    <2>7. ASSUME NEW n \in Nodes, StartWalk(n) PROVE UNCHANGED <<list, hot>>
      BY <2>7 DEF StartWalk
    <2>8. Hop \/ UNCHANGED vars => UNCHANGED <<list, hot>>
      BY DEF Hop, vars
    <2> QED
      BY Zenon, <1>2, <2>3, <2>4, <2>5, <2>6, <2>7, <2>8 DEF Next, H!Next
  <1> QED
    BY <1>1, <1>2, Invariant, PTL DEF Spec, ImplementsHotList, H!Spec
=============================================================================

---------------------------- MODULE BalanceProofs ----------------------------
(***************************************************************************)
(* run() for any number of machines and blocks, any thresholds and any use *)
(* of memory: a machine never offers its blocks while it hosts another's,  *)
(* writes to the disk last of all, and does not free the node that its     *)
(* loop goes on with.                                                      *)
(***************************************************************************)
EXTENDS BalanceProperties, ListsProofs

Where == {"top", "decide", "take_back", "pull", "give_back", "shed", "to_ssd"}

TypeInv ==
    /\ pc \in [Machines -> Where]
    /\ need_pulled \in [Machines -> BOOLEAN]
    /\ DOMAIN from_remote = Machines
    /\ \A m \in Machines : DOMAIN from_remote[m].pre = Blocks \cup {ListHead}

(* A machine that is about to pull has stopped offering before. *)
PullersDoNotOffer == \A m \in Machines : pc[m] \in {"take_back", "pull"} => ~need_pulled[m]

IInv == TypeInv /\ PullersDoNotOffer /\ OffersOrHosts

(* In a step no machine begins to host blocks, except perhaps m. *)
OnlyBegins(m) ==
    /\ DOMAIN from_remote' = Machines
    /\ \A n \in Machines : DOMAIN from_remote'[n].pre = Blocks \cup {ListHead}
    /\ \A n \in Machines \ {m} : Hosted(n) = {} => Hosted(n)' = {}

NoneBegins ==
    /\ DOMAIN from_remote' = Machines
    /\ \A n \in Machines : DOMAIN from_remote'[n].pre = Blocks \cup {ListHead}
    /\ \A n \in Machines : Hosted(n) = {} => Hosted(n)' = {}
-----------------------------------------------------------------------------
(* Sorting a list gives no new node to it but keeps what pre is defined for. *)
LEMMA SortingDomain ==
    ASSUME NEW l, NEW hot, NEW n
    PROVE  DOMAIN Sorting(l, hot, n).pre = DOMAIN l.pre
  BY DEF Sorting, MoveBehind, MoveBefore

(* So does adding a node. *)
LEMMA AddDomain ==
    ASSUME NEW l, NEW n
    PROVE  DOMAIN AddToTail(l, n).pre = DOMAIN l.pre
  BY DEF AddToTail

(* A list without nodes has none after a deletion either. *)
LEMMA DelFromEmpty ==
    ASSUME NEW l, NEW n \in Blocks, DOMAIN l.pre = Blocks \cup {ListHead}
    PROVE  /\ DOMAIN Del(l, n).pre = Blocks \cup {ListHead}
           /\ Listed(l) = {} => Listed(Del(l, n)) = {}
  <1>1. CASE n = l.tail
    BY <1>1 DEF Del, Listed
  <1>2. CASE n # l.tail
    BY <1>2 DEF Del, Listed
  <1> QED
    BY <1>1, <1>2

(* Lists that are left alone. *)
LEMMA UnchangedHosts ==
    ASSUME TypeInv, UNCHANGED from_remote
    PROVE  NoneBegins
  BY DEF TypeInv, NoneBegins, OnlyBegins, Hosted, Listed

(* A block that comes home leaves a list. *)
LEMMA ComeHomeHosts ==
    ASSUME TypeInv, NEW b \in Blocks, NEW p, ComeHome(b, p)
    PROVE  NoneBegins
  <1>1. from_remote' = [from_remote EXCEPT ![place[b]] = Del(@, b)]
    BY DEF ComeHome
  <1>2. ASSUME NEW m \in Machines
        PROVE  from_remote'[m] = IF m = place[b] THEN Del(from_remote[m], b) ELSE from_remote[m]
    BY <1>1 DEF TypeInv
  <1>3. DOMAIN from_remote' = Machines
    BY <1>1 DEF TypeInv
  <1>4. ASSUME NEW m \in Machines
        PROVE  /\ DOMAIN from_remote'[m].pre = Blocks \cup {ListHead}
               /\ Listed(from_remote[m]) = {} => Listed(from_remote'[m]) = {}
    BY <1>2, DelFromEmpty DEF TypeInv
  <1> QED
    BY <1>3, <1>4 DEF NoneBegins, OnlyBegins, Hosted, Listed

(* Lending gives one machine a block. *)
LEMMA LendHosts ==
    ASSUME TypeInv, NEW b \in Blocks, NEW m \in Machines, NEW h, Lend(b, m, h)
    PROVE  OnlyBegins(m)
  <1> DEFINE new == Sorting(AddToTail(from_remote[m], b), hot_degree', b)
  <1>1. from_remote' = [from_remote EXCEPT ![m] = new]
    BY DEF Lend
  <1>2. DOMAIN new.pre = DOMAIN from_remote[m].pre
    BY SortingDomain, AddDomain
  <1> HIDE DEF new
  <1>3. DOMAIN from_remote' = Machines
    BY <1>1 DEF TypeInv
  <1>4. ASSUME NEW n \in Machines
        PROVE  from_remote'[n] = IF n = m THEN new ELSE from_remote[n]
    BY <1>1 DEF TypeInv
  <1> QED
    BY <1>2, <1>3, <1>4 DEF TypeInv, OnlyBegins, Hosted, Listed

(* What is given back, or fails to be, gives nobody a block. *)
LEMMA EvictHosts ==
    ASSUME TypeInv, NEW m \in Machines, EvictData(m) \/ EvictedData(m)
    PROVE  NoneBegins
  <1>1. CASE EvictData(m)
    <2> DEFINE b == LastWaiting(from_remote[m], from_status)
    <2>1. b \in Hosted(m) => b \in Blocks
      BY DEF Hosted, Listed
    <2> QED
      BY <1>1, <2>1, UnchangedHosts, ComeHomeHosts DEF EvictData, listVars
  <1>2. CASE EvictedData(m)
    <2> DEFINE b == LastWaiting(in_remote[m], in_status)
    <2>1. b \in Lent(m) => b \in Blocks
      BY DEF Lent, Listed
    <2> QED
      BY <1>2, <2>1, UnchangedHosts, ComeHomeHosts DEF EvictedData, listVars
  <1> QED
    BY <1>1, <1>2
-----------------------------------------------------------------------------
(* A step of a main thread that begins to host nothing. *)
LEMMA QuietStep ==
    ASSUME IInv, NEW m \in Machines, NoneBegins,
           NEW l \in Where, pc' = [pc EXCEPT ![m] = l],
           \/ UNCHANGED need_pulled
           \/ need_pulled' = [need_pulled EXCEPT ![m] = FALSE]
           \/ need_pulled' = [need_pulled EXCEPT ![m] = TRUE] /\ Hosted(m) = {},
           l \in {"take_back", "pull"} => ~need_pulled'[m]
    PROVE  IInv'
  <1>1. TypeInv'
    BY DEF IInv, TypeInv, NoneBegins, OnlyBegins
  <1>2. \A n \in Machines : /\ pc'[n] = IF n = m THEN l ELSE pc[n]
                            /\ n # m => need_pulled'[n] = need_pulled[n]
    BY DEF IInv, TypeInv
  <1>3. PullersDoNotOffer'
    BY <1>2 DEF IInv, PullersDoNotOffer
  <1>4. need_pulled'[m] => need_pulled[m] \/ Hosted(m) = {}
    BY DEF IInv, TypeInv
  <1>5. OffersOrHosts'
    <2> SUFFICES ASSUME NEW n \in Machines, need_pulled'[n]
                 PROVE  Hosted(n)' = {}
      BY DEF OffersOrHosts
    <2>1. Hosted(n) = {}
      BY <1>2, <1>4 DEF IInv, OffersOrHosts
    <2> QED
      BY <2>1 DEF NoneBegins
  <1> QED
    BY <1>1, <1>3, <1>5 DEF IInv

(* Each step of a main thread, case by case. *)
LEMMA MainStep ==
    ASSUME IInv, NEW m \in Machines, Main(m)
    PROVE  IInv'
  <1> USE DEF GoTo, SetTmp, SetNeedPulled, mainVars, Where
  <1>0. TypeInv /\ pc[m] \in Where /\ pc = [pc EXCEPT ![m] = pc[m]]
        /\ (pc[m] \in {"take_back", "pull"} => ~need_pulled[m])
    BY DEF IInv, TypeInv, PullersDoNotOffer
  <1>1. CASE Look(m)
    BY <1>0, <1>1, UnchangedHosts, QuietStep DEF Look, listVars
  <1>2. CASE Low(m)
    <2>1. need_pulled' = [need_pulled EXCEPT ![m] = FALSE] /\ ~need_pulled'[m]
      BY <1>0, <1>2 DEF Low, TypeInv
    <2>2. UNCHANGED from_remote /\ \E l \in {"take_back", "pull"} : pc' = [pc EXCEPT ![m] = l]
      BY <1>2 DEF Low, listVars
    <2> QED
      BY <1>0, <2>1, <2>2, UnchangedHosts, QuietStep
  <1>3. CASE Middle(m)
    <2>1. \/ UNCHANGED need_pulled
          \/ need_pulled' = [need_pulled EXCEPT ![m] = TRUE] /\ Hosted(m) = {}
      BY <1>3 DEF Middle
    <2>2. UNCHANGED from_remote /\ \E l \in {"give_back", "top"} : pc' = [pc EXCEPT ![m] = l]
      BY <1>3 DEF Middle, listVars
    <2> QED
      BY <1>0, <2>1, <2>2, UnchangedHosts, QuietStep
  <1>4. CASE High(m)
    <2>1. need_pulled' = [need_pulled EXCEPT ![m] = FALSE]
      BY <1>4 DEF High
    <2>2. UNCHANGED from_remote /\ \E l \in {"shed", "to_ssd"} : pc' = [pc EXCEPT ![m] = l]
      BY <1>4 DEF High, listVars
    <2> QED
      BY <1>0, <2>1, <2>2, UnchangedHosts, QuietStep
  <1>5. CASE TakeBack(m)
    <2>1. EvictedData(m) /\ UNCHANGED <<pc, need_pulled>>
      BY <1>5 DEF TakeBack
    <2> QED
      BY <1>0, <2>1, EvictHosts, QuietStep
  <1>6. CASE TakeBackEnds(m)
    <2>1. UNCHANGED <<need_pulled, from_remote>> /\ pc[m] = "take_back"
          /\ \E l \in {"pull", "top"} : pc' = [pc EXCEPT ![m] = l]
      BY <1>6 DEF TakeBackEnds, listVars
    <2> QED
      BY <1>0, <2>1, UnchangedHosts, QuietStep
  <1>7. CASE PullData(m)
    <2>1. pc[m] = "pull" /\ pc' = [pc EXCEPT ![m] = "top"] /\ UNCHANGED need_pulled
      BY <1>7 DEF PullData
    <2>2. CASE UNCHANGED listVars
      BY <1>0, <2>1, <2>2, UnchangedHosts, QuietStep DEF listVars
    <2>3. CASE \E b \in Blocks : \E h \in Hot : Lend(b, m, h)
      <3>1. PICK b \in Blocks, h \in Hot : Lend(b, m, h)
        BY <2>3
      <3>2. OnlyBegins(m)
        BY <1>0, <3>1, LendHosts
      <3>3. ~need_pulled'[m]
        BY <1>0, <2>1
      <3>4. TypeInv'
        BY <1>0, <2>1, <3>2 DEF TypeInv, OnlyBegins
      <3>5. PullersDoNotOffer'
        BY <1>0, <2>1 DEF IInv, TypeInv, PullersDoNotOffer
      <3>6. OffersOrHosts'
        BY <2>1, <3>2, <3>3 DEF IInv, OffersOrHosts, OnlyBegins
      <3> QED
        BY <3>4, <3>5, <3>6 DEF IInv
    <2> QED
      BY <1>7, <2>2, <2>3 DEF PullData, Offered
  <1>8. CASE GiveBack(m)
    <2>1. EvictData(m) /\ UNCHANGED <<pc, need_pulled>>
      BY <1>8 DEF GiveBack
    <2> QED
      BY <1>0, <2>1, EvictHosts, QuietStep
  <1>9. CASE GiveBackEnds(m)
    <2>1. /\ need_pulled' = [need_pulled EXCEPT ![m] = TRUE] /\ Hosted(m) = {}
          /\ UNCHANGED from_remote /\ pc' = [pc EXCEPT ![m] = "top"]
      BY <1>9 DEF GiveBackEnds, listVars
    <2> QED
      BY <1>0, <2>1, UnchangedHosts, QuietStep
  <1>10. CASE Shed(m)
    <2>1. EvictData(m) /\ UNCHANGED <<pc, need_pulled>>
      BY <1>10 DEF Shed
    <2> QED
      BY <1>0, <2>1, EvictHosts, QuietStep
  <1>11. CASE ShedEnds(m)
    <2>1. UNCHANGED <<need_pulled, from_remote>>
          /\ \E l \in {"to_ssd", "top"} : pc' = [pc EXCEPT ![m] = l]
      BY <1>11 DEF ShedEnds, listVars
    <2> QED
      BY <1>0, <2>1, UnchangedHosts, QuietStep
  <1>12. CASE ToSsd(m)
    <2>1. UNCHANGED <<need_pulled, from_remote>> /\ pc[m] = "to_ssd"
          /\ \E l \in {"to_ssd", "top"} : pc' = [pc EXCEPT ![m] = l]
      BY <1>0, <1>12 DEF ToSsd
    <2> QED
      BY <1>0, <2>1, UnchangedHosts, QuietStep
  <1> QED
    BY <1>1, <1>2, <1>3, <1>4, <1>5, <1>6, <1>7, <1>8, <1>9, <1>10, <1>11, <1>12 DEF Main

(* What the applications do, and a thread that reads a freed node. *)
LEMMA OtherStep ==
    ASSUME IInv, UNCHANGED <<pc, need_pulled>>, NoneBegins
    PROVE  IInv'
  <1>1. TypeInv' /\ PullersDoNotOffer'
    BY DEF IInv, TypeInv, PullersDoNotOffer, NoneBegins, OnlyBegins
  <1>2. OffersOrHosts'
    BY DEF IInv, OffersOrHosts, NoneBegins
  <1> QED
    BY <1>1, <1>2 DEF IInv

(***************************************************************************)
(* need_pulled of run() (migrate.c:556, 613, 621): whatever the machines   *)
(* do to each other, one that asks others to take its blocks has given     *)
(* theirs back.                                                            *)
(***************************************************************************)
THEOREM OfferCorrect == Spec => []OffersOrHosts
  <1>1. Init => IInv
    <2> SUFFICES ASSUME Init PROVE IInv
      OBVIOUS
    <2>1. \A m \in Machines : from_remote[m].pre = [n \in Blocks \cup {ListHead} |-> NULL]
      <3>1. EmptyList.pre = [n \in Blocks \cup {ListHead} |-> NULL]
        BY DEF EmptyList, Blocks
      <3>2. \A m \in Machines : from_remote[m] = EmptyList
        BY DEF Init
      <3> QED
        BY <3>1, <3>2
    <2>2. TypeInv
      BY <2>1 DEF Init, TypeInv, Where
    <2>3. PullersDoNotOffer /\ OffersOrHosts
      BY DEF Init, PullersDoNotOffer, OffersOrHosts
    <2> QED
      BY <2>2, <2>3 DEF IInv
  <1>2. IInv /\ [Next]_vars => IInv'
    <2> SUFFICES ASSUME IInv, [Next]_vars PROVE IInv'
      OBVIOUS
    <2>0. TypeInv
      BY DEF IInv
    <2>1. ASSUME NEW m \in Machines, Main(m) PROVE IInv'
      BY <2>1, MainStep
    <2>2. ASSUME NEW m \in Machines, StaleTmp(m) PROVE IInv'
      <3>1. UNCHANGED <<pc, need_pulled, from_remote>>
        BY <2>2 DEF StaleTmp, mainVars, listVars
      <3> QED
        BY <2>0, <3>1, UnchangedHosts, OtherStep
    <2>3. ASSUME NEW m \in Machines, UsageChanges(m) PROVE IInv'
      <3>1. UNCHANGED <<pc, need_pulled, from_remote>>
        BY <2>3 DEF UsageChanges, mainVars, listVars
      <3> QED
        BY <2>0, <3>1, UnchangedHosts, OtherStep
    <2>4. ASSUME NEW b \in Blocks, PageFault(b) PROVE IInv'
      <3>1. UNCHANGED <<pc, need_pulled>>
        BY <2>4 DEF PageFault, mainVars
      <3>2. ComeHome(b, "settled") \/ UNCHANGED from_remote
        BY <2>4 DEF PageFault
      <3> QED
        BY <2>0, <3>1, <3>2, ComeHomeHosts, UnchangedHosts, OtherStep
    <2>5. CASE UNCHANGED vars
      <3>1. UNCHANGED <<pc, need_pulled, from_remote>>
        BY <2>5 DEF vars, mainVars, listVars
      <3> QED
        BY <2>0, <3>1, UnchangedHosts, OtherStep
    <2> QED
      BY <2>1, <2>2, <2>3, <2>4, <2>5 DEF Next, Application
  <1>3. IInv => OffersOrHosts
    BY DEF IInv
  <1> QED
    BY <1>1, <1>2, <1>3, PTL DEF Spec

-----------------------------------------------------------------------------
(***************************************************************************)
(* The lists of the machines.  t is the node a walk from the tail has      *)
(* come to, or NULL: every node that it has passed is EVICTING.            *)
(***************************************************************************)
Statuses == {"EVICT_WAIT", "EVICTING"}

PassedTo(N, c, status, t) ==
    \A k \in 0..N : t = c[k] => \A i \in (k + 1)..N : status[c[i]] = "EVICTING"

ListOK(l, hot, status, t) ==
    \E N, c : Chain(l, N, c) /\ InOrder(N, c, hot) /\ PassedTo(N, c, status, t)

(* What a numbering says of the nodes of a list. *)
LEMMA ChainListed ==
    ASSUME NEW l, NEW N, NEW c, Chain(l, N, c)
    PROVE  /\ \A i \in 1..N : c[i] \in Listed(l) /\ c[i] \in Blocks
           /\ \A n \in Listed(l) : n \in Blocks /\ \E i \in 1..N : c[i] = n
           /\ \A i, j \in 1..N : c[i] = c[j] => i = j
           /\ N \in Nat /\ c[0] = ListHead /\ ListHead \notin Listed(l)
  <1>1. Listed(l) = In(l)
    BY DEF Listed, In, Blocks
  <1>2. N \in Nat /\ \A i \in 1..N : i \in 0..N
    BY ChainFacts
  <1>3. ListHead \notin Listed(l)
    BY HeadAssumption DEF Listed, Blocks
  <1> QED
    BY <1>1, <1>2, <1>3, ChainFacts DEF Blocks

(***************************************************************************)
(* The loop that chooses the node to give back (migrate.c:77, 304): from   *)
(* the tail on, past every node that is EVICTING.                          *)
(***************************************************************************)
LEMMA LastWaitingIs ==
    ASSUME NEW l, NEW N, NEW c, Chain(l, N, c), NEW status
    PROVE  \E w \in 0..N :
             /\ LastWaiting(l, status) = c[w]
             /\ \A i \in (w + 1)..N : status[c[i]] # "EVICT_WAIT"
             /\ w # 0 => status[c[w]] = "EVICT_WAIT"
  <1> DEFINE D == Listed(l) \cup {ListHead}
             Ends(n) == n = ListHead \/ status[n] = "EVICT_WAIT"
             last[n \in D] == IF n = ListHead \/ status[n] = "EVICT_WAIT" THEN n ELSE last[l.pre[n]]
             P(f) == f = [n \in D |-> IF Ends(n) THEN n ELSE f[l.pre[n]]]
             Stop(i, w) == /\ w \in 0..i /\ Ends(c[w])
                           /\ \A m \in (w + 1)..i : ~Ends(c[m])
  <1>1. /\ N \in Nat /\ c[0] = ListHead /\ l.tail = c[N]
        /\ \A n \in D : \E i \in 0..N : c[i] = n
        /\ \A i \in 0..N : c[i] \in D
        /\ \A i \in 1..N : c[i] # ListHead /\ l.pre[c[i]] = c[i - 1]
        /\ \A i, j \in 0..N : c[i] = c[j] => i = j
    <2>1. N \in Nat /\ 0 \in 0..N /\ \A i \in 1..N : i \in 0..N
      BY ChainFacts
    <2>2. \A n \in D : \E i \in 0..N : c[i] = n
      BY <2>1, ChainListed
    <2>3. \A i \in 0..N : c[i] \in D
      <3> TAKE i \in 0..N
      <3>1. i = 0 \/ i \in 1..N
        BY <2>1
      <3> QED
        BY <3>1, ChainListed
    <2>4. /\ c[0] = ListHead /\ l.tail = c[N] /\ \A i, j \in 0..N : c[i] = c[j] => i = j
          /\ \A i \in 1..N : c[i] # ListHead /\ l.pre[c[i]] = c[i - 1]
      BY ChainFacts
    <2> QED
      BY <2>1, <2>2, <2>3, <2>4
  <1> HIDE DEF D
  <1>2. Ends(c[0])
    BY <1>1
  <1>3. \A i \in 0..N : \E w : Stop(i, w)
    <2> TAKE i \in 0..N
    <2> HIDE DEF Ends
    <2>1. PICK T : T = {m \in Nat : i - m \in 0..i /\ Ends(c[i - m])}
      OBVIOUS
    <2>2. i \in T
      <3>1. i \in Nat /\ i - i = 0 /\ 0 \in 0..i
        BY <1>1
      <3> QED
        BY <3>1, <2>1, <1>2
    <2>3. PICK m \in T : \A x \in T : m <= x
      BY <2>1, <2>2, LeastNumber
    <2>4. PICK w : w = i - m
      OBVIOUS
    <2>5. m \in Nat /\ w \in 0..i /\ Ends(c[w])
      BY <2>1, <2>3, <2>4
    <2>6. ASSUME NEW x \in (w + 1)..i
          PROVE  ~Ends(c[x])
      <3>1. PICK y : y = i - x
        OBVIOUS
      <3>2. y \in Nat /\ i - y \in 0..i /\ i - y = x /\ ~(m <= y)
        BY <3>1, <2>4, <2>5, <1>1
      <3>3. y \notin T
        BY <3>2, <2>3
      <3> QED
        BY <3>2, <3>3, <2>1
    <2> QED
      BY <2>5, <2>6
  <1>4. ASSUME NEW i \in 0..N, NEW w, Stop(i, w), NEW v, Stop(i, v)
        PROVE  w = v
    <2> HIDE DEF Ends
    <2>1. ASSUME NEW x \in 0..i, NEW y \in 0..i, Stop(i, x), Stop(i, y), x < y
          PROVE  FALSE
      <3>1. y \in (x + 1)..i
        BY <2>1, <1>1
      <3> QED
        BY <3>1, <2>1
    <2>2. w \in 0..i /\ v \in 0..i
      BY <1>4
    <2>3. w < v \/ v < w \/ w = v
      BY <2>2, <1>1
    <2> QED
      BY <2>1, <2>2, <2>3, <1>4
  <1>5. ASSUME NEW i \in 1..N, ~Ends(c[i]), NEW w, Stop(i - 1, w)
        PROVE  Stop(i, w)
    <2> HIDE DEF Ends
    <2>1. w \in 0..(i - 1) /\ w \in 0..i
      BY <1>1, <1>5
    <2>2. ASSUME NEW m \in (w + 1)..i
          PROVE  ~Ends(c[m])
      <3>1. m = i \/ m \in (w + 1)..(i - 1)
        BY <2>1, <1>1
      <3> QED
        BY <3>1, <1>5
    <2> QED
      BY <2>1, <2>2, <1>5
  <1>6. ASSUME NEW i \in 0..N, Ends(c[i])
        PROVE  Stop(i, i)
    <2> HIDE DEF Ends
    <2> QED
      BY <1>1, <1>6
  <1> HIDE DEF Stop
  <1>7. PICK g : g = [n \in D |-> c[CHOOSE w : Stop(CHOOSE i \in 0..N : c[i] = n, w)]]
    OBVIOUS
  <1>8. ASSUME NEW i \in 0..N, NEW w, Stop(i, w)
        PROVE  g[c[i]] = c[w]
    <2>1. (CHOOSE m \in 0..N : c[m] = c[i]) = i
      BY <1>1
    <2>2. (CHOOSE v : Stop(i, v)) = w
      BY <1>4, <1>8
    <2>3. c[i] \in D
      BY <1>1
    <2> QED
      BY <2>1, <2>2, <2>3, <1>7
  <1>9. \A n \in D : g[n] = IF Ends(n) THEN n ELSE g[l.pre[n]]
    <2> TAKE n \in D
    <2>1. PICK i \in 0..N : c[i] = n
      BY <1>1
    <2>2. CASE Ends(n)
      BY <2>1, <2>2, <1>6, <1>8
    <2>3. CASE ~Ends(n)
      <3>1. i \in 1..N /\ i - 1 \in 0..N
        <4>1. i # 0
          BY <2>1, <2>3, <1>2
        <4> QED
          BY <4>1, <1>1
      <3>2. PICK w : Stop(i - 1, w)
        BY <3>1, <1>3
      <3>3. Stop(i, w)
        <4> HIDE DEF Ends
        <4> QED
          BY <2>1, <2>3, <3>1, <3>2, <1>5
      <3>4. g[c[i]] = c[w] /\ g[c[i - 1]] = c[w] /\ l.pre[n] = c[i - 1]
        BY <2>1, <3>1, <3>2, <3>3, <1>1, <1>8
      <3> QED
        BY <2>1, <2>3, <3>4
    <2> QED
      BY <2>2, <2>3
  <1>10. P(g)
    <2>1. g = [n \in D |-> g[n]]
      BY <1>7
    <2> QED
      BY <2>1, <1>9
  <1>11. P(last)
    <2>1. P(CHOOSE f : P(f))
      <3> HIDE DEF P
      <3> QED
        BY <1>10
    <2> QED
      BY <2>1, Zenon
  <1>12. LastWaiting(l, status) = last[c[N]]
    BY Zenon, <1>1 DEF LastWaiting, D
  <1> HIDE DEF last
  <1>13. \A n \in D : last[n] = IF Ends(n) THEN n ELSE last[l.pre[n]]
    BY <1>11
  <1> HIDE DEF P
  <1>14. PICK w : Stop(N, w)
    BY <1>1, <1>3
  <1>15. w \in 0..N /\ Ends(c[w]) /\ \A m \in (w + 1)..N : ~Ends(c[m])
    BY <1>14 DEF Stop
  <1>16. PICK T : T = {m \in Nat : m <= N - w /\ last[c[w + m]] # c[w]}
    OBVIOUS
  <1>17. T = {}
    <2> SUFFICES ASSUME T # {} PROVE FALSE
      OBVIOUS
    <2>1. PICK m \in T : \A i \in T : m <= i
      BY <1>16, LeastNumber
    <2>2. m \in Nat /\ m <= N - w /\ last[c[w + m]] # c[w]
      BY <2>1, <1>16
    <2>3. m # 0
      <3>1. c[w] \in D /\ w + 0 = w
        BY <1>1, <1>15
      <3>2. last[c[w]] = c[w]
        BY <3>1, <1>13, <1>15
      <3> QED
        BY <3>1, <3>2, <2>2
    <2>4. PICK i : i = w + m
      OBVIOUS
    <2>5. /\ i \in 1..N /\ i \in 0..N /\ i \in (w + 1)..N
          /\ m - 1 \in Nat /\ w + (m - 1) = i - 1 /\ m - 1 <= N - w /\ ~(m <= m - 1)
      BY <1>1, <1>15, <2>2, <2>3, <2>4
    <2>6. last[c[i - 1]] = c[w]
      <3>1. m - 1 \notin T
        BY <2>1, <2>5
      <3> QED
        BY <3>1, <2>5, <1>16
    <2>7. l.pre[c[i]] = c[i - 1] /\ ~Ends(c[i]) /\ c[i] \in D
      BY <2>5, <1>1, <1>15
    <2>8. last[c[i]] = last[c[i - 1]]
      BY <2>7, <1>13
    <2> QED
      BY <2>2, <2>4, <2>6, <2>8
  <1>18. last[c[N]] = c[w]
    <2>1. N - w \in Nat /\ w + (N - w) = N
      BY <1>1, <1>15
    <2> QED
      BY <2>1, <1>16, <1>17
  <1>19. w # 0 => c[w] # ListHead
    BY <1>1, <1>15
  <1> QED
    BY <1>12, <1>15, <1>18, <1>19

(* A list stays in order when other blocks' hot degrees and finished statuses change. *)
LEMMA ListStays ==
    ASSUME NEW l, NEW hot, NEW status, NEW t, ListOK(l, hot, status, t),
           NEW hot2, \A n \in Listed(l) : hot2[n] = hot[n],
           NEW status2,
           \A n \in Listed(l) : status[n] = "EVICTING" => status2[n] = "EVICTING",
           NEW t2, t2 \in {t, NULL}
    PROVE  ListOK(l, hot2, status2, t2)
  <1>1. PICK N, c : Chain(l, N, c) /\ InOrder(N, c, hot) /\ PassedTo(N, c, status, t)
    BY DEF ListOK
  <1>2. N \in Nat /\ \A i \in 1..N : c[i] \in Listed(l)
    BY <1>1, ChainListed
  <1>3. InOrder(N, c, hot2)
    BY <1>1, <1>2 DEF InOrder
  <1>4. PassedTo(N, c, status2, t2)
    <2> SUFFICES ASSUME NEW k \in 0..N, t2 = c[k], NEW i \in (k + 1)..N
                 PROVE  status2[c[i]] = "EVICTING"
      BY DEF PassedTo
    <2>1. t2 # NULL
      BY <1>1, ChainFacts
    <2>2. status[c[i]] = "EVICTING" /\ i \in 1..N
      BY <1>1, <1>2, <2>1 DEF PassedTo
    <2> QED
      BY <2>2, <1>2
  <1> QED
    BY <1>1, <1>3, <1>4 DEF ListOK

(***************************************************************************)
(* Deleting a node (list.c:194), wherever the walk of a main thread        *)
(* stands: on that node it is lost, elsewhere it has passed what it had    *)
(* passed.                                                                 *)
(***************************************************************************)
LEMMA ListDel ==
    ASSUME NEW l, NEW hot, NEW status, NEW t, ListOK(l, hot, status, t), NEW b \in Listed(l)
    PROVE  ListOK(Del(l, b), hot, status, t) /\ Listed(Del(l, b)) = Listed(l) \ {b}
  <1>1. PICK N, c : Chain(l, N, c) /\ InOrder(N, c, hot) /\ PassedTo(N, c, status, t)
    BY DEF ListOK
  <1>2. PICK k \in 1..N : c[k] = b
    BY <1>1, ChainListed
  <1>3. PICK d : d = Without(N, c, k)
    OBVIOUS
  <1>4. Chain(Del(l, b), N - 1, d)
    BY <1>1, <1>2, <1>3, ChainDel
  <1>5. /\ N \in Nat /\ k \in 1..N /\ N - 1 \in Nat
        /\ \A i \in 0..(N - 1) : d[i] = IF i < k THEN c[i] ELSE c[i + 1]
    BY <1>1, <1>3, ChainListed DEF Without
  <1>6. InOrder(N - 1, d, hot)
    <2> SUFFICES ASSUME NEW i \in 1..(N - 1), NEW j \in 1..(N - 1), i < j
                 PROVE  hot[d[i]] <= hot[d[j]]
      BY DEF InOrder
    <2>1. PICK x \in 1..N, y \in 1..N : d[i] = c[x] /\ d[j] = c[y] /\ x < y
      <3>1. CASE j < k
        BY <1>5, <3>1
      <3>2. CASE i < k /\ ~(j < k)
        <4>1. d[i] = c[i] /\ d[j] = c[j + 1] /\ i \in 1..N /\ j + 1 \in 1..N /\ i < j + 1
          BY <1>5, <3>2
        <4> QED
          BY <4>1
      <3>3. CASE ~(i < k)
        <4>1. /\ d[i] = c[i + 1] /\ d[j] = c[j + 1]
              /\ i + 1 \in 1..N /\ j + 1 \in 1..N /\ i + 1 < j + 1
          BY <1>5, <3>3
        <4> QED
          BY <4>1
      <3> QED
        BY <3>1, <3>2, <3>3
    <2> QED
      BY <2>1, <1>1 DEF InOrder
  <1>7. PassedTo(N - 1, d, status, t)
    <2> SUFFICES ASSUME NEW x \in 0..(N - 1), t = d[x], NEW i \in (x + 1)..(N - 1)
                 PROVE  status[d[i]] = "EVICTING"
      BY DEF PassedTo
    <2>1. \E y \in 0..N : \E z \in (y + 1)..N : t = c[y] /\ d[i] = c[z]
      <3>1. CASE i < k
        <4>1. t = c[x] /\ d[i] = c[i] /\ x \in 0..N /\ i \in (x + 1)..N
          BY <1>5, <3>1
        <4> QED
          BY <4>1
      <3>2. CASE x < k /\ ~(i < k)
        <4>1. t = c[x] /\ d[i] = c[i + 1] /\ x \in 0..N /\ i + 1 \in (x + 1)..N
          BY <1>5, <3>2
        <4> QED
          BY <4>1
      <3>3. CASE ~(x < k)
        <4>1. t = c[x + 1] /\ d[i] = c[i + 1] /\ x + 1 \in 0..N /\ i + 1 \in ((x + 1) + 1)..N
          BY <1>5, <3>3
        <4> QED
          BY <4>1
      <3> QED
        BY <3>1, <3>2, <3>3, <1>5
    <2> QED
      BY <2>1, <1>1 DEF PassedTo
  <1>8. Listed(Del(l, b)) = Listed(l) \ {b}
    <2>1. ASSUME NEW n \in Listed(Del(l, b))
          PROVE  n \in Listed(l) \ {b}
      <3>1. PICK i \in 1..(N - 1) : d[i] = n
        BY <1>4, ChainListed
      <3>2. PICK x \in 1..N : x # k /\ n = c[x]
        <4>1. CASE i < k
          BY <3>1, <4>1, <1>5
        <4>2. CASE ~(i < k)
          <5>1. i + 1 \in 1..N /\ i + 1 # k /\ n = c[i + 1]
            BY <3>1, <4>2, <1>5
          <5> QED
            BY <5>1
        <4> QED
          BY <4>1, <4>2
      <3> QED
        BY <3>2, <1>1, <1>2, ChainListed
    <2>2. ASSUME NEW n \in Listed(l) \ {b}
          PROVE  n \in Listed(Del(l, b))
      <3>1. PICK x \in 1..N : c[x] = n
        BY <1>1, ChainListed
      <3>2. x # k
        BY <3>1, <1>2
      <3>3. PICK i \in 1..(N - 1) : d[i] = n
        <4>1. CASE x < k
          BY <3>1, <4>1, <1>5
        <4>2. CASE x > k
          <5>1. x - 1 \in 1..(N - 1) /\ ~(x - 1 < k) /\ (x - 1) + 1 = x
            BY <4>2, <1>5
          <5>2. d[x - 1] = c[x]
            BY <5>1, <1>5
          <5> QED
            BY <3>1, <5>1, <5>2
        <4> QED
          BY <3>2, <4>1, <4>2, <1>5
      <3> QED
        BY <3>3, <1>4, ChainListed
    <2> QED
      BY <2>1, <2>2
  <1> QED
    BY <1>4, <1>6, <1>7, <1>8 DEF ListOK

(***************************************************************************)
(* The walk goes one node on, and the node that evict_data chooses becomes *)
(* EVICTING (or is deleted, see ListDel): the node it leaves behind is     *)
(* that one, or had been EVICTING before.                                  *)
(***************************************************************************)
LEMMA ListAdvance ==
    ASSUME NEW l, NEW hot, NEW status, NEW t \in Listed(l), ListOK(l, hot, status, t),
           \A n \in Listed(l) : status[n] \in Statuses,
           NEW status2, \A n \in Listed(l) :
               status2[n] = IF n = LastWaiting(l, status) THEN "EVICTING" ELSE status[n]
    PROVE  ListOK(l, hot, status2, l.pre[t])
  <1>1. PICK N, c : Chain(l, N, c) /\ InOrder(N, c, hot) /\ PassedTo(N, c, status, t)
    BY DEF ListOK
  <1>2. PICK k \in 1..N : c[k] = t
    BY <1>1, ChainListed
  <1>3. PICK w \in 0..N : /\ LastWaiting(l, status) = c[w]
                          /\ \A i \in (w + 1)..N : status[c[i]] # "EVICT_WAIT"
                          /\ w # 0 => status[c[w]] = "EVICT_WAIT"
    BY <1>1, LastWaitingIs
  <1>4. /\ N \in Nat /\ \A i \in 1..N : c[i] \in Listed(l)
        /\ \A i, j \in 0..N : c[i] = c[j] => i = j
        /\ l.pre[t] = c[k - 1] /\ k - 1 \in 0..N /\ k \in 0..N
    <2>1. l.pre[t] = c[k - 1]
      BY <1>1, <1>2, ChainPre
    <2> QED
      BY <2>1, <1>1, ChainListed, ChainFacts
  <1>5. ASSUME NEW i \in k..N
        PROVE  status2[c[i]] = "EVICTING"
    <2>1. i \in 1..N /\ i \in 0..N /\ c[i] \in Listed(l)
      BY <1>4
    <2>2. CASE i = w
      BY <2>1, <2>2, <1>3
    <2>3. CASE i > w
      <3>1. i \in (w + 1)..N
        BY <2>1, <2>3, <1>4
      <3>2. status[c[i]] = "EVICTING"
        BY <3>1, <2>1, <1>3 DEF Statuses
      <3> QED
        BY <3>2, <2>1
    <2>4. CASE i < w
      <3>1. w \in (k + 1)..N /\ w # 0
        BY <2>1, <2>4, <1>4
      <3>2. status[c[w]] = "EVICTING"
        BY <3>1, <1>1, <1>2, <1>4 DEF PassedTo
      <3> QED
        BY <3>1, <3>2, <1>3
    <2> QED
      BY <2>1, <2>2, <2>3, <2>4, <1>4
  <1>6. PassedTo(N, c, status2, l.pre[t])
    <2> SUFFICES ASSUME NEW x \in 0..N, l.pre[t] = c[x], NEW i \in (x + 1)..N
                 PROVE  status2[c[i]] = "EVICTING"
      BY DEF PassedTo
    <2>1. x = k - 1
      BY <1>4
    <2>2. i \in k..N
      BY <2>1, <1>4
    <2> QED
      BY <2>2, <1>5
  <1> QED
    BY <1>1, <1>6 DEF ListOK

(***************************************************************************)
(* A block that is lent is added at the tail and sorted in (list.c:159,    *)
(* 14): the list is in order again and has just this one node more.       *)
(***************************************************************************)
LEMMA ListLend ==
    ASSUME NEW l, NEW hot, NEW status, NEW t, ListOK(l, hot, status, t),
           NEW b \in Blocks, b \notin Listed(l),
           NEW hot2 \in [Blocks -> Nat], \A n \in Listed(l) : hot2[n] = hot[n],
           NEW status2
    PROVE  /\ ListOK(Sorting(AddToTail(l, b), hot2, b), hot2, status2, NULL)
           /\ Listed(Sorting(AddToTail(l, b), hot2, b)) = Listed(l) \cup {b}
  <1>1. PICK N, c : Chain(l, N, c) /\ InOrder(N, c, hot)
    BY DEF ListOK
  <1>2. PICK e, a, s : /\ e = Added(N, c, b) /\ a = AddToTail(l, b)
                       /\ s = Sorting(a, hot2, b)
    OBVIOUS
  <1>3. PICK M : M = N + 1
    OBVIOUS
  <1>4. /\ N \in Nat /\ M \in 1..M /\ M \in Nat
        /\ \A i \in 1..N : c[i] \in Listed(l) /\ c[i] # b
        /\ \A i \in 0..M : e[i] = IF i <= N THEN c[i] ELSE b
        /\ e[M] = b
    <2>1. N \in Nat /\ \A i \in 1..N : c[i] \in Listed(l)
      BY <1>1, ChainListed
    <2> QED
      BY <2>1, <1>2, <1>3 DEF Added
  <1>5. Chain(a, M, e)
    BY <1>1, <1>2, <1>3, <1>4, ChainAdd DEF Blocks
  <1>6. ASSUME NEW x \in 1..M, NEW y \in 1..M, x < y, x # M, y # M
        PROVE  hot2[e[x]] <= hot2[e[y]]
    <2>1. x \in 1..N /\ y \in 1..N /\ e[x] = c[x] /\ e[y] = c[y]
      BY <1>3, <1>4, <1>6
    <2>2. hot[c[x]] <= hot[c[y]]
      BY <2>1, <1>1, <1>6 DEF InOrder
    <2> QED
      BY <2>1, <2>2, <1>4
  <1>7. PICK d : /\ Chain(s, M, d) /\ InOrder(M, d, hot2)
                 /\ SameOthers(M, e, M, d, b) /\ \E i \in 1..M : d[i] = b
    <2>1. hot2 \in [Nodes -> Nat]
      BY DEF Blocks
    <2>2. \E d : /\ Chain(Sorting(a, hot2, e[M]), M, d) /\ InOrder(M, d, hot2)
                 /\ SameOthers(M, e, M, d, e[M]) /\ \E i \in 1..M : d[i] = e[M]
      BY <2>1, <1>4, <1>5, <1>6, SortingOrders
    <2> QED
      BY <2>2, <1>2, <1>4
  <1>8. PassedTo(M, d, status2, NULL)
    BY <1>7, ChainFacts DEF PassedTo
  <1>9. ASSUME NEW n \in Blocks, n # b
        PROVE  n \in Listed(s) <=> n \in Listed(l)
    <2>1. ASSUME NEW f, \A i \in 1..M : i \in 0..M, f[0] = ListHead
          PROVE  (\E i \in 1..M : f[i] = n) <=> Ahead(M, f, n, n)
      <3>1. ASSUME NEW i \in 1..M, f[i] = n
            PROVE  Ahead(M, f, n, n)
        <4>1. i <= i
          BY <1>4
        <4> QED
          BY <3>1, <2>1, <4>1 DEF Ahead
      <3>2. ASSUME NEW i \in 0..M, f[i] = n
            PROVE  i \in 1..M
        <4>1. n # ListHead
          BY HeadAssumption DEF Blocks
        <4> QED
          BY <4>1, <3>2, <2>1, <1>4
      <3> QED
        BY <3>1, <3>2 DEF Ahead
    <2>2. \A i \in 1..M : i \in 0..M
      BY <1>4
    <2>3. e[0] = ListHead /\ d[0] = ListHead
      BY <1>5, <1>7, ChainFacts
    <2>4. (\E i \in 1..M : d[i] = n) <=> (\E i \in 1..M : e[i] = n)
      <3>1. Ahead(M, e, n, n) <=> Ahead(M, d, n, n)
        BY <1>7, <1>9 DEF SameOthers
      <3> QED
        BY <2>1, <2>2, <2>3, <3>1
    <2>5. (\E i \in 1..M : e[i] = n) <=> (\E i \in 1..N : c[i] = n)
      BY <1>3, <1>4, <1>9
    <2>6. (n \in Listed(s) <=> \E i \in 1..M : d[i] = n)
          /\ (n \in Listed(l) <=> \E i \in 1..N : c[i] = n)
      BY <1>1, <1>7, ChainListed
    <2> QED
      BY <2>4, <2>5, <2>6
  <1>10. b \in Listed(s)
    BY <1>7, ChainListed
  <1>11. Listed(s) = Listed(l) \cup {b}
    BY <1>9, <1>10 DEF Listed
  <1> QED
    BY <1>2, <1>7, <1>8, <1>11 DEF ListOK

(***************************************************************************)
(* As long as nothing has failed, the node that evict_data and             *)
(* evicted_data choose is the tail, and a main thread that goes on from a  *)
(* node comes to another one.                                              *)
(***************************************************************************)
LEMMA ListGoesOn ==
    ASSUME NEW l, NEW hot, NEW status, NEW u, ListOK(l, hot, status, u),
           \A n \in Listed(l) : status[n] = "EVICT_WAIT",
           NEW t \in Listed(l)
    PROVE  /\ l.pre[t] = ListHead \/ l.pre[t] \in Listed(l)
           /\ l.pre[t] # LastWaiting(l, status)
  <1>1. PICK N, c : Chain(l, N, c)
    BY DEF ListOK
  <1>2. PICK k \in 1..N : c[k] = t
    BY <1>1, ChainListed
  <1>3. PICK w \in 0..N : /\ LastWaiting(l, status) = c[w]
                          /\ \A i \in (w + 1)..N : status[c[i]] # "EVICT_WAIT"
    BY <1>1, LastWaitingIs
  <1>4. N \in Nat /\ \A i \in 1..N : c[i] \in Listed(l)
    BY <1>1, ChainListed
  <1>5. w = N
    <2> SUFFICES ASSUME w # N PROVE FALSE
      OBVIOUS
    <2>1. N \in (w + 1)..N /\ N \in 1..N
      BY <1>4
    <2> QED
      BY <2>1, <1>3, <1>4
  <1>6. l.pre[t] = c[k - 1] /\ k - 1 \in 0..N /\ k - 1 # N /\ N \in 0..N
    <2>1. l.pre[t] = c[k - 1]
      BY <1>1, <1>2, ChainPre
    <2> QED
      BY <2>1, <1>4
  <1>7. c[k - 1] # c[N]
    BY <1>1, <1>6, ChainFacts
  <1>8. c[k - 1] = ListHead \/ c[k - 1] \in Listed(l)
    <2>1. k - 1 = 0 \/ k - 1 \in 1..N
      BY <1>6, <1>4
    <2> QED
      BY <2>1, <1>1, <1>4, ChainListed
  <1> QED
    BY <1>3, <1>5, <1>6, <1>7, <1>8

(* The tail is a node of the list, or the head if there is none. *)
LEMMA ListTail ==
    ASSUME NEW l, NEW hot, NEW status, NEW u, ListOK(l, hot, status, u)
    PROVE  /\ l.tail \in Listed(l) \/ l.tail = ListHead
           /\ \A status2 : ListOK(l, hot, status2, l.tail)
           /\ u = ListHead => \A n \in Listed(l) : status[n] = "EVICTING"
  <1>1. PICK N, c : Chain(l, N, c) /\ InOrder(N, c, hot) /\ PassedTo(N, c, status, u)
    BY DEF ListOK
  <1>2. /\ N \in Nat /\ N \in 0..N /\ 0 \in 0..N /\ l.tail = c[N] /\ c[0] = ListHead
        /\ \A i, j \in 0..N : c[i] = c[j] => i = j
    BY <1>1, ChainFacts
  <1>3. l.tail \in Listed(l) \/ l.tail = ListHead
    <2>1. N = 0 \/ N \in 1..N
      BY <1>2
    <2> QED
      BY <2>1, <1>1, <1>2, ChainListed
  <1>4. ASSUME NEW status2
        PROVE  ListOK(l, hot, status2, l.tail)
    <2>1. PassedTo(N, c, status2, l.tail)
      <3> SUFFICES ASSUME NEW k \in 0..N, l.tail = c[k], NEW i \in (k + 1)..N
                   PROVE  FALSE
        BY DEF PassedTo
      <3>1. k = N
        BY <1>2
      <3> QED
        BY <3>1, <1>2
    <2> QED
      BY <2>1, <1>1 DEF ListOK
  <1>5. ASSUME u = ListHead, NEW n \in Listed(l)
        PROVE  status[n] = "EVICTING"
    <2>1. PICK i \in 1..N : c[i] = n
      BY <1>1, ChainListed
    <2>2. i \in (0 + 1)..N
      BY <2>1
    <2> QED
      BY <2>1, <2>2, <1>1, <1>2, <1>5 DEF PassedTo
  <1> QED
    BY <1>3, <1>4, <1>5

-----------------------------------------------------------------------------
(***************************************************************************)
(* The invariant: who lists a block is who owns or has it, and below       *)
(* to_ssd and behind the node of the loop above it every block is one that *)
(* could not be given back.                                                *)
(***************************************************************************)
NoDegree == [n \in Blocks |-> 0]

Typed ==
    /\ DOMAIN in_remote = Machines /\ DOMAIN from_remote = Machines
    /\ in_status \in [Blocks -> Statuses] /\ from_status \in [Blocks -> Statuses]
    /\ hot_degree \in [Blocks -> Nat]
    /\ place \in [Blocks -> Place]

LentOK ==
    \A m \in Machines :
        /\ ListOK(in_remote[m], NoDegree, in_status, NULL)
        /\ Lent(m) = {b \in Blocks : Owner[b] = m /\ place[b] \in Machines}

HostedOK == \A m \in Machines : Hosted(m) = {b \in Blocks : place[b] = m}

HostsOK(m, t) == ListOK(from_remote[m], hot_degree, from_status, t)

Cursor(m) == IF pc[m] = "shed" THEN tmp[m] ELSE NULL

AllEvicting(m) == \A n \in Hosted(m) : from_status[n] = "EVICTING"

BInv ==
    /\ pc \in [Machines -> Where] /\ DOMAIN tmp = Machines
    /\ Typed /\ LentOK /\ HostedOK
    /\ \A m \in Machines : HostsOK(m, Cursor(m))
    /\ \A m \in Machines : pc[m] = "to_ssd" => AllEvicting(m)

(* What the steps that lend nothing do to the lists. *)
ListsKept ==
    /\ Typed' /\ LentOK' /\ HostedOK'
    /\ \A m \in Machines : \A t : HostsOK(m, t) => HostsOK(m, t)'
    /\ \A m \in Machines : AllEvicting(m) => AllEvicting(m)'

(* Lists that are left alone. *)
LEMMA ListsSame ==
    ASSUME BInv, UNCHANGED listVars
    PROVE  ListsKept
  BY DEF BInv, ListsKept, listVars, Typed, LentOK, HostedOK, HostsOK, AllEvicting, Hosted, Lent

(* A block changes its place among those that are no list (to_ssd, a fault on the disk). *)
LEMMA PlaceChanges ==
    ASSUME BInv, NEW b \in Blocks, place[b] \notin Machines,
           NEW p \in Place \ Machines, place' = [place EXCEPT ![b] = p],
           UNCHANGED <<in_remote, in_status, from_remote, from_status, hot_degree>>
    PROVE  ListsKept
  <1>1. Typed'
    BY DEF BInv, Typed
  <1>2. ASSUME NEW n \in Blocks
        PROVE  /\ place'[n] = IF n = b THEN p ELSE place[n]
               /\ \A m \in Machines : (place'[n] = m) <=> (place[n] = m)
               /\ (place'[n] \in Machines) <=> (place[n] \in Machines)
    BY DEF BInv, Typed
  <1>3. LentOK'
    BY <1>2 DEF BInv, LentOK, Lent
  <1>4. HostedOK'
    BY <1>2 DEF BInv, HostedOK, Hosted
  <1> QED
    BY <1>1, <1>3, <1>4 DEF ListsKept, HostsOK, AllEvicting, Hosted

(* A request that fails leaves nodes EVICTING. *)
LEMMA NodesMarked ==
    ASSUME BInv, NEW b \in Blocks,
           from_status' \in {from_status, [from_status EXCEPT ![b] = "EVICTING"]},
           in_status' \in {in_status, [in_status EXCEPT ![b] = "EVICTING"]},
           UNCHANGED <<in_remote, from_remote, hot_degree, place>>
    PROVE  ListsKept
  <1>1. Typed' /\ \A n \in Blocks :
                    /\ from_status[n] = "EVICTING" => from_status'[n] = "EVICTING"
                    /\ in_status[n] = "EVICTING" => in_status'[n] = "EVICTING"
    BY DEF BInv, Typed, Statuses
  <1>2. \A m \in Machines : \A n \in Lent(m) \cup Hosted(m) : n \in Blocks
    BY DEF Lent, Hosted, Listed
  <1>3. LentOK'
    <2> SUFFICES ASSUME NEW m \in Machines
                 PROVE  ListOK(in_remote[m], NoDegree, in_status', NULL)
      BY DEF BInv, LentOK, Lent
    <2>1. ListOK(in_remote[m], NoDegree, in_status, NULL)
      BY DEF BInv, LentOK
    <2> QED
      BY <1>1, <1>2, <2>1, ListStays DEF Lent
  <1>4. ASSUME NEW m \in Machines, NEW t, HostsOK(m, t)
        PROVE  HostsOK(m, t)'
    <2>1. ListOK(from_remote[m], hot_degree, from_status', t)
      BY <1>1, <1>2, <1>4, ListStays DEF Hosted, HostsOK
    <2> QED
      BY <2>1 DEF HostsOK
  <1>5. HostedOK' /\ \A m \in Machines : AllEvicting(m) => AllEvicting(m)'
    BY <1>1, <1>2 DEF BInv, HostedOK, Hosted, AllEvicting
  <1> QED
    BY <1>1, <1>3, <1>4, <1>5 DEF ListsKept

(***************************************************************************)
(* A block comes home (rpc.c:399, 742, 996): both lists lose its node, and *)
(* a walk that has passed all nodes but this one has passed all.           *)
(***************************************************************************)
LEMMA BlockHome ==
    ASSUME BInv, NEW b \in Blocks, place[b] \in Machines,
           NEW p \in {"home", "settled"}, ComeHome(b, p)
    PROVE  /\ ListsKept
           /\ \A m \in Machines : \A t :
                  ListOK(from_remote[m], hot_degree, [from_status EXCEPT ![b] = "EVICTING"], t)
                  => HostsOK(m, t)'
           /\ \A m \in Machines : Lent(m)' = Lent(m) \ {b} /\ Hosted(m)' = Hosted(m) \ {b}
  <1> PICK h, o : h = place[b] /\ o = Owner[b]
    OBVIOUS
  <1>1. /\ h \in Machines /\ o \in Machines /\ p \in Place /\ p \notin Machines
        /\ b \in Hosted(h) /\ b \in Lent(o)
    BY BalanceAssumption DEF BInv, LentOK, HostedOK, Place
  <1>2. /\ DOMAIN in_remote' = Machines /\ DOMAIN from_remote' = Machines
        /\ \A m \in Machines : in_remote'[m] = IF m = o THEN Del(in_remote[m], b)
                                                       ELSE in_remote[m]
        /\ \A m \in Machines : from_remote'[m] = IF m = h THEN Del(from_remote[m], b)
                                                           ELSE from_remote[m]
    BY <1>1 DEF ComeHome, BInv, Typed
  <1>3. \A n \in Blocks : n # b => /\ hot_degree'[n] = hot_degree[n]
                                 /\ in_status'[n] = in_status[n]
                                 /\ from_status'[n] = from_status[n]
                                 /\ place'[n] = place[n]
    BY DEF ComeHome, BInv, Typed
  <1>4. place'[b] = p /\ Typed'
    BY <1>1, <1>2 DEF ComeHome, BInv, Typed, Statuses
  <1>5. ASSUME NEW m \in Machines
        PROVE  /\ ListOK(in_remote'[m], NoDegree, in_status', NULL)
               /\ Listed(in_remote'[m]) = Listed(in_remote[m]) \ {b}
    <2>1. ListOK(in_remote[m], NoDegree, in_status, NULL)
      BY DEF BInv, LentOK
    <2>2. /\ ListOK(in_remote'[m], NoDegree, in_status, NULL)
          /\ Listed(in_remote'[m]) = Listed(in_remote[m]) \ {b}
      <3>1. CASE m = o
        BY <3>1, <2>1, <1>1, <1>2, ListDel DEF Lent
      <3>2. CASE m # o
        <4>1. b \notin Listed(in_remote[m])
          BY <3>2 DEF BInv, LentOK, Lent
        <4> QED
          BY <3>2, <4>1, <2>1, <1>2
      <3> QED
        BY <3>1, <3>2
    <2>3. \A n \in Listed(in_remote'[m]) : in_status'[n] = in_status[n]
      BY <2>2, <1>3 DEF Listed
    <2> QED
      BY <2>2, <2>3, ListStays
  <1>6. LentOK' /\ \A m \in Machines : Lent(m)' = Lent(m) \ {b}
    BY <1>1, <1>3, <1>4, <1>5 DEF BInv, LentOK, Lent
  <1> DEFINE marked == [from_status EXCEPT ![b] = "EVICTING"]
  <1>7. ASSUME NEW m \in Machines, NEW t,
               ListOK(from_remote[m], hot_degree, marked, t)
        PROVE  /\ ListOK(from_remote'[m], hot_degree', from_status', t)
               /\ Listed(from_remote'[m]) = Listed(from_remote[m]) \ {b}
    <2> HIDE DEF marked
    <2>2. /\ ListOK(from_remote'[m], hot_degree, marked, t)
          /\ Listed(from_remote'[m]) = Listed(from_remote[m]) \ {b}
      <3>1. CASE m = h
        BY <3>1, <1>1, <1>2, <1>7, ListDel DEF Hosted
      <3>2. CASE m # h
        <4>1. b \notin Listed(from_remote[m])
          BY <3>2 DEF BInv, HostedOK, Hosted
        <4> QED
          BY <3>2, <4>1, <1>2, <1>7
      <3> QED
        BY <3>1, <3>2
    <2>3. \A n \in Listed(from_remote'[m]) : n \in Blocks /\ n # b
      BY <2>2 DEF Listed
    <2>4. \A n \in Listed(from_remote'[m]) :
              hot_degree'[n] = hot_degree[n] /\ from_status'[n] = marked[n]
      BY <2>3, <1>3 DEF marked, BInv, Typed
    <2> QED
      BY <2>2, <2>4, ListStays
  <1>8. ASSUME NEW m \in Machines, NEW t, HostsOK(m, t)
        PROVE  ListOK(from_remote[m], hot_degree, marked, t)
    <2>1. \A n \in Listed(from_remote[m]) :
              from_status[n] = "EVICTING" => marked[n] = "EVICTING"
      BY DEF Listed, BInv, Typed
    <2> HIDE DEF marked
    <2> QED
      BY <2>1, <1>8, ListStays DEF HostsOK
  <1>9. ASSUME NEW m \in Machines
        PROVE  Hosted(m)' = Hosted(m) \ {b}
    <2>1. HostsOK(m, Cursor(m))
      BY DEF BInv
    <2> QED
      BY <2>1, <1>7, <1>8 DEF Hosted
  <1>10. HostedOK'
    BY <1>1, <1>3, <1>4, <1>9 DEF BInv, HostedOK
  <1>11. \A m \in Machines : AllEvicting(m) => AllEvicting(m)'
    BY <1>3, <1>9 DEF AllEvicting, Hosted, Listed
  <1> QED
    BY <1>1, <1>4, <1>6, <1>7, <1>8, <1>9, <1>10, <1>11 DEF ListsKept, HostsOK

(***************************************************************************)
(* evict_data (migrate.c:285) with what becomes of the walk of the loop    *)
(* above T2, which goes one node on in the same iteration.                 *)
(***************************************************************************)
LEMMA EvictLists ==
    ASSUME BInv, NEW m \in Machines, EvictData(m)
    PROVE  /\ ListsKept
           /\ \A t \in Hosted(m) : HostsOK(m, t) =>
                 ListOK(from_remote'[m], hot_degree', from_status', from_remote[m].pre[t])
  <1> PICK b : b = LastWaiting(from_remote[m], from_status)
    OBVIOUS
  <1>1. ASSUME NEW t \in Hosted(m), HostsOK(m, t), NEW status,
               \A n \in Hosted(m) : status[n] = IF n = b THEN "EVICTING" ELSE from_status[n]
        PROVE  ListOK(from_remote[m], hot_degree, status, from_remote[m].pre[t])
    <2>1. \A n \in Listed(from_remote[m]) : from_status[n] \in Statuses
      BY DEF BInv, Typed, Listed
    <2> QED
      BY <1>1, <2>1, ListAdvance DEF HostsOK, Hosted
  <1>2. CASE b \notin Hosted(m) /\ UNCHANGED listVars
    <2>1. \A n \in Hosted(m) : from_status[n] = IF n = b THEN "EVICTING" ELSE from_status[n]
      BY <1>2
    <2> QED
      BY <2>1, <1>1, <1>2, ListsSame DEF listVars
  <1>3. CASE b \in Hosted(m) /\ ComeHome(b, "home")
    <2>1. b \in Blocks /\ place[b] = m
      BY <1>3 DEF BInv, HostedOK
    <2> DEFINE marked == [from_status EXCEPT ![b] = "EVICTING"]
    <2>2. \A n \in Hosted(m) : marked[n] = IF n = b THEN "EVICTING" ELSE from_status[n]
      BY DEF BInv, Typed, Hosted, Listed
    <2>3. ListsKept /\ \A t : ListOK(from_remote[m], hot_degree, marked, t) => HostsOK(m, t)'
      BY <2>1, <1>3, BlockHome
    <2> HIDE DEF marked
    <2> QED
      BY <2>2, <2>3, <1>1 DEF HostsOK
  <1>4. CASE /\ b \in Hosted(m) /\ from_status' = [from_status EXCEPT ![b] = "EVICTING"]
             /\ in_status' \in {in_status, [in_status EXCEPT ![b] = "EVICTING"]}
             /\ UNCHANGED <<in_remote, from_remote, hot_degree, place>>
    <2>1. b \in Blocks
      BY <1>4 DEF Hosted, Listed
    <2>2. ListsKept
      BY <2>1, <1>4, NodesMarked
    <2>3. \A n \in Hosted(m) : from_status'[n] = IF n = b THEN "EVICTING" ELSE from_status[n]
      BY <1>4 DEF BInv, Typed, Hosted, Listed
    <2> QED
      BY <2>2, <2>3, <1>1, <1>4
  <1> QED
    BY <1>2, <1>3, <1>4 DEF EvictData

(* evicted_data (migrate.c:61) does the same from the owner's side. *)
LEMMA EvictedLists ==
    ASSUME BInv, NEW m \in Machines, EvictedData(m)
    PROVE  ListsKept
  <1> PICK b : b = LastWaiting(in_remote[m], in_status)
    OBVIOUS
  <1>1. CASE b \in Lent(m)
    <2>1. b \in Blocks /\ place[b] \in Machines
      BY <1>1 DEF BInv, LentOK
    <2>2. \/ ComeHome(b, "home")
          \/ /\ in_status' = [in_status EXCEPT ![b] = "EVICTING"]
             /\ UNCHANGED <<in_remote, from_remote, from_status, hot_degree, place>>
      BY <1>1 DEF EvictedData
    <2> QED
      BY <2>1, <2>2, BlockHome, NodesMarked
  <1> QED
    BY <1>1, ListsSame DEF EvictedData

(* What lending a block (rpc.c:817) does to both machines and to the others. *)
LEMMA LendLists ==
    ASSUME BInv, NEW m \in Machines, NEW b \in Blocks, place[b] = "home", NEW h \in Nat,
           Lend(b, m, h)
    PROVE  /\ Typed' /\ LentOK' /\ HostedOK' /\ HostsOK(m, NULL)'
           /\ \A n \in Machines \ {m} : \A t : HostsOK(n, t) => HostsOK(n, t)'
           /\ \A n \in Machines \ {m} : AllEvicting(n) => AllEvicting(n)'
  <1> PICK o : o = Owner[b]
    OBVIOUS
  <1> PICK i, f : /\ i = Sorting(AddToTail(in_remote[o], b), NoDegree, b)
                  /\ f = Sorting(AddToTail(from_remote[m], b), hot_degree', b)
    OBVIOUS
  <1>1. /\ o \in Machines /\ place[b] \notin Machines
        /\ \A n \in Machines : b \notin Lent(n) /\ b \notin Hosted(n)
    BY BalanceAssumption DEF BInv, LentOK, HostedOK
  <1>2. /\ \A n \in Blocks : n # b => /\ hot_degree'[n] = hot_degree[n]
                                    /\ in_status'[n] = in_status[n]
                                    /\ from_status'[n] = from_status[n]
                                    /\ place'[n] = place[n]
        /\ place'[b] = m /\ hot_degree' \in [Blocks -> Nat]
    BY DEF Lend, BInv, Typed
  <1>3. /\ DOMAIN in_remote' = Machines /\ DOMAIN from_remote' = Machines
        /\ \A n \in Machines : in_remote'[n] = IF n = o THEN i ELSE in_remote[n]
        /\ \A n \in Machines : from_remote'[n] = IF n = m THEN f ELSE from_remote[n]
    BY <1>1 DEF Lend, NoDegree, BInv, Typed
  <1>4. Typed'
    BY <1>2, <1>3 DEF Lend, BInv, Typed, Statuses, Place
  <1>5. /\ ListOK(i, NoDegree, in_status', NULL)
        /\ Listed(i) = Lent(o) \cup {b}
    <2>1. ListOK(in_remote[o], NoDegree, in_status, NULL)
      BY <1>1 DEF BInv, LentOK
    <2>2. NoDegree \in [Blocks -> Nat]
      BY DEF NoDegree
    <2> QED
      BY <2>1, <2>2, <1>1, ListLend DEF Lent
  <1>6. /\ ListOK(f, hot_degree', from_status', NULL)
        /\ Listed(f) = Hosted(m) \cup {b}
    <2>1. ListOK(from_remote[m], hot_degree, from_status, Cursor(m))
      BY DEF BInv, HostsOK
    <2>2. \A n \in Listed(from_remote[m]) : hot_degree'[n] = hot_degree[n]
      BY <1>1, <1>2 DEF Listed, Hosted
    <2> QED
      BY <2>1, <2>2, <1>1, <1>2, ListLend DEF Hosted
  <1>7. ASSUME NEW n \in Machines
        PROVE  /\ ListOK(in_remote'[n], NoDegree, in_status', NULL)
               /\ Lent(n)' = IF n = o THEN Lent(n) \cup {b} ELSE Lent(n)
    <2>1. CASE n = o
      BY <2>1, <1>3, <1>5 DEF Lent
    <2>2. CASE n # o
      <3>1. ListOK(in_remote[n], NoDegree, in_status, NULL)
        BY DEF BInv, LentOK
      <3>2. \A x \in Listed(in_remote[n]) : in_status'[x] = in_status[x]
        BY <1>1, <1>2 DEF Listed, Lent
      <3>3. ListOK(in_remote[n], NoDegree, in_status', NULL)
        BY <3>1, <3>2, ListStays
      <3> QED
        BY <2>2, <3>3, <1>3 DEF Lent
    <2> QED
      BY <2>1, <2>2
  <1>8. LentOK'
    <2>1. \A n \in Machines :
              Lent(n)' = {x \in Blocks : Owner[x] = n /\ place'[x] \in Machines}
      <3> TAKE n \in Machines
      <3>1. Lent(n) = {x \in Blocks : Owner[x] = n /\ place[x] \in Machines}
        BY DEF BInv, LentOK
      <3> QED
        BY <3>1, <1>1, <1>2, <1>7
    <2> QED
      BY <2>1, <1>7 DEF LentOK
  <1>9. HostedOK'
    <2>1. \A n \in Machines : Hosted(n)' = IF n = m THEN Hosted(n) \cup {b} ELSE Hosted(n)
      BY <1>3, <1>6 DEF Hosted
    <2> QED
      BY <2>1, <1>1, <1>2 DEF BInv, HostedOK
  <1>10. ASSUME NEW n \in Machines \ {m}
         PROVE  /\ \A t : HostsOK(n, t) => HostsOK(n, t)'
                /\ AllEvicting(n) => AllEvicting(n)'
    <2>1. from_remote'[n] = from_remote[n]
      BY <1>3
    <2>2. \A x \in Listed(from_remote[n]) : /\ hot_degree'[x] = hot_degree[x]
                                          /\ from_status'[x] = from_status[x]
      BY <1>1, <1>2 DEF Listed, Hosted
    <2> QED
      BY <2>1, <2>2, ListStays DEF HostsOK, AllEvicting, Hosted
  <1> QED
    BY <1>3, <1>4, <1>6, <1>8, <1>9, <1>10 DEF HostsOK

-----------------------------------------------------------------------------
(* A step of a main thread that lends nothing. *)
LEMMA ThreadMoves ==
    ASSUME BInv, ListsKept, NEW m \in Machines, NEW l \in Where, pc' = [pc EXCEPT ![m] = l],
           UNCHANGED tmp \/ \E t : tmp' = [tmp EXCEPT ![m] = t],
           l = "shed" => ListOK(from_remote'[m], hot_degree', from_status', tmp'[m]),
           l = "to_ssd" => pc[m] = "to_ssd" \/ AllEvicting(m)
    PROVE  BInv'
  <1>1. /\ pc' \in [Machines -> Where] /\ DOMAIN tmp' = Machines /\ pc'[m] = l
        /\ \A n \in Machines \ {m} : pc'[n] = pc[n] /\ tmp'[n] = tmp[n]
    BY DEF BInv
  <1>2. ASSUME NEW n \in Machines
        PROVE  HostsOK(n, Cursor(n))'
    <2>1. CASE n = m /\ l = "shed"
      BY <2>1, <1>1 DEF HostsOK, Cursor
    <2>2. CASE n # m
      BY <2>2, <1>1 DEF BInv, ListsKept, Cursor, HostsOK
    <2>3. CASE n = m /\ l # "shed"
      <3>1. HostsOK(m, Cursor(m)) /\ \A t : HostsOK(m, t) => HostsOK(m, t)'
        BY DEF BInv, ListsKept
      <3>2. HostsOK(m, NULL)
        BY <3>1, ListStays DEF HostsOK
      <3>3. HostsOK(m, NULL)'
        BY <3>1, <3>2
      <3> QED
        BY <2>3, <3>3, <1>1 DEF HostsOK, Cursor
    <2> QED
      BY <2>1, <2>2, <2>3
  <1>3. \A n \in Machines : pc'[n] = "to_ssd" => AllEvicting(n)'
    BY <1>1 DEF BInv, ListsKept
  <1> QED
    BY <1>1, <1>2, <1>3 DEF BInv, ListsKept

(* A step of no main thread. *)
LEMMA ThreadsStay ==
    ASSUME BInv, ListsKept, UNCHANGED <<pc, tmp>>
    PROVE  BInv'
  BY DEF BInv, ListsKept, HostsOK, Cursor

(* Each step of a main thread, case by case. *)
LEMMA MainKeepsLists ==
    ASSUME BInv, NEW m \in Machines, Main(m)
    PROVE  BInv'
  <1> USE DEF GoTo, SetTmp, mainVars, Where
  <1>0. /\ pc[m] \in Where /\ pc = [pc EXCEPT ![m] = pc[m]]
        /\ HostsOK(m, Cursor(m)) /\ HostsOK(m, NULL)
        /\ from_remote[m].tail \in Hosted(m) \/ from_remote[m].tail = ListHead
        /\ HostsOK(m, from_remote[m].tail)
        /\ Cursor(m) = ListHead => AllEvicting(m)
    <2>1. HostsOK(m, Cursor(m)) /\ pc[m] \in Where /\ pc = [pc EXCEPT ![m] = pc[m]]
      BY DEF BInv
    <2>2. HostsOK(m, NULL)
      BY <2>1, ListStays DEF HostsOK
    <2> QED
      BY <2>1, <2>2, ListTail DEF HostsOK, Hosted, AllEvicting
  <1>1. CASE Look(m) \/ Low(m) \/ Middle(m) \/ TakeBackEnds(m) \/ GiveBackEnds(m)
    <2>1. /\ UNCHANGED listVars
          /\ UNCHANGED tmp \/ \E t : tmp' = [tmp EXCEPT ![m] = t]
          /\ \E l \in {"decide", "take_back", "pull", "give_back", "top"} :
                pc' = [pc EXCEPT ![m] = l]
      BY <1>1 DEF Look, Low, Middle, TakeBackEnds, GiveBackEnds
    <2> QED
      BY <2>1, ListsSame, ThreadMoves
  <1>2. CASE High(m)
    <2>1. UNCHANGED listVars
      BY <1>2 DEF High
    <2>2. CASE Hosted(m) # {}
      <3>1. pc' = [pc EXCEPT ![m] = "shed"] /\ tmp' = [tmp EXCEPT ![m] = from_remote[m].tail]
        BY <1>2, <2>2 DEF High
      <3>2. tmp'[m] = from_remote[m].tail
        BY <3>1 DEF BInv
      <3>3. ListOK(from_remote'[m], hot_degree', from_status', tmp'[m])
        BY <2>1, <3>2, <1>0 DEF HostsOK, listVars
      <3> QED
        BY <2>1, <3>1, <3>3, ListsSame, ThreadMoves
    <2>3. CASE Hosted(m) = {}
      <3>1. pc' = [pc EXCEPT ![m] = "to_ssd"] /\ UNCHANGED tmp /\ AllEvicting(m)
        BY <1>2, <2>3 DEF High, AllEvicting
      <3> QED
        BY <2>1, <3>1, ListsSame, ThreadMoves
    <2> QED
      BY <2>2, <2>3
  <1>3. CASE TakeBack(m)
    <2>1. /\ EvictedData(m) /\ UNCHANGED pc /\ pc[m] = "take_back"
          /\ \E t : tmp' = [tmp EXCEPT ![m] = t]
      BY <1>3 DEF TakeBack
    <2> QED
      BY <2>1, <1>0, EvictedLists, ThreadMoves
  <1>4. CASE PullData(m)
    <2>1. pc[m] = "pull" /\ pc' = [pc EXCEPT ![m] = "top"] /\ UNCHANGED tmp
      BY <1>4 DEF PullData
    <2>2. CASE UNCHANGED listVars
      BY <2>1, <2>2, ListsSame, ThreadMoves
    <2>3. CASE \E b \in Blocks : \E h \in Hot : place[b] = "home" /\ Lend(b, m, h)
      <3>1. PICK b \in Blocks, h \in Hot : place[b] = "home" /\ Lend(b, m, h)
        BY <2>3
      <3>2. h \in Nat
        BY BalanceAssumption
      <3>3. /\ Typed' /\ LentOK' /\ HostedOK' /\ HostsOK(m, NULL)'
            /\ \A n \in Machines \ {m} : \A t : HostsOK(n, t) => HostsOK(n, t)'
            /\ \A n \in Machines \ {m} : AllEvicting(n) => AllEvicting(n)'
        BY <3>1, <3>2, LendLists
      <3>4. /\ pc' \in [Machines -> Where] /\ pc'[m] = "top"
            /\ \A n \in Machines \ {m} : pc'[n] = pc[n] /\ tmp'[n] = tmp[n]
        BY <2>1 DEF BInv
      <3>5. ASSUME NEW n \in Machines
            PROVE  HostsOK(n, Cursor(n))'
        <4>1. CASE n = m
          BY <4>1, <3>3, <3>4 DEF HostsOK, Cursor
        <4>2. CASE n # m
          BY <4>2, <3>3, <3>4 DEF BInv, HostsOK, Cursor
        <4> QED
          BY <4>1, <4>2
      <3>6. \A n \in Machines : pc'[n] = "to_ssd" => AllEvicting(n)'
        BY <3>3, <3>4 DEF BInv
      <3>7. DOMAIN tmp' = Machines
        BY <2>1 DEF BInv
      <3> QED
        BY <3>3, <3>4, <3>5, <3>6, <3>7 DEF BInv
    <2> QED
      BY <1>4, <2>2, <2>3 DEF PullData, Offered
  <1>5. CASE GiveBack(m)
    <2>1. EvictData(m) /\ UNCHANGED <<pc, tmp>> /\ pc[m] = "give_back"
      BY <1>5 DEF GiveBack
    <2> QED
      BY <2>1, <1>0, EvictLists, ThreadMoves
  <1>6. CASE Shed(m)
    <2>1. /\ EvictData(m) /\ UNCHANGED pc /\ pc[m] = "shed" /\ tmp[m] \in Hosted(m)
          /\ tmp' = [tmp EXCEPT ![m] = from_remote[m].pre[tmp[m]]]
      BY <1>6 DEF Shed
    <2>2. tmp'[m] = from_remote[m].pre[tmp[m]] /\ HostsOK(m, tmp[m])
      BY <2>1, <1>0 DEF BInv, Cursor
    <2>3. ListsKept /\ ListOK(from_remote'[m], hot_degree', from_status', tmp'[m])
      BY <2>1, <2>2, EvictLists
    <2> QED
      BY <2>1, <2>3, <1>0, ThreadMoves
  <1>7. CASE ShedEnds(m)
    <2>1. /\ UNCHANGED listVars /\ UNCHANGED tmp /\ AllEvicting(m)
          /\ \E l \in {"to_ssd", "top"} : pc' = [pc EXCEPT ![m] = l]
      BY <1>7, <1>0 DEF ShedEnds, Cursor
    <2> QED
      BY <2>1, ListsSame, ThreadMoves
  <1>8. CASE ToSsd(m)
    <2>1. /\ pc[m] = "to_ssd" /\ UNCHANGED tmp
          /\ \E l \in {"to_ssd", "top"} : pc' = [pc EXCEPT ![m] = l]
          /\ UNCHANGED <<in_remote, in_status, from_remote, from_status, hot_degree>>
          /\ \/ UNCHANGED place
             \/ \E b \in Offered(m) : place' = [place EXCEPT ![b] = "disk"]
      BY <1>8, <1>0 DEF ToSsd
    <2>2. ListsKept
      <3>1. CASE UNCHANGED place
        BY <2>1, <3>1, ListsSame DEF listVars
      <3>2. CASE \E b \in Offered(m) : place' = [place EXCEPT ![b] = "disk"]
        <4>1. PICK b \in Blocks : place[b] = "home" /\ place' = [place EXCEPT ![b] = "disk"]
          BY <3>2 DEF Offered
        <4>2. "home" \notin Machines /\ "disk" \in Place \ Machines
          BY BalanceAssumption DEF Place
        <4> QED
          BY <2>1, <4>1, <4>2, PlaceChanges
      <3> QED
        BY <2>1, <3>1, <3>2
    <2> QED
      BY <2>1, <2>2, ThreadMoves
  <1> QED
    BY <1>1, <1>2, <1>3, <1>4, <1>5, <1>6, <1>7, <1>8 DEF Main

(* Every step, those of applications and of page faults included. *)
LEMMA StepKeepsLists == BInv /\ [Next]_vars => BInv'
  <1> SUFFICES ASSUME BInv, [Next]_vars PROVE BInv'
    OBVIOUS
  <1>1. ASSUME NEW m \in Machines, Main(m) PROVE BInv'
    BY <1>1, MainKeepsLists
  <1>2. ASSUME \/ \E m \in Machines : StaleTmp(m) \/ UsageChanges(m)
               \/ UNCHANGED vars
        PROVE  BInv'
    <2>1. UNCHANGED listVars /\ UNCHANGED <<pc, tmp>>
      BY <1>2 DEF StaleTmp, UsageChanges, mainVars, vars
    <2> QED
      BY <2>1, ListsSame, ThreadsStay
  <1>3. ASSUME NEW b \in Blocks, PageFault(b) PROVE BInv'
    <2>1. CASE place[b] \in Machines /\ ComeHome(b, "settled")
      BY <2>1, <1>3, BlockHome, ThreadsStay DEF PageFault, mainVars
    <2>2. CASE /\ place[b] = "disk" /\ place' = [place EXCEPT ![b] = "home"]
               /\ UNCHANGED <<in_remote, in_status, from_remote, from_status, hot_degree>>
      <3>1. "disk" \notin Machines /\ "home" \in Place \ Machines
        BY BalanceAssumption DEF Place
      <3>2. ListsKept
        BY <2>2, <3>1, PlaceChanges
      <3> QED
        BY <3>2, <1>3, ThreadsStay DEF PageFault, mainVars
    <2> QED
      BY <1>3, <2>1, <2>2 DEF PageFault
  <1> QED
    BY <1>1, <1>2, <1>3 DEF Next, Application

(* At first nothing is lent. *)
LEMMA InitLists == Init => BInv
  <1> SUFFICES ASSUME Init PROVE BInv
    OBVIOUS
  <1>1. PICK c : c = [i \in 0..0 |-> ListHead]
    OBVIOUS
  <1>2. Chain(EmptyList, 0, c)
    <2>1. /\ EmptyList \in List /\ EmptyList.tail = ListHead
          /\ \A n \in AllNodes : EmptyList.next[n] = NULL /\ EmptyList.pre[n] = NULL
      BY DEF EmptyList, List, Pointer, AllNodes
    <2>2. c[0] = ListHead /\ c \in [0..0 -> AllNodes] /\ ListHead \in AllNodes
      BY <1>1 DEF AllNodes
    <2> QED
      BY <2>1, <2>2 DEF Chain, AllNodes
  <1>3. ASSUME NEW hot, NEW status
        PROVE  ListOK(EmptyList, hot, status, NULL)
    <2>1. InOrder(0, c, hot) /\ PassedTo(0, c, status, NULL)
      BY <1>2, ChainFacts DEF InOrder, PassedTo
    <2> QED
      BY <1>2, <2>1 DEF ListOK
  <1>4. Listed(EmptyList) = {}
    BY DEF EmptyList, Listed, Blocks
  <1>5. \A m \in Machines : in_remote[m] = EmptyList /\ from_remote[m] = EmptyList
    BY DEF Init
  <1>6. Typed /\ pc \in [Machines -> Where] /\ DOMAIN tmp = Machines
    BY DEF Init, Typed, Statuses, Place, Where
  <1>7. \A b \in Blocks : place[b] = "home" /\ place[b] \notin Machines
    BY BalanceAssumption DEF Init
  <1>8. LentOK /\ HostedOK
    BY <1>3, <1>4, <1>5, <1>7 DEF LentOK, HostedOK, Lent, Hosted
  <1>9. \A m \in Machines : HostsOK(m, Cursor(m)) /\ pc[m] # "to_ssd"
    BY <1>3, <1>5 DEF Init, HostsOK, Cursor
  <1> QED
    BY <1>6, <1>8, <1>9 DEF BInv

(* The machine whose main thread has the disk in its turn is the only one to write. *)
LEMMA OnlyToSsdWrites ==
    ASSUME BInv, [Next]_vars, NEW b \in Blocks, place[b] # "disk", place'[b] = "disk"
    PROVE  AllEvicting(Owner[b])
  <1>1. ASSUME NEW x \in Blocks, NEW p, p # "disk", place' = [place EXCEPT ![x] = p]
        PROVE  FALSE
    BY <1>1 DEF BInv, Typed
  <1>2. ~UNCHANGED place
    OBVIOUS
  <1>3. ASSUME NEW x \in Blocks, NEW p \in {"home", "settled"}, ComeHome(x, p)
        PROVE  FALSE
    BY <1>1, <1>3 DEF ComeHome
  <1>4. ASSUME NEW m \in Machines, EvictData(m) \/ EvictedData(m)
        PROVE  FALSE
    <2>1. \A x : x \in Hosted(m) \/ x \in Lent(m) => x \in Blocks
      BY DEF Hosted, Lent, Listed
    <2> QED
      BY <2>1, <1>2, <1>3, <1>4 DEF EvictData, EvictedData, listVars
  <1>5. ASSUME NEW m \in Machines, PullData(m)
        PROVE  FALSE
    <2>1. "disk" \notin Machines
      BY BalanceAssumption
    <2>2. PICK x \in Blocks, h \in Hot : Lend(x, m, h)
      BY <1>2, <1>5 DEF PullData, Offered, listVars
    <2> QED
      BY <2>1, <2>2, <1>1 DEF Lend
  <1>6. ASSUME NEW m \in Machines, ToSsd(m)
        PROVE  AllEvicting(Owner[b])
    <2>1. PICK x \in Offered(m) : place' = [place EXCEPT ![x] = "disk"]
      BY <1>2, <1>6 DEF ToSsd
    <2>2. x = b
      BY <2>1 DEF BInv, Typed, Offered
    <2>3. Owner[b] = m /\ pc[m] = "to_ssd"
      BY <2>1, <2>2, <1>6 DEF Offered, ToSsd
    <2> QED
      BY <2>3 DEF BInv
  <1>7. ASSUME NEW m \in Machines, Main(m)
        PROVE  AllEvicting(Owner[b])
    BY <1>2, <1>4, <1>5, <1>6, <1>7
       DEF Main, Look, Low, Middle, High, TakeBack, TakeBackEnds, GiveBack, GiveBackEnds, Shed,
           ShedEnds, listVars
  <1>8. ASSUME NEW x \in Blocks, PageFault(x)
        PROVE  FALSE
    BY <1>1, <1>3, <1>8 DEF PageFault
  <1>9. ASSUME NEW m \in Machines, StaleTmp(m) \/ UsageChanges(m)
        PROVE  FALSE
    BY <1>2, <1>9 DEF StaleTmp, UsageChanges, listVars
  <1> QED
    BY <1>2, <1>7, <1>8, <1>9 DEF Next, Application, vars, listVars

(***************************************************************************)
(* to_ssd comes last (migrate.c:349): a machine writes a block of its own  *)
(* to the disk only when each block it hosts has been tried and could not  *)
(* be given back.                                                          *)
(***************************************************************************)
THEOREM DiskComesLast == Spec => DiskIsLast
  <1>1. BInv /\ [Next]_vars =>
            [\A b \in Blocks : place[b] # "disk" /\ place'[b] = "disk" =>
                \A n \in Hosted(Owner[b]) : from_status[n] = "EVICTING"]_vars
    BY OnlyToSsdWrites DEF AllEvicting
  <1> QED
    BY <1>1, InitLists, StepKeepsLists, PTL DEF Spec, DiskIsLast
-----------------------------------------------------------------------------
(* The node that a request frees is not the one the loop goes on with. *)
LEMMA FreesAnother ==
    ASSUME BInv, ~Failed, NEW m \in Machines
    PROVE  /\ EvictData(m) => \A t \in Hosted(m) : InList(from_remote'[m], from_remote[m].pre[t])
           /\ EvictedData(m) => \A t \in Lent(m) : InList(in_remote'[m], in_remote[m].pre[t])
  <1>1. \A b \in Blocks : in_status[b] = "EVICT_WAIT" /\ from_status[b] = "EVICT_WAIT"
    BY DEF BInv, Typed, Statuses, Failed
  <1>2. ASSUME NEW t \in Hosted(m), EvictData(m)
        PROVE  InList(from_remote'[m], from_remote[m].pre[t])
    <2> PICK b, u : b = LastWaiting(from_remote[m], from_status) /\ u = from_remote[m].pre[t]
      OBVIOUS
    <2>1. (u = ListHead \/ u \in Hosted(m)) /\ u # b
      <3>1. ListOK(from_remote[m], hot_degree, from_status, Cursor(m))
        BY DEF BInv, HostsOK
      <3>2. \A n \in Listed(from_remote[m]) : from_status[n] = "EVICT_WAIT"
        BY <1>1 DEF Listed
      <3> QED
        BY <3>1, <3>2, <1>2, ListGoesOn DEF Hosted
    <2>2. CASE UNCHANGED from_remote
      BY <2>1, <2>2 DEF InList, Hosted
    <2>3. CASE b \in Hosted(m) /\ ComeHome(b, "home")
      <3>1. b \in Blocks /\ place[b] \in Machines
        BY <2>3 DEF BInv, HostedOK
      <3>2. Hosted(m)' = Hosted(m) \ {b}
        BY <2>3, <3>1, BlockHome
      <3> QED
        BY <2>1, <3>2 DEF InList, Hosted
    <2> QED
      BY <1>2, <2>2, <2>3 DEF EvictData, listVars
  <1>3. ASSUME NEW t \in Lent(m), EvictedData(m)
        PROVE  InList(in_remote'[m], in_remote[m].pre[t])
    <2> PICK b, u : b = LastWaiting(in_remote[m], in_status) /\ u = in_remote[m].pre[t]
      OBVIOUS
    <2>1. (u = ListHead \/ u \in Lent(m)) /\ u # b
      <3>1. ListOK(in_remote[m], NoDegree, in_status, NULL)
        BY DEF BInv, LentOK
      <3>2. \A n \in Listed(in_remote[m]) : in_status[n] = "EVICT_WAIT"
        BY <1>1 DEF Listed
      <3> QED
        BY <3>1, <3>2, <1>3, ListGoesOn DEF Lent
    <2>2. CASE UNCHANGED in_remote
      BY <2>1, <2>2 DEF InList, Lent
    <2>3. CASE b \in Lent(m) /\ ComeHome(b, "home")
      <3>1. b \in Blocks /\ place[b] \in Machines
        BY <2>3 DEF BInv, LentOK
      <3>2. Lent(m)' = Lent(m) \ {b}
        BY <2>3, <3>1, BlockHome
      <3> QED
        BY <2>1, <3>2 DEF InList, Lent
    <2> QED
      BY <1>3, <2>2, <2>3 DEF EvictedData, listVars
  <1> QED
    BY <1>2, <1>3

(* Each step of a main thread: where its tmp is afterwards. *)
LEMMA StepKeepsTmp ==
    ASSUME BInv, NEW m \in Machines, Main(m), TmpAlive(m), ~Failed
    PROVE  TmpAlive(m)'
  <1> USE DEF GoTo, SetTmp, mainVars
  <1>0. /\ \A l : pc' = [pc EXCEPT ![m] = l] => pc'[m] = l
        /\ \A t : tmp' = [tmp EXCEPT ![m] = t] => tmp'[m] = t
    BY DEF BInv
  <1>1. CASE Look(m) \/ Middle(m) \/ TakeBackEnds(m) \/ PullData(m) \/ GiveBackEnds(m)
             \/ ShedEnds(m) \/ ToSsd(m)
    <2>1. /\ \/ \E l \in {"decide", "give_back", "top", "pull", "to_ssd"} :
                     pc' = [pc EXCEPT ![m] = l]
             \/ UNCHANGED pc /\ pc[m] = "to_ssd"
      BY <1>1 DEF Look, Middle, TakeBackEnds, PullData, GiveBackEnds, ShedEnds, ToSsd
    <2>2. pc'[m] \notin {"take_back", "shed"}
      BY <2>1, <1>0
    <2> QED
      BY <2>2 DEF TmpAlive
  <1>2. CASE GiveBack(m)
    BY <1>2 DEF GiveBack, TmpAlive
  <1>3. CASE Low(m)
    <2>1. in_remote[m].tail \in Listed(in_remote[m]) \/ in_remote[m].tail = ListHead
      BY ListTail DEF BInv, LentOK
    <2>2. CASE Lent(m) # {}
      <3>1. pc'[m] = "take_back" /\ tmp'[m] = in_remote[m].tail /\ UNCHANGED in_remote
        BY <1>0, <1>3, <2>2 DEF Low, listVars
      <3> QED
        BY <3>1, <2>1 DEF TmpAlive, InList
    <2>3. CASE Lent(m) = {}
      BY <1>0, <1>3, <2>3 DEF Low, TmpAlive
    <2> QED
      BY <2>2, <2>3
  <1>4. CASE High(m)
    <2>1. from_remote[m].tail \in Listed(from_remote[m]) \/ from_remote[m].tail = ListHead
      BY ListTail DEF BInv, HostsOK
    <2>2. CASE Hosted(m) # {}
      <3>1. pc'[m] = "shed" /\ tmp'[m] = from_remote[m].tail /\ UNCHANGED from_remote
        BY <1>0, <1>4, <2>2 DEF High, listVars
      <3> QED
        BY <3>1, <2>1 DEF TmpAlive, InList
    <2>3. CASE Hosted(m) = {}
      BY <1>0, <1>4, <2>3 DEF High, TmpAlive
    <2> QED
      BY <2>2, <2>3
  <1>5. CASE TakeBack(m)
    <2>1. /\ EvictedData(m) /\ tmp[m] \in Lent(m) /\ pc'[m] = "take_back"
          /\ tmp'[m] = in_remote[m].pre[tmp[m]]
      BY <1>0, <1>5 DEF TakeBack
    <2>2. InList(in_remote'[m], tmp'[m])
      BY <2>1, FreesAnother
    <2> QED
      BY <2>1, <2>2 DEF TmpAlive, InList
  <1>6. CASE Shed(m)
    <2>1. /\ EvictData(m) /\ tmp[m] \in Hosted(m) /\ pc'[m] = "shed"
          /\ tmp'[m] = from_remote[m].pre[tmp[m]]
      BY <1>0, <1>6 DEF Shed
    <2>2. InList(from_remote'[m], tmp'[m])
      BY <2>1, FreesAnother
    <2> QED
      BY <2>1, <2>2 DEF TmpAlive, InList
  <1> QED
    BY <1>1, <1>2, <1>3, <1>4, <1>5, <1>6 DEF Main

(***************************************************************************)
(* tmp_in_remote and tmp_from_remote (migrate.c:570, 632) are kept over a  *)
(* request that frees a node; unless an earlier request has failed it is   *)
(* another node.                                                           *)
(***************************************************************************)
THEOREM OwnStepsSafe == Spec => OwnStepKeepsTmp
  <1>1. BInv => [\A m \in Machines : Main(m) /\ TmpAlive(m) /\ ~Failed => TmpAlive(m)']_vars
    BY StepKeepsTmp
  <1> QED
    BY <1>1, InitLists, StepKeepsLists, PTL DEF Spec, OwnStepKeepsTmp
=============================================================================

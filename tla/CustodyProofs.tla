---------------------------- MODULE CustodyProofs ----------------------------
(***************************************************************************)
(* Who has the data of a block, for any number of clients, blocks, buffers *)
(* and nodes, where nothing goes wrong.  Two families of behaviours: the   *)
(* owner never takes blocks back itself and everything else runs at once;  *)
(* or all three ways home are used and do not cross (SerialSpec).          *)
(***************************************************************************)
EXTENDS MigrationResidency, MigrationProofs

(***************************************************************************)
(* Machines that pull at the same time share the owner's cursor, so one's  *)
(* refusal would offer the other's block again.                            *)
(***************************************************************************)
OneClient == \A c, d \in Clients : c = d

Calm == Adversity = {} /\ ("refuse" \in Ops => OneClient)

-----------------------------------------------------------------------------
(* What the messages in flight say of block b *)

(* Client c has been offered the block, has fetched it, or refuses it. *)
Carries(c, b) ==
    /\ conn[c].blk = b
    /\ \/ At(c, "toInit", "PULL_REQUEST_RET")
       \/ At(c, "toAcc", "CLIENT_DONE")
       \/ At(c, "toAcc", "PULL_REQUEST_BUT_NOT_PULL")

Fetched(c, a, b) == At(c, "toAcc", "CLIENT_DONE") /\ conn[c].blk = b /\ conn[c].buf = a

GivesBack(c, b) == At(c, "connect", "EVICT_REQUEST") /\ conn[c].blk = b

Returned(c, a, b) == At(c, "toInit", "EVICT_REQUEST_RET") /\ conn[c].blk = b /\ conn[c].buf = a

(* The fault thread has client c's answer; c has been told that the block is home. *)
Asked(c, b) ==
    /\ At("fault", "toInit", "PAGEFAULT_EVICTED_REQUEST_RET")
    /\ conn["fault"].cl = c /\ conn["fault"].blk = b

Restored(c, a, b) ==
    /\ At("fault", "toAcc", "PAGEFAULT_EVICTED_REQUEST_DONE")
    /\ conn["fault"].cl = c /\ conn["fault"].buf = a /\ conn["fault"].blk = b

(* The owner's node of the block points at the client's buffer. *)
Linked(c, a, b) ==
    in_tree[b] # NULL /\ in_node[in_tree[b]].ip = c /\ in_node[in_tree[b]].raddr = a

Evicting(c, a, b) == from_remote[c][a].blk = b /\ from_remote[c][a].status = "EVICTING"

Free(b) == lru[b] \in {"PULLED_WAIT", "FSYNCING"}

(* A block at home that no message concerns and that will not be offered again. *)
Retired(b) == home[b] = "data" /\ ~Free(b) /\ \A c \in Clients : ~Carries(c, b)

(* Where the copies of a block are, by where the owner and the messages say they are. *)
Where(b) ==
    IF home[b] = "data" THEN {"home"} \cup {c \in Clients : \E a \in Bufs : Fetched(c, a, b)}
    ELSE IF file[b] = "full" THEN {"disk"}
    ELSE IF HandedOver(b) THEN {"way"}
    ELSE {c \in Clients : \E a \in Bufs : Linked(c, a, b)}

-----------------------------------------------------------------------------
(* The invariant, in parts *)

(* What a client holds is registered, and a node or a message says so. *)
HeldOK ==
    \A c \in Clients, a \in Bufs, b \in Blocks :
        from_remote[c][a].blk = b =>
            /\ [buf |-> a, blk |-> b] \in mr[c]
            /\ Fetched(c, a, b) \/ Linked(c, a, b) \/ Returned(c, a, b) \/ Restored(c, a, b)
            /\ \A x \in Bufs : from_remote[c][x].blk = b => x = a

(* A block in the tree is with the client its node names, or handed over. *)
LinkedOK ==
    \A b \in Blocks, c \in Clients, a \in Bufs :
        Linked(c, a, b) =>
            /\ [buf |-> a, blk |-> b] \in mr[c]
            /\ from_remote[c][a].blk = b \/ HandedOver(b)

ListOK == \A n \in in_list : in_tree[in_node[n].blk] = n

(* A block is at home, in the tree or on disk. *)
BlockOK ==
    \A b \in Blocks :
        /\ home[b] \in {"data", "absent"}
        /\ file[b] \in {"none", "full"}
        /\ home[b] = "data" => in_tree[b] = NULL /\ file[b] = "none"
        /\ home[b] = "absent" => (in_tree[b] = NULL <=> file[b] = "full")
        /\ Free(b) => home[b] = "data"

(* One client at most carries a block, and the owner offers it to no other. *)
CarriedOK ==
    \A c \in Clients, b \in Blocks :
        /\ Carries(c, b) =>
              /\ home[b] = "data" /\ ~Free(b)
              /\ \A d \in Clients : Carries(d, b) => d = c
              /\ OneClient => next_lru_data = b
        /\ \A a \in Bufs : Fetched(c, a, b) => from_remote[c][a].blk = b

(* The three ways home: what a message on its way assumes of client and owner. *)
EvictOK ==
    \A c \in Clients, b \in Blocks :
        /\ GivesBack(c, b) => \E a \in Bufs : Evicting(c, a, b) /\ Linked(c, a, b)
        /\ \A a \in Bufs :
              Returned(c, a, b) =>
                  Evicting(c, a, b) /\ ~Restored(c, a, b) /\ \A x \in Bufs : ~Linked(c, x, b)

AskedOK ==
    \A c \in Clients, b \in Blocks :
        Asked(c, b) =>
            /\ ~GivesBack(c, b)
            /\ \E a \in Bufs : Evicting(c, a, b) /\ (Fetched(c, a, b) \/ Linked(c, a, b))

RestoredOK ==
    \A c \in Clients, a \in Bufs, b \in Blocks :
        Restored(c, a, b) => Evicting(c, a, b) /\ Retired(b)

EvictedOK ==
    LET m == conn["main"]
    IN  /\ At("main", "connect", "EVICTED_REQUEST") =>
              m.node \in in_list /\ in_node[m.node].ip = m.cl /\ in_node[m.node].raddr = m.buf
        /\ m.ctx = "mr" =>
              /\ m.phase \in {"toInit", "closing"}
              /\ [buf |-> m.buf, blk |-> m.blk] \in mr[m.cl]
              /\ from_remote[m.cl][m.buf].blk # m.blk
              /\ m.phase = "closing" => ~Linked(m.cl, m.buf, m.blk)
        /\ m.phase = "toInit" =>
              m.ctx = "mr" /\ m.node = in_tree[m.blk] /\ Linked(m.cl, m.buf, m.blk)

(* A registration nobody will release is of a block that never leaves home again. *)
LeakOK ==
    \A c \in Clients, r \in Region :
        r \in mr[c] /\ Leaked(c, r) =>
            /\ Retired(r.blk)
            /\ \A d \in Clients, a \in Bufs : ~Restored(d, a, r.blk)
            /\ \A d \in Clients, s \in Region :
                  s \in mr[d] /\ Leaked(d, s) /\ s.blk = r.blk => d = c /\ s = r

MessageOK ==
    /\ \A i \in Initiators :
          /\ conn[i].ctx = "mr" => i = "main"
          /\ conn[i].phase = "closing" => conn[i].ctx # "app"
          /\ conn[i].msg = "PULL_REQUEST_BUT_NOT_PULL" => OneClient
    /\ fault.pc # "poll" => conn["fault"].phase = "idle"

Custody ==
    /\ HeldOK /\ LinkedOK /\ ListOK /\ BlockOK /\ CarriedOK
    /\ EvictOK /\ AskedOK /\ RestoredOK /\ EvictedOK /\ LeakOK /\ MessageOK

NoEvict == \A c \in Clients : conn[c].msg \notin {"EVICT_REQUEST", "EVICT_REQUEST_RET"}

(* While the main thread takes a block back, no other way home is under way. *)
MainAlone == conn["main"].phase # "idle" => fault.pc = "idle" /\ NoEvict

(* Nor is one while the fault thread serves a fault. *)
FaultAlone == fault.pc # "idle" => conn["main"].phase = "idle" /\ NoEvict

(* Then the fault thread's node is its block's, in the list or taken out by its own answer. *)
ServedOK ==
    /\ fault.pc = "search" => home[fault.blk] = "absent"
    /\ fault.pc = "poll" =>
          /\ in_node[fault.curr].alloc
          /\ in_node[fault.curr].blk = fault.blk
          /\ IF in_node[fault.curr].evicted THEN Retired(fault.blk) ELSE fault.curr \in in_list

-----------------------------------------------------------------------------
(* What a handler does to the connections *)

OnlyConn(i) == \A j \in Initiators : j # i => conn'[j] = conn[j]

(* Connection i is in phase p with this message now. *)
Now(i, p, m, b, a) ==
    /\ OnlyConn(i)
    /\ conn'[i].phase = p /\ conn'[i].msg = m /\ conn'[i].blk = b /\ conn'[i].buf = a

LEMMA SendIs ==
    ASSUME ConnOK, NEW i \in Initiators, NEW p, NEW m, NEW b, NEW a, Send(i, p, m, b, a)
    PROVE  Now(i, p, m, b, a) /\ conn'[i].cl = conn[i].cl /\ conn'[i].node = conn[i].node
           /\ conn'[i].ctx = conn[i].ctx
  <1>1. conn \in [Initiators -> Connection] /\ conn[i] \in Connection
    BY DEF ConnOK
  <1> QED
    BY <1>1 DEF Send, Now, OnlyConn, Connection

LEMMA SendHoldingIs ==
    ASSUME ConnOK, NEW i \in Initiators, NEW p, NEW m, NEW b, NEW a, NEW x,
           SendHolding(i, p, m, b, a, x)
    PROVE  Now(i, p, m, b, a) /\ conn'[i].cl = conn[i].cl /\ conn'[i].node = conn[i].node
           /\ conn'[i].ctx = x
  <1>1. conn \in [Initiators -> Connection] /\ conn[i] \in Connection
    BY DEF ConnOK
  <1> QED
    BY <1>1 DEF SendHolding, Now, OnlyConn, Connection

LEMMA RequestIs ==
    ASSUME ConnOK, NEW i \in Initiators, NEW m, NEW c, NEW b, NEW a, NEW n,
           Request(i, m, c, b, a, n)
    PROVE  Now(i, "connect", m, b, a) /\ conn'[i].cl = c /\ conn'[i].node = n
           /\ conn'[i].ctx = NULL
  <1>1. conn \in [Initiators -> Connection]
    BY DEF ConnOK
  <1> QED
    BY <1>1 DEF Request, Now, OnlyConn, Idle

(* Connection i is idle, closing or hung now, and nothing is in flight on it. *)
Over(i) == OnlyConn(i) /\ conn'[i].phase \in {"idle", "closing", "hung"}

LEMMA DisconnectIs ==
    ASSUME ConnOK, NEW i \in Initiators, Disconnect(i) \/ ClearAndDisconnect(i)
    PROVE  /\ Over(i) /\ conn'[i].phase = "closing" /\ conn'[i].msg = conn[i].msg
           /\ conn'[i].cl = conn[i].cl /\ conn'[i].buf = conn[i].buf /\ conn'[i].blk = conn[i].blk
           /\ Disconnect(i) => conn'[i].ctx = conn[i].ctx
           /\ ClearAndDisconnect(i) => conn'[i].ctx = NULL
  <1>1. conn \in [Initiators -> Connection] /\ conn[i] \in Connection
    BY DEF ConnOK
  <1> QED
    BY <1>1 DEF Disconnect, ClearAndDisconnect, Over, OnlyConn, Connection

LEMMA IdleIs ==
    ASSUME ConnOK, NEW i \in Initiators, conn' = [conn EXCEPT ![i] = Idle]
    PROVE  Over(i) /\ conn'[i].phase = "idle" /\ conn'[i].msg = NULL /\ conn'[i].ctx = NULL
  <1>1. conn \in [Initiators -> Connection]
    BY DEF ConnOK
  <1> QED
    BY <1>1 DEF Over, OnlyConn, Idle

(* What the messages of client c and of the fault thread say stays the same. *)
SameClient(c) ==
    \A b \in Blocks :
        /\ Carries(c, b)' <=> Carries(c, b)
        /\ GivesBack(c, b)' <=> GivesBack(c, b)
        /\ \A a \in Bufs : (Fetched(c, a, b)' <=> Fetched(c, a, b))
                           /\ (Returned(c, a, b)' <=> Returned(c, a, b))

SameFault ==
    \A c \in Clients, b \in Blocks :
        /\ Asked(c, b)' <=> Asked(c, b)
        /\ \A a \in Bufs : Restored(c, a, b)' <=> Restored(c, a, b)

SameMain == conn'["main"] = conn["main"]

(* Client c's connection carries no message about a block. *)
NoClient(c) ==
    \A b \in Blocks :
        /\ ~Carries(c, b) /\ ~GivesBack(c, b)
        /\ \A a \in Bufs : ~Fetched(c, a, b) /\ ~Returned(c, a, b)

NoFaultMsg == \A c \in Clients, b \in Blocks : ~Asked(c, b) /\ \A a \in Bufs : ~Restored(c, a, b)

LEMMA SameClientBy ==
    ASSUME NEW c \in Clients, conn'[c] = conn[c] PROVE SameClient(c)
  BY DEF SameClient, Carries, GivesBack, Fetched, Returned, At

LEMMA SameFaultBy == conn'["fault"] = conn["fault"] => SameFault
  BY DEF SameFault, Asked, Restored, At

LEMMA OtherClients ==
    ASSUME NEW c \in Clients, OnlyConn(c)
    PROVE  (\A d \in Clients : d # c => SameClient(d)) /\ SameFault /\ SameMain
           /\ conn'["fault"] = conn["fault"]
  <1>1. /\ "main" \in Initiators /\ "main" # c /\ "fault" \in Initiators /\ "fault" # c
        /\ Clients \subseteq Initiators
    BY ThreadAssumption DEF Initiators
  <1>2. \A d \in Clients : d # c => conn'[d] = conn[d]
    BY <1>1 DEF OnlyConn
  <1> QED
    BY <1>1, <1>2, SameClientBy, SameFaultBy DEF OnlyConn, SameMain

LEMMA FaultOnly ==
    ASSUME OnlyConn("fault") PROVE (\A d \in Clients : SameClient(d) /\ conn'[d] = conn[d]) /\ SameMain
  <1>1. "main" \in Initiators /\ "fault" \notin Clients /\ Clients \subseteq Initiators
    BY ThreadAssumption DEF Initiators
  <1> QED
    BY <1>1, SameClientBy DEF OnlyConn, SameMain

LEMMA MainOnly ==
    ASSUME OnlyConn("main")
    PROVE  (\A d \in Clients : SameClient(d) /\ conn'[d] = conn[d]) /\ SameFault
           /\ conn'["fault"] = conn["fault"]
  <1>1. "fault" \in Initiators /\ "main" \notin Clients /\ Clients \subseteq Initiators
    BY ThreadAssumption DEF Initiators
  <1> QED
    BY <1>1, SameClientBy, SameFaultBy DEF OnlyConn

LEMMA NoConn ==
    UNCHANGED conn => (\A d \in Clients : SameClient(d)) /\ SameFault /\ SameMain
  BY SameClientBy, SameFaultBy DEF SameMain

-----------------------------------------------------------------------------
(* What the state says stays the same *)

SameClients == \A c \in Clients : SameClient(c)

SameLinked == \A c \in Clients, a \in Bufs, b \in Blocks : Linked(c, a, b)' <=> Linked(c, a, b)

(* No node in the list is changed but for its status. *)
SameLinks ==
    /\ UNCHANGED <<in_list, in_tree>>
    /\ \A n \in in_list : /\ in_node'[n].blk = in_node[n].blk
                          /\ in_node'[n].ip = in_node[n].ip
                          /\ in_node'[n].raddr = in_node[n].raddr

SameHeld ==
    \A c \in Clients, a \in Bufs :
        /\ from_remote'[c][a].blk = from_remote[c][a].blk
        /\ from_remote[c][a].status = "EVICTING" => from_remote'[c][a].status = "EVICTING"

SameMoves ==
    \A c \in Clients, b \in Blocks :
        /\ GivesBack(c, b)' <=> GivesBack(c, b)
        /\ \A a \in Bufs : (Fetched(c, a, b)' <=> Fetched(c, a, b))
                           /\ (Returned(c, a, b)' <=> Returned(c, a, b))

SameRestored ==
    \A c \in Clients, a \in Bufs, b \in Blocks : Restored(c, a, b)' <=> Restored(c, a, b)

SameFree == \A b \in Blocks : Free(b)' <=> Free(b)

StillRetired == \A b \in Blocks : Retired(b) => Retired(b)'

(* No registration is forgotten in this step. *)
NoNewLeak ==
    \A c \in Clients, r \in Region : r \in mr'[c] /\ Leaked(c, r)' => r \in mr[c] /\ Leaked(c, r)

LEMMA LinkedSame == ASSUME Inv, SameLinks PROVE SameLinked
  BY DEF SameLinks, SameLinked, Linked, Inv, NodesOK, InRemoteIndexSound

LEMMA LinksUnchanged == UNCHANGED <<in_node, in_list, in_tree>> => SameLinks
  BY DEF SameLinks

LEMMA HeldUnchanged == UNCHANGED from_remote => SameHeld
  BY DEF SameHeld

LEMMA MainFields ==
    ASSUME SameMain
    PROVE  /\ conn'["main"].ctx = conn["main"].ctx /\ conn'["main"].cl = conn["main"].cl
           /\ conn'["main"].buf = conn["main"].buf /\ conn'["main"].blk = conn["main"].blk
           /\ conn'["main"].phase = conn["main"].phase /\ conn'["main"].node = conn["main"].node
           /\ \A p, m : At("main", p, m)' <=> At("main", p, m)
           /\ \A b : HandedOver(b)' <=> HandedOver(b)
  BY DEF SameMain, At, HandedOver

(* The addresses in a message of the main thread are there. *)
LEMMA MainAddresses ==
    ASSUME Inv
    PROVE  LET m == conn["main"]
           IN  /\ At("main", "connect", "EVICTED_REQUEST") => m.cl \in Clients /\ m.buf \in Bufs
               /\ m.ctx = "mr" => m.cl \in Clients /\ m.buf \in Bufs /\ m.blk \in Blocks
                                  /\ m.msg = "EVICTED_REQUEST_RET"
  BY DEF Inv, ConnOK, Complete, Initiators, At

LEMMA FreeSame == UNCHANGED lru => SameFree
  BY DEF Free, SameFree

LEMMA SaysTheSame == SameClients /\ SameFault => SameMoves /\ SameRestored
  BY DEF SameClients, SameClient, SameFault, SameMoves, SameRestored

LEMMA HeldFrame ==
    ASSUME HeldOK, SameHeld, UNCHANGED mr, SameMoves, SameRestored, SameLinked
    PROVE  HeldOK'
  BY DEF HeldOK, SameHeld, SameMoves, SameRestored, SameLinked

LEMMA LinkedFrame ==
    ASSUME LinkedOK, SameHeld, UNCHANGED mr, SameLinked,
           \A b \in Blocks : HandedOver(b) => HandedOver(b)'
    PROVE  LinkedOK'
  BY DEF LinkedOK, SameHeld, SameLinked

LEMMA ListFrame == ListOK /\ SameLinks => ListOK'
  BY DEF ListOK, SameLinks

LEMMA BlockFrame ==
    ASSUME BlockOK, UNCHANGED <<home, file, in_tree>>, \A b \in Blocks : Free(b)' => Free(b)
    PROVE  BlockOK'
  BY DEF BlockOK

LEMMA CarriedFrame ==
    ASSUME CarriedOK, SameHeld, UNCHANGED home, SameFree, SameClients,
           UNCHANGED next_lru_data \/ (OneClient => \A c \in Clients : NoClient(c))
    PROVE  CarriedOK'
  BY DEF CarriedOK, SameHeld, SameClients, SameClient, SameFree, NoClient, OneClient

LEMMA EvictFrame ==
    ASSUME EvictOK, SameHeld, SameMoves, SameRestored, SameLinked
    PROVE  EvictOK'
  BY DEF EvictOK, SameHeld, SameMoves, SameRestored, SameLinked, Evicting

LEMMA AskedFrame ==
    ASSUME AskedOK, SameHeld, SameMoves, SameLinked,
           \A c \in Clients, b \in Blocks : Asked(c, b)' => Asked(c, b)
    PROVE  AskedOK'
  BY DEF AskedOK, SameHeld, SameMoves, SameLinked, Evicting

LEMMA RetiredFrame ==
    ASSUME UNCHANGED home, SameFree, SameClients PROVE StillRetired
  BY DEF Retired, StillRetired, SameFree, SameClients, SameClient

LEMMA RestoredFrame ==
    ASSUME RestoredOK, SameHeld, StillRetired,
           \A c \in Clients, a \in Bufs, b \in Blocks : Restored(c, a, b)' => Restored(c, a, b)
    PROVE  RestoredOK'
  BY DEF RestoredOK, SameHeld, StillRetired, Evicting

LEMMA EvictedFrame ==
    ASSUME Inv, EvictedOK, SameHeld, UNCHANGED mr, SameMain, SameLinks
    PROVE  EvictedOK'
  <1>1. \A c \in Clients, a \in Bufs, b \in Blocks : Linked(c, a, b)' <=> Linked(c, a, b)
    BY LinkedSame DEF SameLinked
  <1>2. conn["main"].phase = "toInit" => conn["main"].ctx = "mr"
    BY DEF EvictedOK
  <1> QED
    BY <1>1, <1>2, MainFields, MainAddresses DEF EvictedOK, SameHeld, SameLinks

(* Unless the main thread has an answer, no registration waits for its disconnect. *)
LEMMA EvictedIdle ==
    ASSUME EvictedOK, conn["main"].phase \in {"idle", "connect", "toAcc", "hung"}
    PROVE  conn["main"].ctx # "mr" /\ \A b : ~HandedOver(b)
  BY DEF EvictedOK, HandedOver, At

LEMMA MainIdleKeeps ==
    ASSUME EvictedOK, conn["main"].phase = "idle", SameMain PROVE EvictedOK'
  BY EvictedIdle, MainFields DEF EvictedOK, At

LEMMA LeakedSame ==
    ASSUME SameHeld, SameMain, UNCHANGED mr PROVE NoNewLeak
  BY MainFields DEF Leaked, SameHeld, Region, NoNewLeak

LEMMA LeakFrame ==
    ASSUME LeakOK, NoNewLeak, StillRetired,
           \A c \in Clients, a \in Bufs, b \in Blocks : Restored(c, a, b)' => Restored(c, a, b)
    PROVE  LeakOK'
  <1>1. \A r \in Region : r.blk \in Blocks
    BY DEF Region
  <1> QED
    BY <1>1 DEF LeakOK, NoNewLeak, StillRetired

-----------------------------------------------------------------------------
(* What a step does to the copies of each block *)

SameWhere(b) ==
    /\ home'[b] = home[b] /\ file'[b] = file[b]
    /\ HandedOver(b)' <=> HandedOver(b)
    /\ \A c \in Clients, a \in Bufs : (Fetched(c, a, b)' <=> Fetched(c, a, b))
                                      /\ (Linked(c, a, b)' <=> Linked(c, a, b))

Leaves(from, to) ==
    \/ from = {"home"} /\ to = {"disk"}
    \/ \E c \in Clients : \/ from = {"home"} /\ to = {"home", c}
                          \/ from = {"home", c} /\ to = {c}
                          \/ from = {c} /\ to = {"way"}

Arrives(from, to) ==
    /\ to = {"home"}
    /\ from \in {{"disk"}, {"way"}} \/ \E c \in Clients : from = {c}

Moves ==
    \/ \A b \in Blocks : SameWhere(b)
    \/ \E b \in Blocks :
          /\ \A y \in Blocks : y # b => SameWhere(y)
          /\ Leaves(Where(b), Where(b)') \/ Arrives(Where(b), Where(b)')

(* The invariant is kept, a block that is to stay home stays, and one copy moves at most. *)
Kept == Custody' /\ StillRetired /\ Moves

LEMMA MovesBy ==
    ASSUME NEW b \in Blocks, \A y \in Blocks : y # b => SameWhere(y),
           Leaves(Where(b), Where(b)') \/ Arrives(Where(b), Where(b)')
    PROVE  Moves
  BY DEF Moves

LEMMA NothingMoves ==
    ASSUME UNCHANGED <<home, file>>, SameMoves, SameLinked,
           \A b \in Blocks : HandedOver(b)' <=> HandedOver(b)
    PROVE  Moves
  BY DEF Moves, SameWhere, SameMoves, SameLinked

(* A step that changes no message about a block and nothing of where its data is. *)
LEMMA QuietKeeps ==
    ASSUME Inv, Custody, SameClients, SameFault, SameMain, SameLinks, SameHeld,
           UNCHANGED <<mr, home, file>>, SameFree, MessageOK',
           UNCHANGED next_lru_data \/ (OneClient => \A c \in Clients : NoClient(c))
    PROVE  Kept
  <1>1. SameLinked /\ SameMoves /\ SameRestored /\ StillRetired /\ NoNewLeak
    BY LinkedSame, SaysTheSame, RetiredFrame, LeakedSame
  <1>2. UNCHANGED in_tree
    BY DEF SameLinks
  <1>3. \A b \in Blocks : HandedOver(b)' <=> HandedOver(b)
    BY MainFields
  <1>4. HeldOK' /\ LinkedOK' /\ ListOK' /\ EvictOK'
    BY <1>1, <1>3, HeldFrame, LinkedFrame, ListFrame, EvictFrame DEF Custody
  <1>5. BlockOK' /\ CarriedOK'
    BY <1>2, BlockFrame, CarriedFrame DEF Custody, SameFree
  <1>6. AskedOK' /\ RestoredOK' /\ EvictedOK' /\ LeakOK'
    BY <1>1, AskedFrame, RestoredFrame, EvictedFrame, LeakFrame DEF Custody, SameFault
  <1>7. Moves
    BY <1>1, <1>3, NothingMoves
  <1> QED
    BY <1>1, <1>4, <1>5, <1>6, <1>7 DEF Custody, Kept

-----------------------------------------------------------------------------
(* Handlers whose message is not about a block *)

LEMMA SilentClient ==
    ASSUME NEW c \in Clients, NoClient(c), NoClient(c)' PROVE SameClient(c)
  BY DEF NoClient, SameClient

LEMMA AllClients ==
    ASSUME NEW c \in Clients, OnlyConn(c), NoClient(c), NoClient(c)'
    PROVE  SameClients /\ SameFault /\ SameMain
  BY SilentClient, OtherClients DEF SameClients

LEMMA OverSays == ASSUME NEW c \in Clients, Over(c) PROVE NoClient(c)'
  BY DEF Over, NoClient, Carries, GivesBack, Fetched, Returned, At

(* The messages of a client's connection that are not about a block. *)
LEMMA SilentBy ==
    ASSUME NEW c \in Clients,
           \/ conn[c].phase \in {"idle", "closing", "hung"}
           \/ conn[c].msg \in {"MEM_INFO", "MEM_INFO_RET", "PULL_REQUEST", "PULL_REQUEST_RET_NO_DATA",
                               "PULL_REQUEST_RET_NOT_NEED", "IBVREG_ERR"}
    PROVE  NoClient(c)
  BY DEF NoClient, Carries, GivesBack, Fetched, Returned, At

LEMMA MessageKept ==
    ASSUME MessageOK, NEW i \in Initiators, OnlyConn(i),
           conn'[i].ctx = "mr" => i = "main",
           conn'[i].phase = "closing" => conn'[i].ctx # "app",
           conn'[i].msg = "PULL_REQUEST_BUT_NOT_PULL" => OneClient,
           fault'.pc # "poll" => IF i = "fault" THEN conn'[i].phase = "idle" ELSE fault.pc # "poll"
    PROVE  MessageOK'
  <1>1. "fault" \in Initiators
    BY DEF Initiators
  <1> QED
    BY <1>1 DEF MessageOK, OnlyConn, OneClient

LEMMA MessageUnchanged ==
    MessageOK /\ UNCHANGED conn /\ (fault'.pc = fault.pc \/ conn["fault"].phase = "idle") => MessageOK'
  BY DEF MessageOK, OneClient

LEMMA MemInfoCustody ==
    ASSUME Inv, Custody, NEW c \in Clients,
           GetRemoteMemory(c) \/ OnConnectionMemInfo(c) \/ OnCompletionMemInfoRet(c)
           \/ PullData(c) \/ OnCompletionPullNotNeeded(c)
    PROVE  Kept
  <1>0. c \in Initiators /\ c # "main" /\ c # "fault" /\ ConnOK /\ Complete(conn[c]) /\ MessageOK
    BY ThreadAssumption DEF Initiators, Inv, ConnOK, Custody
  <1>1. /\ UNCHANGED <<from_remote, mr, home, file, lru, next_lru_data, in_node, in_list, in_tree,
                       fault>>
        /\ NoClient(c)
    BY SilentBy DEF GetRemoteMemory, OnConnectionMemInfo, OnCompletionMemInfoRet, PullData,
       OnCompletionPullNotNeeded, ownerVars, memVars, clientVars, At
  <1>2. /\ OnlyConn(c) /\ NoClient(c)' /\ conn'[c].ctx \in {NULL, conn[c].ctx}
        /\ conn'[c].msg # "PULL_REQUEST_BUT_NOT_PULL"
        /\ conn'[c].phase = "closing" => conn'[c].ctx # "app"
    <2>1. CASE GetRemoteMemory(c) \/ PullData(c)
      <3>1. \E m \in {"MEM_INFO", "PULL_REQUEST"} :
               Now(c, "connect", m, NULL, NULL) /\ conn'[c].ctx = NULL
        BY <1>0, <2>1, RequestIs DEF GetRemoteMemory, PullData
      <3> QED
        BY <3>1 DEF Now, NoClient, Carries, GivesBack, Fetched, Returned, At
    <2>2. CASE OnConnectionMemInfo(c)
      <3>1. Now(c, "toInit", "MEM_INFO_RET", NULL, NULL) /\ conn'[c].ctx = conn[c].ctx
        BY <1>0, <2>2, SendIs DEF OnConnectionMemInfo
      <3> QED
        BY <3>1 DEF Now, NoClient, Carries, GivesBack, Fetched, Returned, At
    <2>3. CASE OnCompletionMemInfoRet(c) \/ OnCompletionPullNotNeeded(c)
      <3>1. Over(c) /\ conn'[c].msg = conn[c].msg /\ conn'[c].ctx = conn[c].ctx
        BY <1>0, <2>3, DisconnectIs DEF OnCompletionMemInfoRet, OnCompletionPullNotNeeded
      <3>2. conn[c].ctx # "app" /\ conn[c].msg # "PULL_REQUEST_BUT_NOT_PULL"
        BY <1>0, <2>3 DEF OnCompletionMemInfoRet, OnCompletionPullNotNeeded, At, Complete
      <3> QED
        BY <3>1, <3>2, OverSays DEF Over
    <2> QED
      BY <2>1, <2>2, <2>3
  <1>3. SameClients /\ SameFault /\ SameMain
    BY <1>1, <1>2, AllClients
  <1>4. MessageOK'
    <2>1. conn'[c].ctx # "mr"
      BY <1>0, <1>2, NullAssumption DEF MessageOK
    <2> QED
      BY <1>0, <1>1, <1>2, <2>1, MessageKept
  <1> QED
    BY <1>1, <1>3, <1>4, QuietKeeps, LinksUnchanged, HeldUnchanged, FreeSame

(* Steps that leave the connections alone. *)
LEMMA AloneCustody ==
    ASSUME Inv, Custody, UNCHANGED conn, UNCHANGED fault \/ conn["fault"].phase = "idle",
           UNCHANGED <<from_remote, mr, home, file, next_lru_data>>, SameFree, SameLinks
    PROVE  Kept
  <1>1. MessageOK'
    BY MessageUnchanged DEF Custody
  <1> QED
    BY <1>1, NoConn, HeldUnchanged, QuietKeeps DEF SameClients

LEMMA CrashCustody == ASSUME Inv, Custody, Crash PROVE Kept
  BY AloneCustody, LinksUnchanged, FreeSame DEF Crash, ownerVars, memVars, clientVars

LEMMA FaultReadCustody ==
    ASSUME Inv, Custody, NEW b \in Blocks, FaultRead(b) PROVE Kept
  <1>1. conn["fault"].phase = "idle"
    BY DEF Custody, MessageOK, FaultRead
  <1> QED
    BY <1>1, AloneCustody, LinksUnchanged, FreeSame DEF FaultRead, ownerVars, memVars, clientVars

LEMMA FaultDoneCustody == ASSUME Inv, Custody, FaultDone PROVE Kept
  <1>1. fault.curr \in Chunks /\ fault.curr \notin in_list
    BY DEF FaultDone, Inv, FaultOK, FaultComplete, NodesOK, InRemoteIndexSound
  <1>2. SameLinks
    BY <1>1 DEF FaultDone, SameLinks, Inv, NodesOK
  <1> QED
    BY <1>2, AloneCustody, FreeSame DEF FaultDone, memVars, clientVars

-----------------------------------------------------------------------------
(* Pulling *)

LEMMA RetiredBy ==
    ASSUME NEW b \in Blocks, Retired(b), home'[b] = home[b], ~Free(b)',
           \A c \in Clients : Carries(c, b)' => Carries(c, b)
    PROVE  Retired(b)'
  BY DEF Retired

(* The owner offers block b to client c, for good or until it answers NOT_NEED. *)
LEMMA OfferCustody ==
    ASSUME Inv, Custody, NEW c \in Clients, At(c, "connect", "PULL_REQUEST"),
           NEW b \in Waiting,
           next_lru_data' = b, lru' = [lru EXCEPT ![b] = "PULLING"],
           SendHolding(c, "toInit", "PULL_REQUEST_RET", b, NULL, "app"),
           UNCHANGED <<in_node, in_list, in_tree, memVars, fault, clientVars>>
    PROVE  Kept
  <1>0. /\ c \in Initiators /\ c # "main" /\ c # "fault" /\ ConnOK
        /\ b \in Blocks /\ Free(b) /\ lru[b] = "PULLED_WAIT" /\ lru \in [Blocks -> LruStatus]
    BY ThreadAssumption DEF Initiators, Inv, MemoryOK, Waiting, Free
  <1>1. home[b] = "data" /\ \A d \in Clients : ~Carries(d, b)
    BY <1>0 DEF Custody, BlockOK, CarriedOK
  <1>2. /\ Now(c, "toInit", "PULL_REQUEST_RET", b, NULL) /\ conn'[c].ctx = "app"
        /\ NoClient(c)
    BY <1>0, SendHoldingIs, SilentBy DEF At
  <1>3. /\ \A d \in Clients : d # c => SameClient(d)
        /\ SameFault /\ SameMain
        /\ \A x \in Blocks : Carries(c, x)' <=> x = b
        /\ \A x \in Blocks : ~GivesBack(c, x)'
        /\ \A x \in Blocks, a \in Bufs : ~Fetched(c, a, x)' /\ ~Returned(c, a, x)'
    BY <1>2, OtherClients DEF Now, Carries, GivesBack, Fetched, Returned, At
  <1>4. SameMoves /\ SameRestored
    <2>1. ASSUME NEW d \in Clients, NEW x \in Blocks
          PROVE  /\ GivesBack(d, x)' <=> GivesBack(d, x)
                 /\ \A a \in Bufs : (Fetched(d, a, x)' <=> Fetched(d, a, x))
                                    /\ (Returned(d, a, x)' <=> Returned(d, a, x))
      <3>1. CASE d = c
        BY <1>2, <1>3, <3>1 DEF NoClient
      <3>2. CASE d # c
        BY <1>3, <3>2 DEF SameClient
      <3> QED
        BY <3>1, <3>2
    <2> QED
      BY <1>3, <2>1 DEF SameMoves, SameRestored, SameFault
  <1>5. /\ \A d \in Clients, x \in Blocks : Carries(d, x)' <=> Carries(d, x) \/ (d = c /\ x = b)
        /\ \A x \in Blocks : Free(x)' <=> Free(x) /\ x # b
    <2>1. \A x \in Blocks : Free(x)' <=> Free(x) /\ x # b
      BY <1>0 DEF Free
    <2> QED
      BY <2>1, <1>2, <1>3 DEF SameClient, NoClient
  <1>6. StillRetired
    BY <1>0, <1>5 DEF StillRetired, Retired, memVars
  <1>7. SameLinked /\ SameHeld /\ SameLinks /\ NoNewLeak /\ UNCHANGED <<mr, home, file>>
    BY <1>3, LinksUnchanged, LinkedSame, HeldUnchanged, LeakedSame DEF clientVars, memVars
  <1>8. \A x \in Blocks : HandedOver(x)' <=> HandedOver(x)
    BY <1>3, MainFields
  <1>9. HeldOK' /\ LinkedOK' /\ ListOK' /\ EvictOK'
    BY <1>4, <1>7, <1>8, HeldFrame, LinkedFrame, ListFrame, EvictFrame DEF Custody
  <1>10. BlockOK'
    BY <1>5, <1>7, BlockFrame DEF Custody
  <1>11. CarriedOK'
    <2>1. \A d \in Clients, x \in Blocks : Carries(d, x)' => home'[x] = "data" /\ ~Free(x)'
      BY <1>1, <1>5, <1>7 DEF Custody, CarriedOK
    <2>2. \A d, e \in Clients, x \in Blocks : Carries(d, x)' /\ Carries(e, x)' => e = d
      BY <1>1, <1>5 DEF Custody, CarriedOK
    <2>3. \A d \in Clients, x \in Blocks : Carries(d, x)' /\ OneClient => next_lru_data' = x
      BY <1>2, <1>5 DEF OneClient, NoClient
    <2>4. \A d \in Clients, x \in Blocks, a \in Bufs : Fetched(d, a, x)' => from_remote'[d][a].blk = x
      BY <1>4 DEF Custody, CarriedOK, SameMoves, clientVars
    <2> QED
      BY <2>1, <2>2, <2>3, <2>4 DEF CarriedOK, OneClient
  <1>12. AskedOK' /\ RestoredOK' /\ EvictedOK' /\ LeakOK'
    BY <1>3, <1>4, <1>6, <1>7, AskedFrame, RestoredFrame, EvictedFrame, LeakFrame
    DEF Custody, SameFault
  <1>13. MessageOK'
    BY <1>0, <1>2, NullAssumption, MessageKept DEF Custody, Now
  <1>14. Moves
    BY <1>4, <1>7, <1>8, NothingMoves
  <1> QED
    BY <1>6, <1>9, <1>10, <1>11, <1>12, <1>13, <1>14 DEF Custody, Kept

LEMMA OnConnectionPullCustody ==
    ASSUME Calm, Inv, Custody, NEW c \in Clients, OnConnectionPull(c) PROVE Kept
  <1>0. c \in Initiators /\ c # "main" /\ c # "fault" /\ ConnOK /\ conn[c].ctx # "app"
    <2>1. c \in Initiators /\ c # "main" /\ c # "fault" /\ ConnOK
      BY ThreadAssumption DEF Initiators, Inv
    <2> QED
      BY <2>1, NullAssumption DEF ConnOK, Complete, OnConnectionPull, At
  <1>1. At(c, "connect", "PULL_REQUEST")
        /\ UNCHANGED <<in_node, in_list, in_tree, memVars, fault, clientVars>>
    BY DEF OnConnectionPull
  <1>2. CASE lru' = lru /\ \E m \in {"PULL_REQUEST_RET_NO_DATA", "PULL_REQUEST_RET_NOT_NEED"} :
                              Send(c, "toInit", m, NULL, NULL)
    <2>1. PICK m \in {"PULL_REQUEST_RET_NO_DATA", "PULL_REQUEST_RET_NOT_NEED"} :
             Now(c, "toInit", m, NULL, NULL) /\ conn'[c].ctx = conn[c].ctx
      BY <1>0, <1>2, SendIs
    <2>2. NoClient(c) /\ NoClient(c)'
      <3>1. NoClient(c)
        BY <1>1, SilentBy DEF At
      <3>2. NoClient(c)'
        BY <2>1 DEF Now, NoClient, Carries, GivesBack, Fetched, Returned, At
      <3> QED
        BY <3>1, <3>2
    <2>3. SameClients /\ SameFault /\ SameMain
      BY <2>1, <2>2, AllClients DEF Now
    <2>4. MessageOK'
      <3>1. MessageOK
        BY DEF Custody
      <3> QED
        BY <1>0, <1>1, <2>1, <3>1, MessageKept, NullAssumption DEF Now, MessageOK
    <2>5. OneClient => \A d \in Clients : NoClient(d)
      BY <2>2 DEF OneClient
    <2> QED
      BY <1>1, <1>2, <2>3, <2>4, <2>5, QuietKeeps, LinksUnchanged, HeldUnchanged, FreeSame
      DEF memVars, clientVars
  <1>3. CASE \E b \in Waiting :
                /\ next_lru_data' = b
                /\ lru' = [lru EXCEPT ![b] = "PULLING"]
                /\ SendHolding(c, "toInit", "PULL_REQUEST_RET", b, NULL, "app")
    BY <1>1, <1>3, OfferCustody
  <1> QED
    BY <1>2, <1>3 DEF OnConnectionPull, Calm

(* The client takes the block. *)
LEMMA TakeCustody ==
    ASSUME Inv, Custody, NEW c \in Clients, NEW a \in Bufs,
           At(c, "toInit", "PULL_REQUEST_RET"), TakeBlock(c, conn[c].blk, a),
           Send(c, "toAcc", "CLIENT_DONE", conn[c].blk, a),
           UNCHANGED <<ownerVars, memVars, fault>>
    PROVE  Kept
  <1> DEFINE b == conn[c].blk
             reg == [buf |-> a, blk |-> b]
  <1>0. /\ c \in Initiators /\ c # "main" /\ c # "fault" /\ ConnOK /\ ClientTypeOK
        /\ b \in Blocks /\ Carries(c, b) /\ reg \in Region
        /\ conn[c].ctx # "mr"
    <2>1. c \in Initiators /\ c # "main" /\ c # "fault" /\ ConnOK /\ ClientTypeOK
      BY ThreadAssumption DEF Initiators, Inv
    <2>2. b \in Blocks
      BY <2>1 DEF At, ConnOK, Complete
    <2> QED
      BY <2>1, <2>2, NullAssumption DEF Custody, MessageOK, Carries, Region
  <1>1. /\ home[b] = "data" /\ in_tree[b] = NULL
        /\ \A x \in Bufs : from_remote[c][x].blk # b
        /\ from_remote[c][a].blk = NULL /\ reg \notin mr[c]
    <2>1. home[b] = "data" /\ in_tree[b] = NULL
      BY <1>0 DEF Custody, CarriedOK, BlockOK
    <2>2. ASSUME NEW x \in Bufs, from_remote[c][x].blk = b PROVE FALSE
      <3>1. Fetched(c, x, b) \/ Linked(c, x, b) \/ Returned(c, x, b) \/ Restored(c, x, b)
        BY <1>0, <2>2 DEF Custody, HeldOK
      <3>2. ~Fetched(c, x, b) /\ ~Linked(c, x, b) /\ ~Returned(c, x, b)
        BY <2>1 DEF Fetched, Linked, Returned, At
      <3> QED
        BY <1>0, <3>1, <3>2 DEF Custody, RestoredOK, Retired
    <2> QED
      BY <2>1, <2>2 DEF TakeBlock, Live
  <1>2. /\ Now(c, "toAcc", "CLIENT_DONE", b, a) /\ conn'[c].ctx = conn[c].ctx
        /\ \A d \in Clients : d # c => SameClient(d)
        /\ SameFault /\ SameMain
        /\ \A x \in Blocks : Carries(c, x)' <=> Carries(c, x)
        /\ \A x \in Blocks, y \in Bufs : (Fetched(c, y, x)' <=> x = b /\ y = a) /\ ~Fetched(c, y, x)
                /\ ~Returned(c, y, x)' /\ ~Returned(c, y, x)
        /\ \A x \in Blocks : ~GivesBack(c, x)' /\ ~GivesBack(c, x)
    <2>1. Now(c, "toAcc", "CLIENT_DONE", b, a) /\ conn'[c].ctx = conn[c].ctx
      BY <1>0, SendIs
    <2> QED
      BY <1>0, <2>1, OtherClients DEF Now, Carries, GivesBack, Fetched, Returned, At
  <1>3. /\ \A d \in Clients, x \in Bufs : d # c \/ x # a => from_remote'[d][x] = from_remote[d][x]
        /\ from_remote'[c][a].blk = b
        /\ \A d \in Clients : d # c => mr'[d] = mr[d]
        /\ mr'[c] = mr[c] \cup {reg}
    BY <1>0 DEF TakeBlock, ClientTypeOK
  <1>4. /\ SameLinks /\ SameLinked /\ SameFree /\ SameRestored
        /\ UNCHANGED <<home, file, in_tree, in_list, in_node, lru, next_lru_data, fault>>
        /\ \A d \in Clients, x \in Blocks : Carries(d, x)' <=> Carries(d, x)
        /\ \A x \in Blocks : HandedOver(x)' <=> HandedOver(x)
        /\ NULL \notin Blocks
    BY <1>2, LinksUnchanged, LinkedSame, FreeSame, MainFields, NullAssumption
    DEF ownerVars, memVars, SameClient, SameFault, SameRestored
  <1>5. StillRetired
    BY <1>4 DEF StillRetired, Retired, SameFree
  <1>6. HeldOK'
    <2>1. ASSUME NEW d \in Clients, NEW x \in Bufs, NEW y \in Blocks, from_remote'[d][x].blk = y
          PROVE  /\ [buf |-> x, blk |-> y] \in mr'[d]
                 /\ Fetched(d, x, y)' \/ Linked(d, x, y)' \/ Returned(d, x, y)' \/ Restored(d, x, y)'
                 /\ \A z \in Bufs : from_remote'[d][z].blk = y => z = x
      <3>1. CASE d = c /\ x = a
        BY <1>1, <1>2, <1>3, <2>1, <3>1
      <3>2. CASE d # c \/ x # a
        <4>1. from_remote[d][x].blk = y
          BY <1>3, <2>1, <3>2
        <4>2. /\ [buf |-> x, blk |-> y] \in mr[d]
              /\ Fetched(d, x, y) \/ Linked(d, x, y) \/ Returned(d, x, y) \/ Restored(d, x, y)
              /\ \A z \in Bufs : from_remote[d][z].blk = y => z = x
          BY <4>1 DEF Custody, HeldOK
        <4>3. Fetched(d, x, y)' \/ Linked(d, x, y)' \/ Returned(d, x, y)' \/ Restored(d, x, y)'
          BY <4>2, <1>2, <1>4 DEF SameClient, SameLinked, SameRestored
        <4>4. d = c => y # b
          BY <4>1, <1>1
        <4> QED
          BY <4>2, <4>3, <4>4, <1>3
      <3> QED
        BY <3>1, <3>2
    <2> QED
      BY <2>1 DEF HeldOK
  <1>7. LinkedOK'
    <2>1. ASSUME NEW x \in Blocks, NEW d \in Clients, NEW y \in Bufs, Linked(d, y, x)'
          PROVE  /\ [buf |-> y, blk |-> x] \in mr'[d]
                 /\ from_remote'[d][y].blk = x \/ HandedOver(x)'
      <3>1. Linked(d, y, x) /\ x # b
        BY <1>1, <1>4, <2>1 DEF SameLinked, Linked
      <3>2. [buf |-> y, blk |-> x] \in mr[d] /\ (from_remote[d][y].blk = x \/ HandedOver(x))
        BY <3>1 DEF Custody, LinkedOK
      <3>3. from_remote[d][y].blk = x => from_remote'[d][y].blk = x
        BY <1>1, <1>3, <1>4
      <3> QED
        BY <3>2, <3>3, <1>3, <1>4
    <2> QED
      BY <2>1 DEF LinkedOK
  <1>8. ListOK' /\ BlockOK'
    BY <1>4, ListFrame, BlockFrame DEF Custody, SameFree
  <1>9. CarriedOK'
    <2>1. \A d \in Clients, x \in Blocks, y \in Bufs : Fetched(d, y, x)' => from_remote'[d][y].blk = x
      BY <1>2, <1>3 DEF Custody, CarriedOK, SameClient
    <2> QED
      BY <2>1, <1>4 DEF Custody, CarriedOK, SameFree, OneClient
  <1>10. \A d \in Clients, y \in Bufs, x \in Blocks : Evicting(d, y, x) => Evicting(d, y, x)'
    BY <1>1, <1>3, <1>4 DEF Evicting
  <1>11. EvictOK'
    BY <1>2, <1>4, <1>10 DEF Custody, EvictOK, SameClient, SameLinked, SameRestored
  <1>12. AskedOK'
    BY <1>2, <1>4, <1>10 DEF Custody, AskedOK, SameClient, SameFault, SameLinked
  <1>13. RestoredOK'
    BY <1>4, <1>5, <1>10 DEF Custody, RestoredOK, SameRestored, StillRetired
  <1>14. EvictedOK'
    <2>1. /\ conn'["main"] = conn["main"]
          /\ conn["main"].ctx = "mr" =>
                 conn["main"].cl \in Clients /\ conn["main"].buf \in Bufs /\ conn["main"].blk \in Blocks
      BY <1>2, MainAddresses DEF SameMain
    <2>2. conn["main"].ctx = "mr" =>
              LET m == conn["main"]
              IN  [buf |-> m.buf, blk |-> m.blk] \in mr'[m.cl] /\ from_remote'[m.cl][m.buf].blk # m.blk
      BY <2>1, <1>1, <1>3 DEF Custody, EvictedOK
    <2>3. \A p, m : At("main", p, m)' <=> At("main", p, m)
      BY <2>1 DEF At
    <2> QED
      BY <2>1, <2>2, <2>3, <1>4 DEF Custody, EvictedOK, SameLinked
  <1>15. NoNewLeak
    <2>1. ASSUME NEW d \in Clients, NEW r \in Region, r \in mr'[d], Leaked(d, r)'
          PROVE  r \in mr[d] /\ Leaked(d, r)
      <3>1. r.buf \in Bufs /\ r.blk \in Blocks /\ r = [buf |-> r.buf, blk |-> r.blk]
        BY DEF Region
      <3>2. from_remote'[d][r.buf].blk # r.blk
        BY <2>1 DEF Leaked
      <3>3. ~(d = c /\ r = reg)
        BY <1>3, <3>2
      <3>4. from_remote[d][r.buf].blk # r.blk
        BY <1>1, <1>3, <1>4, <3>1, <3>2
      <3> QED
        BY <2>1, <1>2, <1>3, <3>3, <3>4 DEF Leaked, SameMain
    <2> QED
      BY <2>1 DEF NoNewLeak
  <1>16. LeakOK'
    BY <1>4, <1>5, <1>15, LeakFrame DEF Custody, SameRestored
  <1>17. MessageOK'
    BY <1>0, <1>2, <1>4, MessageKept DEF Custody, Now
  <1>18. Moves
    <2>1. PICK z \in Blocks : z = b
      BY <1>0
    <2>2. Where(z) = {"home"}
      BY <2>1, <1>0, <1>1, <1>2 DEF Where, Custody, CarriedOK, Carries, Fetched
    <2>3. Where(z)' = {"home", c}
      <3>1. \A d \in Clients, y \in Bufs : Fetched(d, y, z)' <=> d = c /\ y = a
        BY <2>1, <1>0, <1>2 DEF SameClient, Custody, CarriedOK, Carries, Fetched
      <3> QED
        BY <2>1, <3>1, <1>1, <1>4 DEF Where
    <2>4. \A y \in Blocks : y # z => SameWhere(y)
      BY <2>1, <1>2, <1>4 DEF SameWhere, SameClient, SameLinked
    <2> QED
      BY <2>2, <2>3, <2>4, MovesBy DEF Leaves
  <1> QED
    BY <1>5, <1>6, <1>7, <1>8, <1>9, <1>11, <1>12, <1>13, <1>14, <1>16, <1>17, <1>18 DEF Custody, Kept

LEMMA OnCompletionPullRetCustody ==
    ASSUME Calm, Inv, Custody, NEW c \in Clients, OnCompletionPullRet(c) PROVE Kept
  <1>1. At(c, "toInit", "PULL_REQUEST_RET") /\ UNCHANGED <<ownerVars, memVars, fault>>
    BY DEF OnCompletionPullRet
  <1>2. CASE \E a \in Bufs : TakeBlock(c, conn[c].blk, a)
                             /\ Send(c, "toAcc", "CLIENT_DONE", conn[c].blk, a)
    BY <1>1, <1>2, TakeCustody
  <1>3. CASE /\ "refuse" \in Ops
             /\ Send(c, "toAcc", "PULL_REQUEST_BUT_NOT_PULL", conn[c].blk, NULL)
             /\ UNCHANGED <<from_remote, mr>>
    <2>0. c \in Initiators /\ c # "main" /\ c # "fault" /\ ConnOK /\ OneClient /\ conn[c].ctx # "mr"
      <3>1. c \in Initiators /\ c # "main" /\ c # "fault" /\ ConnOK /\ OneClient
        BY <1>3, ThreadAssumption DEF Initiators, Inv, Calm
      <3> QED
        BY <3>1 DEF Custody, MessageOK
    <2>1. Now(c, "toAcc", "PULL_REQUEST_BUT_NOT_PULL", conn[c].blk, NULL)
          /\ conn'[c].ctx = conn[c].ctx
      BY <1>3, <2>0, SendIs
    <2>2. SameClient(c)
      <3>1. \A x \in Blocks : Carries(c, x)' <=> Carries(c, x)
        BY <1>1, <2>1 DEF Now, Carries, At
      <3>2. \A x \in Blocks, a \in Bufs :
               /\ ~Fetched(c, a, x)' /\ ~Fetched(c, a, x)
               /\ ~Returned(c, a, x)' /\ ~Returned(c, a, x)
        BY <1>1, <2>1 DEF Now, Fetched, Returned, At
      <3>3. \A x \in Blocks : ~GivesBack(c, x)' /\ ~GivesBack(c, x)
        BY <1>1, <2>1 DEF Now, GivesBack, At
      <3> QED
        BY <3>1, <3>2, <3>3 DEF SameClient
    <2>3. SameClients /\ SameFault /\ SameMain
      BY <2>1, <2>2, OtherClients DEF Now, SameClients
    <2>4. MessageOK'
      BY <1>1, <2>0, <2>1, MessageKept DEF Custody, Now
    <2> QED
      BY <1>1, <1>3, <2>3, <2>4, QuietKeeps, LinksUnchanged, HeldUnchanged, FreeSame
      DEF ownerVars, memVars
  <1> QED
    BY <1>2, <1>3 DEF OnCompletionPullRet, Calm

(***************************************************************************)
(* The owner has the client's word that it has the block: it links a node  *)
(* and releases the pages.  The cursor may point at any other block, which *)
(* is then never offered again, and never harmed.                          *)
(***************************************************************************)
LEMMA OnCompletionClientDoneCustody ==
    ASSUME Calm, Inv, Custody, NEW c \in Clients, OnCompletionClientDone(c) PROVE Kept
  <1>a. /\ c \in Initiators /\ c # "main" /\ c # "fault" /\ ConnOK /\ NodesOK
        /\ NULL \notin Blocks \cup Chunks
    BY ThreadAssumption, NullAssumption DEF Initiators, Inv
  <1>b. PICK b \in Blocks, a \in Bufs : conn[c].blk = b /\ conn[c].buf = a
    BY <1>a DEF OnCompletionClientDone, At, ConnOK, Complete
  <1>0. Carries(c, b) /\ Fetched(c, a, b)
    BY <1>b DEF OnCompletionClientDone, Carries, Fetched
  <1>1. /\ home[b] = "data" /\ ~Free(b) /\ in_tree[b] = NULL /\ file[b] = "none"
        /\ \A d \in Clients : Carries(d, b) => d = c
        /\ from_remote[c][a].blk = b /\ [buf |-> a, blk |-> b] \in mr[c]
    <2>1. home[b] = "data" /\ ~Free(b) /\ (\A d \in Clients : Carries(d, b) => d = c)
          /\ from_remote[c][a].blk = b
      BY <1>a, <1>0 DEF Custody, CarriedOK
    <2> QED
      BY <1>a, <1>0, <2>1 DEF Custody, BlockOK, HeldOK
  <1>2. PICK n \in Chunks : ~in_node[n].alloc /\ LinkNode(n, b, c, a)
    BY <1>b DEF OnCompletionClientDone
  <1>3. /\ home' = [home EXCEPT ![b] = "absent"]
        /\ lru' = [lru EXCEPT ![next_lru_data] = "PULLED_DONE"]
        /\ ClearAndDisconnect(c)
        /\ UNCHANGED <<next_lru_data, file, fault, from_remote, mr>>
    BY <1>b DEF OnCompletionClientDone, Calm, clientVars
  <1>4. /\ OnlyConn(c) /\ conn'[c].phase = "closing" /\ conn'[c].msg = conn[c].msg
        /\ conn'[c].ctx = NULL /\ NoClient(c)'
        /\ (\A d \in Clients : d # c => SameClient(d)) /\ SameFault /\ SameMain
    BY <1>a, <1>0, <1>3, DisconnectIs, OtherClients, OverSays DEF Over
  <1>5. /\ in_tree'[b] = n /\ (\A y \in Blocks : y # b => in_tree'[y] = in_tree[y])
        /\ in_list' = in_list \cup {n} /\ n \notin in_list
        /\ \A m \in Chunks : m # n => in_node'[m] = in_node[m]
        /\ in_node'[n].blk = b /\ in_node'[n].ip = c /\ in_node'[n].raddr = a
        /\ home'[b] = "absent" /\ (\A y \in Blocks : y # b => home'[y] = home[y])
        /\ \A y \in Blocks : Free(y)' => Free(y)
    <2>1. in_node \in [Chunks -> InNode] /\ in_tree \in [Blocks -> Chunks \cup {NULL}]
          /\ home \in [Blocks -> HomeState] /\ lru \in [Blocks -> LruStatus]
      BY DEF Inv, NodesOK, MemoryOK
    <2>2. in_tree'[b] = n /\ (\A y \in Blocks : y # b => in_tree'[y] = in_tree[y])
      BY <1>a, <1>0, <1>1, <1>2, <2>1 DEF LinkNode
    <2>3. in_list' = in_list \cup {n} /\ n \notin in_list
      BY <1>a, <1>0, <1>2 DEF LinkNode, NodesOK, InRemoteIndexSound
    <2>4. (\A m \in Chunks : m # n => in_node'[m] = in_node[m])
          /\ in_node'[n].blk = b /\ in_node'[n].ip = c /\ in_node'[n].raddr = a
      BY <1>2, <2>1 DEF LinkNode
    <2>5. home'[b] = "absent" /\ (\A y \in Blocks : y # b => home'[y] = home[y])
      BY <1>a, <1>0, <1>3, <2>1
    <2>6. \A y \in Blocks : Free(y)' => Free(y)
      BY <1>3, <2>1 DEF Free
    <2> QED
      BY <2>2, <2>3, <2>4, <2>5, <2>6
  <1>6. \A d \in Clients, x \in Bufs, y \in Blocks :
           Linked(d, x, y)' <=> Linked(d, x, y) \/ (d = c /\ x = a /\ y = b)
    <2>1. \A y \in Blocks : in_tree[y] # NULL => in_tree[y] \in Chunks /\ in_tree[y] # n
      BY <1>a, <1>0, <1>5 DEF NodesOK, InRemoteIndexSound
    <2>2. ASSUME NEW d \in Clients, NEW x \in Bufs, NEW y \in Blocks
          PROVE  Linked(d, x, y)' <=> Linked(d, x, y) \/ (d = c /\ x = a /\ y = b)
      <3>1. CASE y = b
        BY <1>a, <1>0, <1>1, <1>5, <3>1 DEF Linked
      <3>2. CASE y # b
        BY <1>5, <2>1, <3>2 DEF Linked
      <3> QED
        BY <3>1, <3>2
    <2> QED
      BY <2>2
  <1>7. /\ \A d \in Clients, y \in Blocks : Carries(d, y)' <=> Carries(d, y) /\ d # c
        /\ \A d \in Clients, y \in Blocks : Carries(d, y)' => y # b
    <2>1. \A d \in Clients, y \in Blocks : Carries(d, y)' <=> Carries(d, y) /\ d # c
      BY <1>4 DEF NoClient, SameClient
    <2> QED
      BY <1>1, <2>1
  <1>8. SameHeld /\ SameRestored /\ UNCHANGED mr /\ (\A x \in Blocks : HandedOver(x) => HandedOver(x)')
    BY <1>3, <1>4, HeldUnchanged, MainFields DEF SameRestored, SameFault
  <1>9. StillRetired
    BY <1>a, <1>0, <1>5, <1>7 DEF StillRetired, Retired
  <1>10. /\ \A d \in Clients, y \in Blocks : GivesBack(d, y)' => GivesBack(d, y)
         /\ \A d \in Clients, x \in Bufs, y \in Blocks :
               (Returned(d, x, y)' <=> Returned(d, x, y)) /\ (Returned(d, x, y) => d # c)
               /\ (Fetched(d, x, y)' => Fetched(d, x, y))
               /\ (Fetched(d, x, y) => Fetched(d, x, y)' \/ (d = c /\ x = a /\ y = b))
    <2>1. \A x \in Bufs, y \in Blocks :
             (Fetched(c, x, y) => x = a /\ y = b) /\ ~Returned(c, x, y)
      BY <1>b, <1>0 DEF Fetched, Returned, At
    <2> QED
      BY <1>4, <2>1 DEF NoClient, SameClient
  <1>11. HeldOK'
    BY <1>6, <1>8, <1>10 DEF Custody, HeldOK, SameHeld, SameRestored
  <1>12. LinkedOK'
    BY <1>1, <1>3, <1>6, <1>8 DEF Custody, LinkedOK, SameHeld
  <1>13. ListOK'
    <2>1. \A m \in in_list : m \in Chunks /\ m # n /\ in_node[m].blk \in Blocks
      BY <1>5 DEF Inv, NodesOK, NodesComplete, InRemoteIndexSound
    <2>2. \A m \in in_list : in_node[m].blk # b
      BY <1>1, <1>a, <1>0, <2>1 DEF Custody, ListOK
    <2> QED
      BY <1>5, <2>1, <2>2 DEF Custody, ListOK
  <1>14. BlockOK'
    <2>1. ~Free(b)' /\ file'[b] = "none" /\ in_tree'[b] # NULL
      BY <1>a, <1>0, <1>1, <1>3, <1>5
    <2> QED
      BY <1>3, <1>5, <2>1 DEF Custody, BlockOK
  <1>15. CarriedOK'
    <2>1. \A d \in Clients, y \in Blocks : Carries(d, y)' => home'[y] = "data" /\ ~Free(y)'
      BY <1>5, <1>7 DEF Custody, CarriedOK
    <2>2. \A d, e \in Clients, y \in Blocks : Carries(d, y)' /\ Carries(e, y)' => e = d
      BY <1>7 DEF Custody, CarriedOK
    <2>3. OneClient => \A d \in Clients, y \in Blocks : ~Carries(d, y)'
      BY <1>7 DEF OneClient
    <2>4. \A d \in Clients, x \in Bufs, y \in Blocks : Fetched(d, x, y)' => from_remote'[d][x].blk = y
      BY <1>3, <1>10 DEF Custody, CarriedOK
    <2> QED
      BY <2>1, <2>2, <2>3, <2>4 DEF CarriedOK, OneClient
  <1>16. EvictOK'
    BY <1>3, <1>6, <1>8, <1>10 DEF Custody, EvictOK, Evicting, SameRestored
  <1>17. AskedOK'
    BY <1>3, <1>4, <1>6, <1>10 DEF Custody, AskedOK, Evicting, SameFault
  <1>18. RestoredOK'
    BY <1>8, <1>9, RestoredFrame DEF Custody, SameRestored
  <1>19. EvictedOK'
    <2>1. /\ conn'["main"] = conn["main"]
          /\ LET m == conn["main"]
             IN  /\ m.ctx = "mr" =>
                        m.cl \in Clients /\ m.buf \in Bufs /\ m.blk \in Blocks
                 /\ At("main", "connect", "EVICTED_REQUEST") => m.cl \in Clients /\ m.buf \in Bufs
      BY <1>4, MainAddresses DEF SameMain
    <2>2. LET m == conn["main"]
          IN  m.ctx = "mr" => ~(m.cl = c /\ m.buf = a /\ m.blk = b)
      BY <1>1 DEF Custody, EvictedOK
    <2>3. LET m == conn["main"]
          IN  m.phase = "toInit" => m.blk # b
      BY <1>1 DEF Custody, EvictedOK, Linked
    <2>4. \A p, m : At("main", p, m)' <=> At("main", p, m)
      BY <2>1 DEF At
    <2>5. \A m \in in_list : m \in Chunks /\ m # n
      BY <1>5 DEF Inv, NodesOK
    <2>6. At("main", "connect", "EVICTED_REQUEST") =>
             LET m == conn["main"]
             IN  m.node \in in_list' /\ in_node'[m.node].ip = m.cl /\ in_node'[m.node].raddr = m.buf
      BY <1>5, <2>5 DEF Custody, EvictedOK
    <2>7. LET m == conn["main"]
          IN  m.ctx = "mr" => (Linked(m.cl, m.buf, m.blk)' <=> Linked(m.cl, m.buf, m.blk))
      BY <1>6, <2>1, <2>2
    <2>8. LET m == conn["main"]
          IN  m.phase = "toInit" => m.node = in_tree'[m.blk] /\ m.ctx = "mr"
                                    /\ Linked(m.cl, m.buf, m.blk)'
      BY <1>5, <2>1, <2>3, <2>7 DEF Custody, EvictedOK
    <2>9. LET m == conn["main"]
          IN  m.ctx = "mr" => /\ m.phase \in {"toInit", "closing"}
                              /\ [buf |-> m.buf, blk |-> m.blk] \in mr'[m.cl]
                              /\ from_remote'[m.cl][m.buf].blk # m.blk
                              /\ m.phase = "closing" => ~Linked(m.cl, m.buf, m.blk)'
      BY <1>3, <2>7 DEF Custody, EvictedOK
    <2> QED
      BY <2>1, <2>4, <2>6, <2>8, <2>9 DEF EvictedOK
  <1>20. LeakOK'
    BY <1>4, <1>8, <1>9, LeakedSame, LeakFrame DEF Custody, SameRestored
  <1>21. MessageOK'
    <2>1. MessageOK /\ conn[c].msg # "PULL_REQUEST_BUT_NOT_PULL"
      BY DEF Custody, OnCompletionClientDone, At
    <2> QED
      BY <1>a, <1>0, <1>3, <1>4, <2>1, NullAssumption, MessageKept
  <1>22. Moves
    <2>1. Where(b) = {"home", c}
      BY <1>0, <1>1 DEF Where, Carries, Fetched
    <2>2. Where(b)' = {c}
      <3>1. ~HandedOver(b)'
        BY <1>1, <1>4, MainFields DEF Custody, EvictedOK, HandedOver, At, Linked
      <3> QED
        BY <3>1, <1>1, <1>3, <1>5, <1>6 DEF Where, Linked
    <2>3. \A y \in Blocks : y # b => SameWhere(y)
      BY <1>3, <1>4, <1>5, <1>6, <1>10, MainFields DEF SameWhere
    <2> QED
      BY <2>1, <2>2, <2>3, MovesBy DEF Leaves
  <1> QED
    BY <1>9, <1>11, <1>12, <1>13, <1>14, <1>15, <1>16, <1>17, <1>18, <1>19, <1>20, <1>21, <1>22
    DEF Custody, Kept

(* The refused block is the cursor's, because nobody else moves the cursor. *)
LEMMA OnCompletionButNotPullCustody ==
    ASSUME Inv, Custody, NEW c \in Clients, OnCompletionButNotPull(c) PROVE Kept
  <1>a. c \in Initiators /\ c # "main" /\ c # "fault" /\ ConnOK /\ OneClient
    <2>1. c \in Initiators /\ c # "main" /\ c # "fault" /\ ConnOK
      BY ThreadAssumption DEF Initiators, Inv
    <2> QED
      BY <2>1 DEF OnCompletionButNotPull, At, Custody, MessageOK
  <1>b. PICK b \in Blocks : conn[c].blk = b
    BY <1>a DEF OnCompletionButNotPull, At, ConnOK, Complete
  <1>1. Carries(c, b) /\ home[b] = "data" /\ next_lru_data = b
    <2>1. Carries(c, b)
      BY <1>b DEF OnCompletionButNotPull, Carries
    <2> QED
      BY <1>a, <2>1 DEF Custody, CarriedOK
  <1>2. /\ lru' = [lru EXCEPT ![b] = "PULLED_WAIT"]
        /\ ClearAndDisconnect(c)
        /\ UNCHANGED <<in_node, in_list, in_tree, home, file, fault, from_remote, mr>>
    BY <1>1 DEF OnCompletionButNotPull, memVars, clientVars
  <1>3. /\ OnlyConn(c) /\ conn'[c].phase = "closing" /\ conn'[c].ctx = NULL /\ NoClient(c)'
        /\ (\A d \in Clients : d # c => SameClient(d)) /\ SameFault /\ SameMain
    BY <1>a, <1>2, DisconnectIs, OtherClients, OverSays DEF Over
  <1>4. SameMoves /\ SameRestored
    <2>1. \A x \in Blocks : ~GivesBack(c, x) /\ \A a \in Bufs : ~Fetched(c, a, x) /\ ~Returned(c, a, x)
      BY DEF OnCompletionButNotPull, GivesBack, Fetched, Returned, At
    <2>2. ASSUME NEW d \in Clients, NEW x \in Blocks
          PROVE  /\ GivesBack(d, x)' <=> GivesBack(d, x)
                 /\ \A a \in Bufs : (Fetched(d, a, x)' <=> Fetched(d, a, x))
                                    /\ (Returned(d, a, x)' <=> Returned(d, a, x))
      <3>1. CASE d = c
        BY <1>3, <2>1, <3>1 DEF NoClient
      <3>2. CASE d # c
        BY <1>3, <3>2 DEF SameClient
      <3> QED
        BY <3>1, <3>2
    <2> QED
      BY <1>3, <2>2 DEF SameMoves, SameRestored, SameFault
  <1>5. /\ \A d \in Clients, y \in Blocks : ~Carries(d, y)'
        /\ \A y \in Blocks : y # b => (Free(y)' <=> Free(y))
    <2>1. \A y \in Blocks : y # b => (Free(y)' <=> Free(y))
      BY <1>2 DEF Free, Inv, MemoryOK
    <2> QED
      BY <1>a, <1>3, <2>1 DEF OneClient, NoClient
  <1>6. StillRetired
    BY <1>1, <1>2, <1>5 DEF StillRetired, Retired
  <1>7. SameLinked /\ SameHeld /\ SameLinks /\ NoNewLeak
        /\ \A x \in Blocks : HandedOver(x)' <=> HandedOver(x)
    BY <1>2, <1>3, LinksUnchanged, LinkedSame, HeldUnchanged, LeakedSame, MainFields
  <1>8. HeldOK' /\ LinkedOK' /\ ListOK' /\ EvictOK'
    BY <1>2, <1>4, <1>7, HeldFrame, LinkedFrame, ListFrame, EvictFrame DEF Custody
  <1>9. BlockOK'
    BY <1>1, <1>2, <1>5 DEF Custody, BlockOK
  <1>10. CarriedOK'
    BY <1>2, <1>4, <1>5 DEF Custody, CarriedOK, SameMoves
  <1>11. AskedOK' /\ RestoredOK' /\ EvictedOK' /\ LeakOK'
    BY <1>2, <1>3, <1>4, <1>6, <1>7, AskedFrame, RestoredFrame, EvictedFrame, LeakFrame
    DEF Custody, SameFault
  <1>12. MessageOK'
    BY <1>a, <1>2, <1>3, NullAssumption, MessageKept DEF Custody
  <1>13. Moves
    BY <1>2, <1>4, <1>7, NothingMoves
  <1> QED
    BY <1>6, <1>8, <1>9, <1>10, <1>11, <1>12, <1>13 DEF Custody, Kept

-----------------------------------------------------------------------------
(* Giving back *)

(* The client asks the owner to take a block: the owner's node leads to its buffer. *)
LEMMA EvictDataCustody ==
    ASSUME Inv, Custody, NEW c \in Clients, EvictData(c) PROVE Kept
  <1>a. c \in Initiators /\ c # "main" /\ c # "fault" /\ ConnOK /\ ClientTypeOK
    BY ThreadAssumption DEF Initiators, Inv
  <1>b. PICK a \in Bufs :
           /\ Live(c, a) /\ from_remote[c][a].status = "EVICT_WAIT"
           /\ from_remote' = [from_remote EXCEPT ![c][a].status = "EVICTING"]
           /\ Request(c, "EVICT_REQUEST", c, from_remote[c][a].blk, NULL, NULL)
    BY DEF EvictData, Held
  <1>c. PICK b \in Blocks : from_remote[c][a].blk = b
    BY <1>a, <1>b, LiveBlock
  <1>1. /\ Now(c, "connect", "EVICT_REQUEST", b, NULL) /\ conn'[c].ctx = NULL
        /\ (\A d \in Clients : d # c => SameClient(d)) /\ SameFault /\ SameMain
        /\ NoClient(c)
        /\ UNCHANGED <<lru, next_lru_data, in_node, in_list, in_tree, home, file, fault, mr>>
    BY <1>a, <1>b, <1>c, RequestIs, OtherClients, SilentBy
    DEF Now, EvictData, ownerVars, memVars
  <1>2. /\ from_remote'[c][a].blk = b /\ from_remote'[c][a].status = "EVICTING"
        /\ \A d \in Clients, x \in Bufs :
              /\ from_remote'[d][x].blk = from_remote[d][x].blk
              /\ from_remote[d][x].status = "EVICTING" => from_remote'[d][x].status = "EVICTING"
    <2>1. from_remote[c][a] \in FromNode
      BY <1>a DEF ClientTypeOK
    <2> QED
      BY <1>a, <1>b, <1>c, <2>1 DEF ClientTypeOK, FromNode
  <1>3. Linked(c, a, b)
    <2>1. Fetched(c, a, b) \/ Linked(c, a, b) \/ Returned(c, a, b) \/ Restored(c, a, b)
      BY <1>c DEF Custody, HeldOK
    <2>2. ~Restored(c, a, b)
      BY <1>b DEF Custody, RestoredOK, Evicting
    <2> QED
      BY <1>1, <2>1, <2>2 DEF NoClient
  <1>4. ~Asked(c, b)
    <2>1. ASSUME Asked(c, b) PROVE FALSE
      <3>1. PICK x \in Bufs : Evicting(c, x, b)
        BY <2>1 DEF Custody, AskedOK
      <3>2. x = a
        BY <1>c, <3>1 DEF Custody, HeldOK, Evicting
      <3> QED
        BY <1>b, <3>1, <3>2 DEF Evicting
    <2> QED
      BY <2>1
  <1>5. /\ \A x \in Blocks : GivesBack(c, x)' <=> x = b
        /\ \A x \in Blocks : ~Carries(c, x)'
        /\ \A x \in Blocks, y \in Bufs : ~Fetched(c, y, x)' /\ ~Returned(c, y, x)'
    BY <1>1 DEF Now, Carries, GivesBack, Fetched, Returned, At
  <1>6. /\ \A d \in Clients, x \in Blocks : GivesBack(d, x)' <=> GivesBack(d, x) \/ (d = c /\ x = b)
        /\ \A d \in Clients, x \in Blocks : Carries(d, x)' <=> Carries(d, x)
        /\ \A d \in Clients, x \in Blocks, y \in Bufs :
              (Fetched(d, y, x)' <=> Fetched(d, y, x)) /\ (Returned(d, y, x)' <=> Returned(d, y, x))
    BY <1>1, <1>5 DEF SameClient, NoClient
  <1>7. SameHeld /\ SameLinks /\ SameLinked /\ SameFree /\ SameRestored /\ NoNewLeak
        /\ (\A x \in Blocks : HandedOver(x)' <=> HandedOver(x))
        /\ \A d \in Clients, y \in Bufs, x \in Blocks : Evicting(d, y, x) => Evicting(d, y, x)'
    <2>1. SameHeld /\ SameLinks /\ SameFree
      BY <1>1, <1>2, LinksUnchanged, FreeSame DEF SameHeld
    <2>2. \A d \in Clients, y \in Bufs, x \in Blocks : Evicting(d, y, x) => Evicting(d, y, x)'
      BY <1>2 DEF Evicting
    <2> QED
      BY <1>1, <2>1, <2>2, LinkedSame, LeakedSame, MainFields DEF SameRestored, SameFault
  <1>8. StillRetired
    BY <1>1, <1>6, <1>7 DEF StillRetired, Retired, SameFree
  <1>9. HeldOK'
    BY <1>1, <1>6, <1>7 DEF Custody, HeldOK, SameHeld, SameLinked, SameRestored
  <1>10. LinkedOK' /\ ListOK' /\ BlockOK'
    BY <1>1, <1>7, LinkedFrame, ListFrame, BlockFrame DEF Custody, SameFree
  <1>11. CarriedOK'
    BY <1>1, <1>6, <1>7 DEF Custody, CarriedOK, SameHeld, SameFree, OneClient
  <1>12. EvictOK'
    <2>1. Evicting(c, a, b)' /\ Linked(c, a, b)'
      BY <1>2, <1>3, <1>7 DEF Evicting, SameLinked
    <2> QED
      BY <1>6, <1>7, <2>1 DEF Custody, EvictOK, SameLinked, SameRestored
  <1>13. AskedOK'
    BY <1>1, <1>4, <1>6, <1>7 DEF Custody, AskedOK, SameFault, SameLinked
  <1>14. RestoredOK' /\ EvictedOK' /\ LeakOK'
    BY <1>1, <1>7, <1>8, RestoredFrame, EvictedFrame, LeakFrame DEF Custody, SameFault
  <1>15. MessageOK'
    BY <1>a, <1>1, NullAssumption, MessageKept DEF Custody, Now
  <1>16. Moves
    BY <1>1, <1>6, <1>7 DEF Moves, SameWhere, SameLinked
  <1> QED
    BY <1>8, <1>9, <1>10, <1>11, <1>12, <1>13, <1>14, <1>15, <1>16 DEF Custody, Kept

(* Taking a block's node out of list and tree, whether it is freed now or later. *)
LEMMA UnlinkIs ==
    ASSUME NodesOK, ListOK, NEW b \in Blocks, in_tree[b] # NULL, Unlink(in_tree[b], b),
           in_node' = [in_node EXCEPT ![in_tree[b]] = FreeNode] \/ MarkEvicted(in_tree[b])
    PROVE  /\ ListOK'
           /\ in_tree'[b] = NULL /\ \A y \in Blocks : y # b => in_tree'[y] = in_tree[y]
           /\ \A d \in Clients, x \in Bufs, y \in Blocks :
                 Linked(d, x, y)' <=> Linked(d, x, y) /\ y # b
  <1> DEFINE n == in_tree[b]
  <1>1. /\ in_tree'[b] = NULL /\ (\A y \in Blocks : y # b => in_tree'[y] = in_tree[y])
        /\ in_list' = in_list \ {n}
    BY DEF Unlink, NodesOK
  <1>2. \A m \in Chunks : m # n => in_node'[m] = in_node[m]
    BY DEF NodesOK, MarkEvicted
  <1>3. \A y \in Blocks : y # b /\ in_tree[y] # NULL => in_tree[y] \in Chunks /\ in_tree[y] # n
    BY DEF NodesOK, InRemoteIndexSound
  <1>4. \A m \in in_list : m \in Chunks /\ in_node[m].blk \in Blocks
    BY DEF NodesOK, NodesComplete, InRemoteIndexSound
  <1>5. ListOK'
    BY <1>1, <1>2, <1>4 DEF ListOK
  <1>6. \A d \in Clients, x \in Bufs, y \in Blocks : Linked(d, x, y)' <=> Linked(d, x, y) /\ y # b
    BY <1>1, <1>2, <1>3 DEF Linked
  <1> QED
    BY <1>1, <1>5, <1>6

(* A block that is in the tree is away, and no message says otherwise. *)
LEMMA AwayIs ==
    ASSUME Custody, NEW b \in Blocks, in_tree[b] # NULL
    PROVE  /\ home[b] = "absent" /\ file[b] = "none" /\ ~Free(b) /\ ~Retired(b)
           /\ \A d \in Clients : ~Carries(d, b) /\ \A x \in Bufs : ~Restored(d, x, b) /\ ~Fetched(d, x, b)
  <1>1. home[b] = "absent" /\ file[b] = "none" /\ ~Free(b)
    BY DEF Custody, BlockOK
  <1>2. ~Retired(b)
    BY <1>1 DEF Retired
  <1>3. \A d \in Clients : ~Carries(d, b)
    BY <1>1 DEF Custody, CarriedOK
  <1>4. \A d \in Clients, x \in Bufs : ~Restored(d, x, b)
    BY <1>2 DEF Custody, RestoredOK
  <1>5. \A d \in Clients, x \in Bufs : ~Fetched(d, x, b)
    BY <1>3 DEF Carries, Fetched
  <1> QED
    BY <1>1, <1>2, <1>3, <1>4, <1>5

(* The owner copies the block home and tells the client so. *)
LEMMA OnConnectionEvictCustody ==
    ASSUME Calm, Inv, Custody, MainAlone, NEW c \in Clients, OnConnectionEvict(c) PROVE Kept
  <1>a. /\ c \in Initiators /\ c # "main" /\ c # "fault" /\ ConnOK /\ NodesOK
        /\ conn[c].ctx # "mr" /\ conn[c].ctx # "app"
        /\ At(c, "connect", "EVICT_REQUEST")
    <2>1. c \in Initiators /\ c # "main" /\ c # "fault" /\ ConnOK /\ NodesOK
          /\ At(c, "connect", "EVICT_REQUEST")
      BY ThreadAssumption DEF Initiators, Inv, OnConnectionEvict
    <2> QED
      BY <2>1, NullAssumption DEF At, ConnOK, Complete
  <1>b. PICK b \in Blocks : conn[c].blk = b
    BY <1>a DEF At, ConnOK, Complete
  <1>c. GivesBack(c, b)
    BY <1>a, <1>b DEF GivesBack
  <1>d. PICK a \in Bufs : Evicting(c, a, b) /\ Linked(c, a, b)
    BY <1>c DEF Custody, EvictOK
  <1>e. /\ in_tree[b] # NULL /\ in_tree[b] \in Chunks
        /\ in_node[in_tree[b]].ip = c /\ in_node[in_tree[b]].raddr = a
        /\ [buf |-> a, blk |-> b] \in mr[c] /\ conn["main"].phase = "idle"
    <2>1. in_tree[b] # NULL /\ in_node[in_tree[b]].ip = c /\ in_node[in_tree[b]].raddr = a
      BY <1>d DEF Linked
    <2>2. [buf |-> a, blk |-> b] \in mr[c]
      BY <1>d DEF Custody, HeldOK, Evicting
    <2>3. conn["main"].phase = "idle"
      BY <1>a DEF MainAlone, NoEvict, At
    <2> QED
      BY <1>a, <2>1, <2>2, <2>3 DEF NodesOK
  <1>1. /\ home[b] = "absent" /\ file[b] = "none" /\ ~Free(b) /\ ~Retired(b)
        /\ \A d \in Clients : ~Carries(d, b) /\ \A x \in Bufs : ~Restored(d, x, b) /\ ~Fetched(d, x, b)
    BY <1>e, AwayIs
  <1>2. /\ Unlink(in_tree[b], b) /\ in_node' = [in_node EXCEPT ![in_tree[b]] = FreeNode]
        /\ home' = [home EXCEPT ![b] = "data"] /\ lru' = [lru EXCEPT ![b] = "PULLED_WAIT"]
        /\ Send(c, "toInit", "EVICT_REQUEST_RET", b, a)
        /\ UNCHANGED <<next_lru_data, file, fault, from_remote, mr>>
    <2>1. BringHome(in_tree[b], b, ReadResult(c, b, a, "junk"))
          /\ Send(c, "toInit", "EVICT_REQUEST_RET", b, a)
          /\ UNCHANGED <<next_lru_data, file, fault, from_remote, mr>>
      BY <1>b, <1>e DEF OnConnectionEvict, Calm, clientVars
    <2>2. ReadResult(c, b, a, "junk") = {"data"}
      BY <1>e DEF ReadResult, Calm
    <2> QED
      BY <2>1, <2>2 DEF BringHome
  <1>3. /\ home'[b] = "data" /\ (\A y \in Blocks : y # b => home'[y] = home[y])
        /\ \A y \in Blocks : y # b => (Free(y)' <=> Free(y))
    BY <1>2 DEF Inv, MemoryOK, Free
  <1>4. /\ ListOK' /\ in_tree'[b] = NULL /\ (\A y \in Blocks : y # b => in_tree'[y] = in_tree[y])
        /\ \A d \in Clients, x \in Bufs, y \in Blocks :
              Linked(d, x, y)' <=> Linked(d, x, y) /\ y # b
    BY <1>a, <1>e, <1>2, UnlinkIs DEF Custody
  <1>5. /\ Now(c, "toInit", "EVICT_REQUEST_RET", b, a) /\ conn'[c].ctx = conn[c].ctx
        /\ (\A d \in Clients : d # c => SameClient(d)) /\ SameFault /\ SameMain
    BY <1>a, <1>2, SendIs, OtherClients DEF Now
  <1>6. /\ \A x \in Blocks, y \in Bufs : /\ Returned(c, y, x)' <=> y = a /\ x = b
                                         /\ ~Returned(c, y, x)
                                         /\ ~Fetched(c, y, x)' /\ ~Fetched(c, y, x)
        /\ \A x \in Blocks : (GivesBack(c, x) <=> x = b) /\ ~GivesBack(c, x)'
        /\ \A x \in Blocks : ~Carries(c, x)' /\ ~Carries(c, x)
    BY <1>a, <1>b, <1>5 DEF Now, Returned, Fetched, GivesBack, Carries, At
  <1>7. /\ \A d \in Clients, x \in Blocks : Carries(d, x)' <=> Carries(d, x)
        /\ \A d \in Clients, x \in Blocks, y \in Bufs :
              /\ Fetched(d, y, x)' <=> Fetched(d, y, x)
              /\ Returned(d, y, x)' <=> Returned(d, y, x) \/ (d = c /\ y = a /\ x = b)
        /\ \A d \in Clients, x \in Blocks : GivesBack(d, x)' <=> GivesBack(d, x) /\ d # c
    BY <1>5, <1>6 DEF SameClient
  <1>8. SameHeld /\ SameRestored /\ NoNewLeak
        /\ \A d \in Clients, y \in Bufs, x \in Blocks : Evicting(d, y, x)' <=> Evicting(d, y, x)
    BY <1>2, <1>5, HeldUnchanged, LeakedSame DEF SameRestored, SameFault, Evicting
  <1>9. StillRetired
    BY <1>1, <1>3, <1>7 DEF StillRetired, Retired
  <1>10. \A d \in Clients, x \in Bufs : Linked(d, x, b) => d = c /\ x = a
    BY <1>e DEF Linked
  <1>11. HeldOK'
    <2>1. \A d \in Clients, x \in Bufs, y \in Blocks :
             Linked(d, x, y) => Linked(d, x, y)' \/ Returned(d, x, y)'
      BY <1>4, <1>7, <1>10
    <2> QED
      BY <1>2, <1>7, <1>8, <2>1 DEF Custody, HeldOK, SameRestored
  <1>12. LinkedOK'
    BY <1>2, <1>4, <1>5, MainFields DEF Custody, LinkedOK
  <1>13. BlockOK'
    BY <1>1, <1>2, <1>3, <1>4 DEF Custody, BlockOK
  <1>14. CarriedOK'
    BY <1>1, <1>2, <1>3, <1>7 DEF Custody, CarriedOK, OneClient
  <1>15. EvictOK'
    <2>1. \A d \in Clients, y \in Blocks : GivesBack(d, y)' =>
             \E x \in Bufs : Evicting(d, x, y)' /\ Linked(d, x, y)'
      BY <1>4, <1>7, <1>8, <1>10 DEF Custody, EvictOK
    <2>2. \A d \in Clients, y \in Blocks, x \in Bufs : Returned(d, x, y)' =>
             Evicting(d, x, y)' /\ ~Restored(d, x, y)' /\ \A z \in Bufs : ~Linked(d, z, y)'
      BY <1>1, <1>4, <1>7, <1>8, <1>d DEF Custody, EvictOK, SameRestored
    <2> QED
      BY <2>1, <2>2 DEF EvictOK
  <1>16. AskedOK'
    <2>1. ASSUME NEW d \in Clients, NEW y \in Blocks, Asked(d, y)
          PROVE  y # b
      <3>1. ~GivesBack(d, y) /\ \E x \in Bufs : Fetched(d, x, y) \/ Linked(d, x, y)
        BY <2>1 DEF Custody, AskedOK
      <3> QED
        BY <3>1, <1>1, <1>10, <1>c
    <2> QED
      BY <1>4, <1>5, <1>7, <1>8, <2>1 DEF Custody, AskedOK, SameFault
  <1>17. RestoredOK' /\ EvictedOK' /\ LeakOK'
    BY <1>5, <1>8, <1>9, <1>e, RestoredFrame, MainIdleKeeps, LeakFrame DEF Custody, SameRestored
  <1>18. MessageOK'
    BY <1>a, <1>2, <1>5, MessageKept DEF Custody, Now
  <1>19. Moves
    <2>1. \A x : ~HandedOver(x) /\ ~HandedOver(x)'
      BY <1>5, <1>e, MainFields DEF HandedOver, At
    <2>2. Where(b) = {c}
      BY <1>1, <1>10, <1>d, <2>1 DEF Where
    <2>3. Where(b)' = {"home"}
      BY <1>1, <1>3, <1>7 DEF Where
    <2>4. \A y \in Blocks : y # b => SameWhere(y)
      BY <1>2, <1>3, <1>4, <1>7, <2>1 DEF SameWhere
    <2> QED
      BY <2>2, <2>3, <2>4, MovesBy DEF Arrives
  <1> QED
    BY <1>4, <1>9, <1>11, <1>12, <1>13, <1>14, <1>15, <1>16, <1>17, <1>18, <1>19 DEF Custody, Kept

(* What a client's book says once a node is taken out of it. *)
LEMMA ReleaseIs ==
    ASSUME ClientTypeOK, NEW c \in Clients, NEW a \in Bufs, ReleaseFrom(c, a)
    PROVE  /\ from_remote'[c][a].blk = NULL
           /\ \A d \in Clients, x \in Bufs : d # c \/ x # a => from_remote'[d][x] = from_remote[d][x]
  BY DEF ClientTypeOK, ReleaseFrom, NoNode

LEMMA ReleasedEvicting ==
    ASSUME NEW c \in Clients, NEW a \in Bufs,
           \A d \in Clients, x \in Bufs : d # c \/ x # a => from_remote'[d][x] = from_remote[d][x]
    PROVE  \A d \in Clients, x \in Bufs, y \in Blocks :
              d # c \/ x # a => (Evicting(d, x, y)' <=> Evicting(d, x, y))
  BY DEF Evicting

(* The client has the owner's word that the block is home. *)
LEMMA OnCompletionEvictRetCustody ==
    ASSUME Inv, Custody, MainAlone, NEW c \in Clients, OnCompletionEvictRet(c) PROVE Kept
  <1>a. /\ c \in Initiators /\ c # "main" /\ c # "fault" /\ ConnOK /\ ClientTypeOK
        /\ conn[c].ctx # "mr" /\ conn[c].ctx # "app"
        /\ At(c, "toInit", "EVICT_REQUEST_RET") /\ NULL \notin Blocks
    <2>1. c \in Initiators /\ c # "main" /\ c # "fault" /\ ConnOK /\ ClientTypeOK
          /\ At(c, "toInit", "EVICT_REQUEST_RET") /\ NULL \notin Blocks
      BY ThreadAssumption, NullAssumption DEF Initiators, Inv, OnCompletionEvictRet
    <2> QED
      BY <2>1, NullAssumption DEF At, ConnOK, Complete
  <1>b. PICK b \in Blocks, a \in Bufs : conn[c].blk = b /\ conn[c].buf = a
    BY <1>a DEF At, ConnOK, Complete
  <1>c. Returned(c, a, b)
    BY <1>a, <1>b DEF Returned
  <1>d. Evicting(c, a, b) /\ ~Restored(c, a, b) /\ \A x \in Bufs : ~Linked(c, x, b)
    BY <1>c DEF Custody, EvictOK
  <1>1. /\ mr' = [mr EXCEPT ![c] = @ \ {[buf |-> a, blk |-> b]}]
        /\ ReleaseFrom(c, a) /\ Disconnect(c) /\ conn["main"].phase = "idle"
        /\ UNCHANGED <<lru, next_lru_data, in_node, in_list, in_tree, home, file, fault>>
    BY <1>a, <1>b, <1>d
    DEF OnCompletionEvictRet, Evicting, Live, ownerVars, memVars, MainAlone, NoEvict, At
  <1>2. /\ OnlyConn(c) /\ conn'[c].phase = "closing" /\ NoClient(c)' /\ conn'[c].ctx = conn[c].ctx
        /\ conn'[c].msg = conn[c].msg
        /\ (\A d \in Clients : d # c => SameClient(d)) /\ SameFault /\ SameMain
    BY <1>a, <1>1, DisconnectIs, OtherClients, OverSays DEF Over
  <1>3. /\ from_remote[c][a].blk = b /\ from_remote'[c][a].blk = NULL
        /\ \A d \in Clients, x \in Bufs : d # c \/ x # a => from_remote'[d][x] = from_remote[d][x]
        /\ \A d \in Clients : d # c => mr'[d] = mr[d]
        /\ mr'[c] = mr[c] \ {[buf |-> a, blk |-> b]}
    BY <1>a, <1>d, <1>1, ReleaseIs DEF ClientTypeOK, Evicting
  <1>4. /\ \A x \in Blocks, y \in Bufs : (Returned(c, y, x) <=> y = a /\ x = b) /\ ~Fetched(c, y, x)
        /\ \A x \in Blocks : ~GivesBack(c, x) /\ ~Carries(c, x)
    BY <1>a, <1>b DEF Returned, Fetched, GivesBack, Carries, At
  <1>5. /\ \A d \in Clients, x \in Blocks : Carries(d, x)' <=> Carries(d, x)
        /\ \A d \in Clients, x \in Blocks : GivesBack(d, x)' <=> GivesBack(d, x)
        /\ \A d \in Clients, x \in Blocks, y \in Bufs :
              /\ Fetched(d, y, x)' <=> Fetched(d, y, x)
              /\ Returned(d, y, x)' <=> Returned(d, y, x) /\ d # c
              /\ Returned(d, y, x) => Returned(d, y, x)' \/ (d = c /\ y = a /\ x = b)
    BY <1>2, <1>4 DEF SameClient, NoClient
  <1>6. /\ SameLinks /\ SameLinked /\ SameFree /\ SameRestored
        /\ \A x \in Blocks : HandedOver(x)' <=> HandedOver(x)
    BY <1>1, <1>2, LinksUnchanged, LinkedSame, FreeSame, MainFields DEF SameRestored, SameFault
  <1>7. StillRetired
    BY <1>1, <1>5, <1>6 DEF StillRetired, Retired, SameFree
  <1>8. /\ \A d \in Clients, x \in Bufs, y \in Blocks :
              d # c \/ x # a => (Evicting(d, x, y)' <=> Evicting(d, x, y))
        /\ \A y \in Blocks : Evicting(c, a, y) => y = b
    BY <1>3, ReleasedEvicting DEF Evicting
  <1>9. HeldOK'
    <2>1. ASSUME NEW d \in Clients, NEW x \in Bufs, NEW y \in Blocks, from_remote'[d][x].blk = y
          PROVE  /\ [buf |-> x, blk |-> y] \in mr'[d]
                 /\ Fetched(d, x, y)' \/ Linked(d, x, y)' \/ Returned(d, x, y)' \/ Restored(d, x, y)'
                 /\ \A z \in Bufs : from_remote'[d][z].blk = y => z = x
      <3>1. (d # c \/ x # a) /\ from_remote[d][x].blk = y
        BY <1>a, <1>3, <2>1
      <3>2. /\ [buf |-> x, blk |-> y] \in mr[d]
            /\ Fetched(d, x, y) \/ Linked(d, x, y) \/ Returned(d, x, y) \/ Restored(d, x, y)
            /\ \A z \in Bufs : from_remote[d][z].blk = y => z = x
        BY <3>1 DEF Custody, HeldOK
      <3>3. [buf |-> x, blk |-> y] \in mr'[d]
        BY <3>1, <3>2, <1>3
      <3>4. Fetched(d, x, y)' \/ Linked(d, x, y)' \/ Returned(d, x, y)' \/ Restored(d, x, y)'
        BY <3>1, <3>2, <1>5, <1>6 DEF SameLinked, SameRestored
      <3> QED
        BY <3>2, <3>3, <3>4, <1>a, <1>3
    <2> QED
      BY <2>1 DEF HeldOK
  <1>10. LinkedOK'
    <2>1. ASSUME NEW y \in Blocks, NEW d \in Clients, NEW x \in Bufs, Linked(d, x, y)'
          PROVE  /\ [buf |-> x, blk |-> y] \in mr'[d]
                 /\ from_remote'[d][x].blk = y \/ HandedOver(y)'
      <3>1. Linked(d, x, y) /\ (d = c => y # b)
        BY <2>1, <1>6, <1>d DEF SameLinked
      <3>2. [buf |-> x, blk |-> y] \in mr[d] /\ (from_remote[d][x].blk = y \/ HandedOver(y))
        BY <3>1 DEF Custody, LinkedOK
      <3> QED
        BY <3>1, <3>2, <1>3, <1>6
    <2> QED
      BY <2>1 DEF LinkedOK
  <1>11. ListOK' /\ BlockOK'
    BY <1>1, <1>6, ListFrame, BlockFrame DEF Custody, SameFree
  <1>12. CarriedOK'
    <2>1. \A d \in Clients, x \in Bufs, y \in Blocks : Fetched(d, x, y)' => from_remote'[d][x].blk = y
      BY <1>3, <1>4, <1>5 DEF Custody, CarriedOK
    <2> QED
      BY <1>1, <1>5, <1>6, <2>1 DEF Custody, CarriedOK, SameFree, OneClient
  <1>13. EvictOK'
    <2>1. \A d \in Clients, y \in Blocks : GivesBack(d, y)' =>
             \E x \in Bufs : Evicting(d, x, y)' /\ Linked(d, x, y)'
      BY <1>4, <1>5, <1>6, <1>8 DEF Custody, EvictOK, SameLinked
    <2>2. \A d \in Clients, y \in Blocks, x \in Bufs : Returned(d, x, y)' =>
             Evicting(d, x, y)' /\ ~Restored(d, x, y)' /\ \A z \in Bufs : ~Linked(d, z, y)'
      BY <1>5, <1>6, <1>8 DEF Custody, EvictOK, SameRestored, SameLinked
    <2> QED
      BY <2>1, <2>2 DEF EvictOK
  <1>14. AskedOK'
    <2>1. ASSUME NEW d \in Clients, NEW y \in Blocks, Asked(d, y)
          PROVE  ~GivesBack(d, y)' /\ \E x \in Bufs : Evicting(d, x, y)' /\ (Fetched(d, x, y)' \/ Linked(d, x, y)')
      <3>1. ~GivesBack(d, y)
        BY <2>1 DEF Custody, AskedOK
      <3>2. PICK x \in Bufs : Evicting(d, x, y) /\ (Fetched(d, x, y) \/ Linked(d, x, y))
        BY <2>1 DEF Custody, AskedOK
      <3>3. d # c \/ x # a
        BY <3>2, <1>4, <1>8, <1>d
      <3>4. Evicting(d, x, y)' /\ (Fetched(d, x, y)' \/ Linked(d, x, y)')
        BY <3>2, <3>3, <1>5, <1>6, <1>8 DEF SameLinked
      <3> QED
        BY <3>1, <3>4, <1>5
    <2> QED
      BY <1>2, <2>1 DEF AskedOK, SameFault
  <1>15. RestoredOK'
    <2>1. ASSUME NEW d \in Clients, NEW x \in Bufs, NEW y \in Blocks, Restored(d, x, y)'
          PROVE  Evicting(d, x, y)' /\ Retired(y)'
      <3>1. Restored(d, x, y) /\ Evicting(d, x, y) /\ Retired(y)
        BY <2>1, <1>6 DEF SameRestored, Custody, RestoredOK
      <3>2. d # c \/ x # a
        BY <3>1, <1>8, <1>d
      <3> QED
        BY <3>1, <3>2, <1>7, <1>8 DEF StillRetired
    <2> QED
      BY <2>1 DEF RestoredOK
  <1>16. NoNewLeak
    <2>1. ASSUME NEW d \in Clients, NEW r \in Region, r \in mr'[d], Leaked(d, r)'
          PROVE  r \in mr[d] /\ Leaked(d, r)
      <3>1. r.buf \in Bufs /\ r.blk \in Blocks /\ r = [buf |-> r.buf, blk |-> r.blk]
        BY DEF Region
      <3>2. from_remote'[d][r.buf].blk # r.blk /\ r \in mr[d]
        BY <2>1, <1>3 DEF Leaked
      <3>3. from_remote[d][r.buf].blk # r.blk
        BY <2>1, <1>3, <3>1, <3>2
      <3> QED
        BY <2>1, <1>2, <3>2, <3>3 DEF Leaked, SameMain
    <2> QED
      BY <2>1 DEF NoNewLeak
  <1>17. EvictedOK' /\ LeakOK'
    BY <1>1, <1>2, <1>6, <1>7, <1>16, MainIdleKeeps, LeakFrame DEF Custody, SameRestored
  <1>18. MessageOK'
    <2>1. conn[c].msg # "PULL_REQUEST_BUT_NOT_PULL"
      BY <1>a DEF At
    <2> QED
      BY <1>a, <1>1, <1>2, <2>1, MessageKept DEF Custody
  <1>19. Moves
    BY <1>1, <1>5, <1>6 DEF Moves, SameWhere, SameLinked
  <1> QED
    BY <1>7, <1>9, <1>10, <1>11, <1>12, <1>13, <1>14, <1>15, <1>17, <1>18, <1>19 DEF Custody, Kept

-----------------------------------------------------------------------------
(* Taking back: nothing else is on its way home *)

LEMMA NothingElse ==
    ASSUME Custody, MainAlone, conn["main"].phase # "idle"
    PROVE  /\ NoFaultMsg
           /\ \A c \in Clients, b \in Blocks : ~GivesBack(c, b) /\ \A a \in Bufs : ~Returned(c, a, b)
  <1>1. fault.pc = "idle" /\ NoEvict
    BY DEF MainAlone
  <1>2. conn["fault"].phase = "idle"
    BY <1>1 DEF Custody, MessageOK
  <1> QED
    BY <1>1, <1>2 DEF NoEvict, NoFaultMsg, GivesBack, Returned, Asked, Restored, At

(* A step of the main thread, seen from everybody else. *)
LEMMA MainStep ==
    ASSUME OnlyConn("main") PROVE SameClients /\ SameFault /\ SameMoves /\ SameRestored
  BY MainOnly, SaysTheSame DEF SameClients

LEMMA EvictedDataCustody == ASSUME Inv, Custody, EvictedData PROVE Kept
  <1>a. "main" \in Initiators /\ "main" # "fault" /\ ConnOK /\ NodesOK /\ conn["main"].phase = "idle"
    BY DEF Initiators, Inv, EvictedData, MainIdle
  <1>b. PICK n \in in_list :
           /\ in_node' = [in_node EXCEPT ![n].status = "EVICTING"]
           /\ Request("main", "EVICTED_REQUEST", in_node[n].ip, NULL, in_node[n].raddr, n)
    BY DEF EvictedData
  <1>1. /\ Now("main", "connect", "EVICTED_REQUEST", NULL, in_node[n].raddr)
        /\ conn'["main"].cl = in_node[n].ip /\ conn'["main"].node = n /\ conn'["main"].ctx = NULL
        /\ UNCHANGED <<lru, next_lru_data, in_list, in_tree, home, file, fault, from_remote, mr>>
    BY <1>a, <1>b, RequestIs DEF EvictedData, memVars, clientVars
  <1>2. SameClients /\ SameFault /\ SameMoves /\ SameRestored
    BY <1>1, MainStep DEF Now
  <1>3. SameLinks
    BY <1>a, <1>b, <1>1 DEF SameLinks, NodesOK, InNode
  <1>4. SameHeld /\ SameFree /\ SameLinked /\ StillRetired
    BY <1>1, <1>2, <1>3, HeldUnchanged, FreeSame, LinkedSame, RetiredFrame
  <1>5. conn["main"].ctx # "mr" /\ \A b : ~HandedOver(b)
    BY <1>a, EvictedIdle DEF Custody
  <1>6. NoNewLeak
    BY <1>1, <1>5 DEF NoNewLeak, Leaked
  <1>7. HeldOK' /\ LinkedOK' /\ ListOK' /\ EvictOK'
    BY <1>1, <1>2, <1>3, <1>4, <1>5, HeldFrame, LinkedFrame, ListFrame, EvictFrame DEF Custody
  <1>8. BlockOK' /\ CarriedOK'
    BY <1>1, <1>2, <1>4, BlockFrame, CarriedFrame DEF Custody, SameFree
  <1>9. AskedOK' /\ RestoredOK' /\ LeakOK'
    BY <1>2, <1>4, <1>6, AskedFrame, RestoredFrame, LeakFrame DEF Custody, SameFault
  <1>10. EvictedOK'
    <2>1. n \in in_list' /\ in_node'[n].ip = in_node[n].ip /\ in_node'[n].raddr = in_node[n].raddr
      BY <1>3 DEF SameLinks
    <2> QED
      BY <1>1, <2>1, NullAssumption DEF EvictedOK, Now, At
  <1>11. MessageOK'
    BY <1>a, <1>1, NullAssumption, MessageKept DEF Custody, Now
  <1>12. Moves
    BY <1>1, <1>2, <1>4, <1>5, NothingMoves DEF Now, HandedOver, At
  <1> QED
    BY <1>4, <1>7, <1>8, <1>9, <1>10, <1>11, <1>12 DEF Custody, Kept

(* The client finds the block it was asked for, hands it over and forgets it. *)
LEMMA OnConnectionEvictedCustody ==
    ASSUME Inv, Custody, MainAlone, OnConnectionEvicted PROVE Kept
  <1>a. /\ "main" \in Initiators /\ "main" # "fault" /\ ConnOK /\ NodesOK /\ ClientTypeOK
        /\ At("main", "connect", "EVICTED_REQUEST") /\ NULL \notin Blocks
    BY NullAssumption DEF Initiators, Inv, OnConnectionEvicted
  <1>b. PICK c \in Clients, a \in Bufs : conn["main"].cl = c /\ conn["main"].buf = a
    BY <1>a, MainAddresses
  <1>c. PICK n \in in_list : conn["main"].node = n /\ in_node[n].ip = c /\ in_node[n].raddr = a
    BY <1>a, <1>b DEF Custody, EvictedOK
  <1>d. PICK b \in Blocks : in_node[n].blk = b
    BY <1>a DEF NodesOK, NodesComplete, InRemoteIndexSound
  <1>e. conn["main"].ctx # "mr" /\ \A x : ~HandedOver(x)
    BY <1>a, EvictedIdle DEF Custody, At
  <1>f. Linked(c, a, b) /\ in_tree[b] = n /\ in_tree[b] # NULL
    BY <1>a, <1>c, <1>d, NullAssumption DEF Custody, ListOK, Linked, NodesOK
  <1>g. from_remote[c][a].blk = b /\ [buf |-> a, blk |-> b] \in mr[c]
    BY <1>e, <1>f DEF Custody, LinkedOK
  <1>1. /\ ReleaseFrom(c, a)
        /\ SendHolding("main", "toInit", "EVICTED_REQUEST_RET", b, a, "mr")
        /\ UNCHANGED <<lru, next_lru_data, in_node, in_list, in_tree, home, file, fault, mr>>
    BY <1>a, <1>b, <1>g DEF OnConnectionEvicted, Live, ownerVars, memVars
  <1>2. /\ Now("main", "toInit", "EVICTED_REQUEST_RET", b, a) /\ conn'["main"].cl = c
        /\ conn'["main"].node = n /\ conn'["main"].ctx = "mr"
    BY <1>a, <1>b, <1>c, <1>1, SendHoldingIs
  <1>3. SameClients /\ SameFault /\ SameMoves /\ SameRestored
    BY <1>2, MainStep DEF Now
  <1>4. /\ from_remote'[c][a].blk = NULL
        /\ \A d \in Clients, x \in Bufs : d # c \/ x # a => from_remote'[d][x] = from_remote[d][x]
    BY <1>a, <1>1, ReleaseIs
  <1>5. SameLinks /\ SameFree /\ SameLinked /\ StillRetired
    BY <1>1, <1>3, LinksUnchanged, FreeSame, LinkedSame, RetiredFrame
  <1>6. NoFaultMsg /\ \A d \in Clients, y \in Blocks : ~GivesBack(d, y) /\ \A x \in Bufs : ~Returned(d, x, y)
    BY <1>a, NothingElse DEF At
  <1>7. HandedOver(b)'
    BY <1>2 DEF Now, HandedOver, At
  <1>8. HeldOK'
    <2>1. \A d \in Clients, x \in Bufs : from_remote'[d][x].blk \in Blocks =>
             (d # c \/ x # a) /\ from_remote[d][x].blk = from_remote'[d][x].blk
      BY <1>a, <1>4
    <2>2. \A d \in Clients, x \in Bufs, y \in Blocks : from_remote'[d][x].blk = y => from_remote[d][x].blk = y
      BY <2>1
    <2> QED
      BY <1>1, <1>3, <1>5, <2>2 DEF Custody, HeldOK, SameMoves, SameRestored, SameLinked
  <1>9. LinkedOK'
    <2>1. ASSUME NEW y \in Blocks, NEW d \in Clients, NEW x \in Bufs, Linked(d, x, y)'
          PROVE  /\ [buf |-> x, blk |-> y] \in mr'[d]
                 /\ from_remote'[d][x].blk = y \/ HandedOver(y)'
      <3>1. Linked(d, x, y)
        BY <2>1, <1>5 DEF SameLinked
      <3>2. [buf |-> x, blk |-> y] \in mr[d] /\ from_remote[d][x].blk = y
        BY <3>1, <1>e DEF Custody, LinkedOK
      <3>3. CASE d = c /\ x = a
        BY <3>2, <3>3, <1>1, <1>7, <1>g
      <3>4. CASE d # c \/ x # a
        BY <3>2, <3>4, <1>1, <1>4
      <3> QED
        BY <3>3, <3>4
    <2> QED
      BY <2>1 DEF LinkedOK
  <1>10. ListOK' /\ BlockOK'
    BY <1>1, <1>5, ListFrame, BlockFrame DEF Custody, SameFree
  <1>11. CarriedOK'
    <2>1. \A d \in Clients : ~Carries(d, b) /\ \A x \in Bufs : ~Fetched(d, x, b)
      BY <1>f, AwayIs
    <2>2. ASSUME NEW d \in Clients, NEW x \in Bufs, NEW y \in Blocks, Fetched(d, x, y)'
          PROVE  from_remote'[d][x].blk = y
      <3>1. Fetched(d, x, y) /\ from_remote[d][x].blk = y
        BY <2>2, <1>3 DEF SameMoves, Custody, CarriedOK
      <3>2. d # c \/ x # a
        BY <3>1, <2>1, <1>g
      <3> QED
        BY <3>1, <3>2, <1>4
    <2> QED
      BY <2>2, <1>1, <1>3, <1>5 DEF Custody, CarriedOK, SameClients, SameClient, SameFree, OneClient
  <1>12. EvictOK'
    BY <1>3, <1>6 DEF EvictOK, SameMoves
  <1>13. AskedOK' /\ RestoredOK'
    BY <1>3, <1>6 DEF AskedOK, RestoredOK, SameFault, NoFaultMsg
  <1>14. EvictedOK'
    <2>1. Linked(c, a, b)'
      BY <1>5, <1>f DEF SameLinked
    <2> QED
      BY <1>1, <1>2, <1>4, <1>a, <1>f, <1>g, <2>1 DEF EvictedOK, Now, At
  <1>15. NoNewLeak
    <2>1. ASSUME NEW d \in Clients, NEW r \in Region, r \in mr'[d], Leaked(d, r)'
          PROVE  r \in mr[d] /\ Leaked(d, r)
      <3>1. r.buf \in Bufs /\ r.blk \in Blocks
        BY DEF Region
      <3>2. from_remote'[d][r.buf].blk # r.blk /\ ~(d = c /\ r.buf = a /\ r.blk = b)
        BY <2>1, <1>2 DEF Leaked, Now
      <3>3. from_remote[d][r.buf].blk # r.blk
        BY <3>1, <3>2, <1>4, <1>g
      <3> QED
        BY <2>1, <3>3, <1>1, <1>e DEF Leaked
    <2> QED
      BY <2>1 DEF NoNewLeak
  <1>16. LeakOK'
    BY <1>3, <1>5, <1>15, LeakFrame DEF Custody, SameRestored
  <1>17. MessageOK'
    BY <1>a, <1>1, <1>2, MessageKept DEF Custody, Now
  <1>18. Moves
    <2>1. home[b] = "absent" /\ file[b] = "none"
      BY <1>f, AwayIs
    <2>2. Where(b) = {c}
      BY <1>e, <1>f, <2>1 DEF Where, Linked
    <2>3. Where(b)' = {"way"}
      BY <1>1, <1>7, <2>1 DEF Where
    <2>4. \A y \in Blocks : y # b => SameWhere(y)
      BY <1>1, <1>2, <1>3, <1>5, <1>e DEF SameWhere, SameMoves, SameLinked, HandedOver, Now
    <2> QED
      BY <2>2, <2>3, <2>4, MovesBy DEF Leaves
  <1> QED
    BY <1>5, <1>8, <1>9, <1>10, <1>11, <1>12, <1>13, <1>14, <1>16, <1>17, <1>18 DEF Custody, Kept

(* The node found by the block's address is the node that was asked for. *)
LEMMA OnCompletionEvictedRetCustody ==
    ASSUME Inv, Custody, MainAlone, OnCompletionEvictedRet PROVE Kept
  <1>a. /\ "main" \in Initiators /\ "main" # "fault" /\ ConnOK /\ NodesOK
        /\ At("main", "toInit", "EVICTED_REQUEST_RET") /\ conn["main"].ctx = "mr"
    BY DEF Initiators, Inv, OnCompletionEvictedRet, At, Custody, EvictedOK
  <1>b. PICK c \in Clients, a \in Bufs, b \in Blocks :
           conn["main"].cl = c /\ conn["main"].buf = a /\ conn["main"].blk = b
    BY <1>a, MainAddresses
  <1>c. /\ Linked(c, a, b) /\ in_tree[b] = conn["main"].node /\ in_tree[b] # NULL
        /\ in_tree[b] \in Chunks
        /\ from_remote[c][a].blk # b /\ [buf |-> a, blk |-> b] \in mr[c]
    <2>1. Linked(c, a, b) /\ in_tree[b] = conn["main"].node
          /\ from_remote[c][a].blk # b /\ [buf |-> a, blk |-> b] \in mr[c]
      BY <1>a, <1>b DEF Custody, EvictedOK, At
    <2> QED
      BY <1>a, <2>1 DEF Linked, NodesOK
  <1>1. /\ home[b] = "absent" /\ file[b] = "none" /\ ~Free(b) /\ ~Retired(b)
        /\ \A d \in Clients : ~Carries(d, b) /\ \A x \in Bufs : ~Restored(d, x, b) /\ ~Fetched(d, x, b)
    BY <1>c, AwayIs
  <1>2. /\ Unlink(in_tree[b], b) /\ in_node' = [in_node EXCEPT ![in_tree[b]] = FreeNode]
        /\ home' = [home EXCEPT ![b] = "data"] /\ lru' = [lru EXCEPT ![b] = "PULLED_WAIT"]
        /\ Disconnect("main")
        /\ UNCHANGED <<next_lru_data, file, fault, from_remote, mr>>
    BY <1>b, <1>c DEF OnCompletionEvictedRet, BringHome, clientVars
  <1>3. /\ home'[b] = "data" /\ (\A y \in Blocks : y # b => home'[y] = home[y])
        /\ \A y \in Blocks : y # b => (Free(y)' <=> Free(y))
    BY <1>2 DEF Inv, MemoryOK, Free
  <1>4. /\ ListOK' /\ in_tree'[b] = NULL /\ (\A y \in Blocks : y # b => in_tree'[y] = in_tree[y])
        /\ \A d \in Clients, x \in Bufs, y \in Blocks :
              Linked(d, x, y)' <=> Linked(d, x, y) /\ y # b
    BY <1>a, <1>c, <1>2, UnlinkIs DEF Custody
  <1>5. /\ OnlyConn("main") /\ conn'["main"].phase = "closing" /\ conn'["main"].msg = conn["main"].msg
        /\ conn'["main"].cl = c /\ conn'["main"].buf = a /\ conn'["main"].blk = b
        /\ conn'["main"].ctx = "mr"
    BY <1>a, <1>b, <1>2, DisconnectIs DEF Over
  <1>6. SameClients /\ SameFault /\ SameMoves /\ SameRestored
    BY <1>5, MainStep
  <1>7. NoFaultMsg /\ \A d \in Clients, y \in Blocks : ~GivesBack(d, y) /\ \A x \in Bufs : ~Returned(d, x, y)
    BY <1>a, NothingElse DEF At
  <1>8. SameHeld /\ NoNewLeak
    <2>1. SameHeld
      BY <1>2, HeldUnchanged
    <2> QED
      BY <1>2, <1>5, <1>a, <1>b, <2>1 DEF NoNewLeak, Leaked
  <1>9. StillRetired
    BY <1>1, <1>3, <1>6 DEF StillRetired, Retired, SameClients, SameClient
  <1>10. \A d \in Clients, x \in Bufs : Linked(d, x, b) => d = c /\ x = a
    BY <1>c DEF Linked
  <1>11. HeldOK'
    <2>1. \A d \in Clients, x \in Bufs, y \in Blocks :
             from_remote[d][x].blk = y /\ Linked(d, x, y) => Linked(d, x, y)'
      BY <1>4, <1>10, <1>c
    <2> QED
      BY <1>2, <1>6, <2>1 DEF Custody, HeldOK, SameMoves, SameRestored
  <1>12. LinkedOK'
    <2>1. \A y \in Blocks : y # b => ~HandedOver(y)
      BY <1>b DEF HandedOver
    <2> QED
      BY <1>2, <1>4, <2>1 DEF Custody, LinkedOK
  <1>13. BlockOK'
    BY <1>1, <1>2, <1>3, <1>4 DEF Custody, BlockOK
  <1>14. CarriedOK'
    BY <1>1, <1>2, <1>3, <1>6 DEF Custody, CarriedOK, SameClients, SameClient, OneClient
  <1>15. EvictOK' /\ AskedOK' /\ RestoredOK'
    BY <1>6, <1>7 DEF EvictOK, AskedOK, RestoredOK, SameMoves, SameFault, NoFaultMsg
  <1>16. EvictedOK'
    BY <1>2, <1>4, <1>5, <1>c DEF EvictedOK, At
  <1>17. LeakOK'
    BY <1>6, <1>8, <1>9, LeakFrame DEF Custody, SameRestored
  <1>18. MessageOK'
    BY <1>a, <1>2, <1>5, MessageKept DEF Custody, At
  <1>19. Moves
    <2>1. HandedOver(b)
      BY <1>a, <1>b DEF HandedOver
    <2>2. Where(b) = {"way"}
      BY <1>1, <2>1 DEF Where
    <2>3. Where(b)' = {"home"}
      BY <1>1, <1>3, <1>6 DEF Where, SameMoves
    <2>4. \A y \in Blocks : y # b => SameWhere(y)
      BY <1>2, <1>3, <1>4, <1>5, <1>6, <1>b DEF SameWhere, SameMoves, HandedOver
    <2> QED
      BY <2>2, <2>3, <2>4, MovesBy DEF Arrives
  <1> QED
    BY <1>4, <1>9, <1>11, <1>12, <1>13, <1>14, <1>15, <1>16, <1>17, <1>18, <1>19 DEF Custody, Kept

-----------------------------------------------------------------------------
(* Page faults *)

(* A step on the fault thread's connection, seen from everybody else. *)
LEMMA FaultStep ==
    ASSUME OnlyConn("fault")
    PROVE  SameClients /\ SameMain /\ SameMoves /\ \A b \in Blocks : HandedOver(b)' <=> HandedOver(b)
  BY FaultOnly, MainFields DEF SameClients, SameClient, SameMoves

LEMMA FaultSilent ==
    conn["fault"].phase \in {"idle", "connect", "closing", "hung"} => NoFaultMsg
  BY DEF NoFaultMsg, Asked, Restored, At

LEMMA NoFaultSame == NoFaultMsg /\ NoFaultMsg' => SameFault
  BY DEF NoFaultMsg, SameFault

(* pagefault_evicted_data changes the status of nodes, and asks for the block once. *)
LEMMA PagefaultEvictedDataIs ==
    ASSUME Inv, NEW nodes \in [Chunks -> InNode], NEW b \in Blocks, PagefaultEvictedData(nodes, b),
           UNCHANGED <<in_list, in_tree>>, conn["fault"].phase = "idle",
           \A n \in Chunks : nodes[n].blk = in_node[n].blk /\ nodes[n].ip = in_node[n].ip
                             /\ nodes[n].raddr = in_node[n].raddr
    PROVE  /\ SameLinks /\ OnlyConn("fault") /\ NoFaultMsg /\ NoFaultMsg'
           /\ conn'["fault"].ctx \in {NULL, conn["fault"].ctx}
           /\ conn'["fault"].phase # "closing"
           /\ conn'["fault"].msg \in {"PAGEFAULT_EVICTED_REQUEST", conn["fault"].msg}
  <1>1. "fault" \in Initiators /\ ConnOK /\ NodesOK
    BY DEF Inv, Initiators
  <1>2. NoFaultMsg
    BY FaultSilent
  <1> DEFINE m == in_tree[b]
  <1>3. CASE m # NULL /\ nodes[m].status = "EVICT_WAIT"
    <2>1. /\ in_node' = [nodes EXCEPT ![m].status = "EVICTING"]
          /\ Request("fault", "PAGEFAULT_EVICTED_REQUEST", nodes[m].ip, NULL, nodes[m].raddr, NULL)
      BY <1>3 DEF PagefaultEvictedData
    <2>2. /\ Now("fault", "connect", "PAGEFAULT_EVICTED_REQUEST", NULL, nodes[m].raddr)
          /\ conn'["fault"].ctx = NULL
      BY <1>1, <2>1, RequestIs
    <2>3. \A n \in Chunks : /\ in_node'[n].blk = nodes[n].blk /\ in_node'[n].ip = nodes[n].ip
                            /\ in_node'[n].raddr = nodes[n].raddr
      BY <1>1, <1>3, <2>1 DEF NodesOK, InNode
    <2>4. SameLinks
      BY <1>1, <2>3 DEF SameLinks, NodesOK
    <2>5. NoFaultMsg'
      BY <2>2 DEF NoFaultMsg, Asked, Restored, Now, At
    <2> QED
      BY <1>2, <2>2, <2>4, <2>5 DEF Now
  <1>4. CASE ~(m # NULL /\ nodes[m].status = "EVICT_WAIT")
    <2>1. in_node' = nodes /\ UNCHANGED conn
      BY <1>4 DEF PagefaultEvictedData
    <2>2. SameLinks
      BY <1>1, <2>1 DEF SameLinks, NodesOK
    <2>3. NoFaultMsg'
      BY <1>2, <2>1 DEF NoFaultMsg, Asked, Restored, At
    <2> QED
      BY <1>2, <2>1, <2>2, <2>3 DEF OnlyConn
  <1> QED
    BY <1>3, <1>4

(* The search of the list, and every retry. *)
LEMMA FaultAsksCustody ==
    ASSUME Inv, Custody, FaultSearchRemote \/ FaultRetry PROVE Kept
  <1>1. "fault" \in Initiators /\ "fault" # "main" /\ ConnOK /\ NodesOK /\ FaultOK
    BY DEF Inv, Initiators
  <1>2. /\ SameLinks /\ OnlyConn("fault") /\ NoFaultMsg /\ NoFaultMsg'
        /\ conn'["fault"].ctx \in {NULL, conn["fault"].ctx}
        /\ conn'["fault"].phase # "closing"
        /\ conn'["fault"].msg \in {"PAGEFAULT_EVICTED_REQUEST", conn["fault"].msg}
        /\ UNCHANGED <<lru, next_lru_data, home, file, from_remote, mr>> /\ fault'.pc = "poll"
    <2>1. CASE FaultSearchRemote
      <3>1. /\ PagefaultEvictedData(in_node, fault.blk) /\ fault'.pc = "poll"
            /\ UNCHANGED <<lru, next_lru_data, in_list, in_tree, home, file, from_remote, mr>>
            /\ fault.blk \in Blocks /\ conn["fault"].phase = "idle" /\ in_node \in [Chunks -> InNode]
        BY <1>1, <2>1 DEF FaultSearchRemote, memVars, clientVars, FaultOK, FaultComplete, Fault,
           Custody, MessageOK, NodesOK
      <3> QED
        BY <3>1, PagefaultEvictedDataIs
    <2>2. CASE FaultRetry
      <3> DEFINE nodes == [in_node EXCEPT ![fault.curr].status = "EVICT_WAIT"]
      <3>1. fault.curr \in Chunks /\ fault'.pc = "poll" /\ conn["fault"].phase = "idle"
            /\ UNCHANGED <<lru, next_lru_data, in_list, in_tree, home, file, from_remote, mr>>
            /\ in_node[fault.curr].blk \in Blocks
            /\ PagefaultEvictedData(nodes, in_node[fault.curr].blk)
        BY <1>1, <2>2 DEF FaultRetry, memVars, clientVars, FaultOK, FaultComplete, NodesOK, NodesComplete
      <3>2. nodes \in [Chunks -> InNode] /\ \A n \in Chunks :
               nodes[n].blk = in_node[n].blk /\ nodes[n].ip = in_node[n].ip
               /\ nodes[n].raddr = in_node[n].raddr
        BY <1>1, <3>1 DEF NodesOK, InNode, NodeStatus
      <3> HIDE DEF nodes
      <3> QED
        BY <3>1, <3>2, PagefaultEvictedDataIs
    <2> QED
      BY <2>1, <2>2
  <1>3. SameClients /\ SameMain /\ SameFault
    BY <1>2, FaultStep, NoFaultSame
  <1>4. MessageOK'
    BY <1>1, <1>2, NullAssumption, MessageKept DEF Custody, MessageOK
  <1> QED
    BY <1>2, <1>3, <1>4, QuietKeeps, HeldUnchanged, FreeSame

(* The block is on disk whenever it is away and no node knows it. *)
LEMMA FaultSearchDiskCustody ==
    ASSUME Inv, Custody, FaultSearchDisk PROVE Kept
  <1>a. PICK b \in Blocks : fault.blk = b
    BY DEF FaultSearchDisk, Inv, FaultOK, FaultComplete
  <1>1. CASE file[b] = "full" /\ ~Crash
    <2>1. /\ file' = [file EXCEPT ![b] = "none"] /\ home' = [home EXCEPT ![b] = "data"]
          /\ lru' = [lru EXCEPT ![b] = "PULLED_WAIT"] /\ fault' = NoFault
          /\ UNCHANGED <<next_lru_data, in_node, in_list, in_tree, from_remote, mr, conn>>
      BY <1>a, <1>1 DEF FaultSearchDisk, clientVars
    <2>2. home[b] = "absent" /\ in_tree[b] = NULL /\ ~Retired(b) /\ \A d \in Clients : ~Carries(d, b)
      <3>1. home[b] = "absent" /\ in_tree[b] = NULL
        BY <1>1 DEF Custody, BlockOK
      <3> QED
        BY <3>1 DEF Custody, CarriedOK, Retired
    <2>3. /\ home'[b] = "data" /\ file'[b] = "none"
          /\ \A y \in Blocks : y # b => home'[y] = home[y] /\ file'[y] = file[y] /\ (Free(y)' <=> Free(y))
      BY <2>1 DEF Inv, MemoryOK, Free
    <2>4. SameClients /\ SameFault /\ SameMain /\ SameMoves /\ SameRestored
      BY <2>1, NoConn, SaysTheSame DEF SameClients
    <2>5. SameHeld /\ SameLinks /\ SameLinked /\ NoNewLeak /\ \A x \in Blocks : HandedOver(x)' <=> HandedOver(x)
      BY <2>1, <2>4, HeldUnchanged, LinksUnchanged, LinkedSame, LeakedSame, MainFields
    <2>6. StillRetired
      BY <2>2, <2>3, <2>4 DEF StillRetired, Retired, SameClients, SameClient
    <2>7. HeldOK' /\ LinkedOK' /\ ListOK' /\ EvictOK'
      BY <2>1, <2>4, <2>5, HeldFrame, LinkedFrame, ListFrame, EvictFrame DEF Custody
    <2>8. BlockOK'
      BY <2>1, <2>2, <2>3 DEF Custody, BlockOK
    <2>9. CarriedOK'
      BY <2>1, <2>2, <2>3, <2>4 DEF Custody, CarriedOK, SameClients, SameClient, OneClient
    <2>10. AskedOK' /\ RestoredOK' /\ EvictedOK' /\ LeakOK'
      BY <2>1, <2>4, <2>5, <2>6, AskedFrame, RestoredFrame, EvictedFrame, LeakFrame
      DEF Custody, SameFault
    <2>11. MessageOK'
      BY <2>1, MessageUnchanged DEF Custody, MessageOK, FaultSearchDisk
    <2>12. Moves
      <3>1. Where(b) = {"disk"}
        BY <1>1, <2>2 DEF Where
      <3>2. Where(b)' = {"home"}
        <4>1. \A d \in Clients, x \in Bufs : ~Fetched(d, x, b)
          BY <2>2 DEF Carries, Fetched
        <4> QED
          BY <2>3, <2>4, <4>1 DEF Where, SameMoves
      <3>3. \A y \in Blocks : y # b => SameWhere(y)
        BY <2>3, <2>4, <2>5 DEF SameWhere, SameMoves, SameLinked
      <3> QED
        BY <3>1, <3>2, <3>3, MovesBy DEF Arrives
    <2> QED
      BY <2>6, <2>7, <2>8, <2>9, <2>10, <2>11, <2>12 DEF Custody, Kept
  <1>2. file[b] # "short"
    BY DEF Custody, BlockOK
  <1>3. CASE Crash
    BY <1>3, CrashCustody
  <1> QED
    BY <1>a, <1>1, <1>2, <1>3 DEF FaultSearchDisk

(* The client answers if it has the block and nobody else has asked. *)
LEMMA OnConnectionPagefaultCustody ==
    ASSUME Inv, Custody, OnConnectionPagefault PROVE Kept
  <1>a. /\ "fault" \in Initiators /\ "fault" # "main" /\ ConnOK /\ ClientTypeOK
        /\ At("fault", "connect", "PAGEFAULT_EVICTED_REQUEST")
        /\ fault.pc = "poll" /\ conn["fault"].ctx # "app" /\ conn["fault"].ctx # "mr"
    <2>1. "fault" \in Initiators /\ "fault" # "main" /\ ConnOK /\ ClientTypeOK
          /\ At("fault", "connect", "PAGEFAULT_EVICTED_REQUEST")
      BY DEF Inv, Initiators, OnConnectionPagefault
    <2> QED
      BY <2>1, NullAssumption DEF ConnOK, Complete, At, Custody, MessageOK
  <1>b. PICK c \in Clients, a \in Bufs : conn["fault"].cl = c /\ conn["fault"].buf = a
    BY <1>a DEF ConnOK, Complete, At
  <1>c. UNCHANGED <<lru, next_lru_data, in_node, in_list, in_tree, home, file, fault, mr>>
    BY DEF OnConnectionPagefault, ownerVars, memVars
  <1>1. CASE Disconnect("fault") /\ UNCHANGED from_remote
    <2>1. /\ OnlyConn("fault") /\ conn'["fault"].phase = "closing" /\ conn'["fault"].msg = conn["fault"].msg
          /\ conn'["fault"].ctx = conn["fault"].ctx
      BY <1>1, <1>a, DisconnectIs DEF Over
    <2>2. SameClients /\ SameMain /\ SameFault
      BY <1>a, <2>1, FaultStep, FaultSilent, NoFaultSame DEF At, NoFaultMsg, Asked, Restored
    <2>3. MessageOK'
      BY <1>a, <1>c, <2>1, MessageKept DEF Custody, At
    <2> QED
      BY <1>1, <1>c, <2>2, <2>3, QuietKeeps, HeldUnchanged, LinksUnchanged, FreeSame
  <1>2. CASE Live(c, a) /\ from_remote[c][a].status = "EVICT_WAIT"
    <2>a. PICK b \in Blocks : from_remote[c][a].blk = b
      BY <1>a, <1>2, LiveBlock
    <2>b. /\ from_remote' = [from_remote EXCEPT ![c][a].status = "EVICTING"]
          /\ Send("fault", "toInit", "PAGEFAULT_EVICTED_REQUEST_RET", b, NULL)
      BY <1>b, <1>2, <2>a DEF OnConnectionPagefault
    <2>1. /\ Now("fault", "toInit", "PAGEFAULT_EVICTED_REQUEST_RET", b, NULL) /\ conn'["fault"].cl = c
          /\ conn'["fault"].ctx = conn["fault"].ctx
      BY <1>a, <1>b, <2>b, SendIs
    <2>2. SameClients /\ SameMain /\ SameMoves /\ \A x \in Blocks : HandedOver(x)' <=> HandedOver(x)
      BY <2>1, FaultStep DEF Now
    <2>3. /\ \A d \in Clients, x \in Blocks : Asked(d, x)' <=> d = c /\ x = b
          /\ \A d \in Clients, x \in Blocks, y \in Bufs : ~Restored(d, y, x)' /\ ~Restored(d, y, x)
      BY <1>a, <2>1 DEF Now, Asked, Restored, At
    <2>4. /\ from_remote'[c][a].blk = b /\ from_remote'[c][a].status = "EVICTING" /\ SameHeld
      <3>1. from_remote[c][a] \in FromNode
        BY <1>a DEF ClientTypeOK
      <3> QED
        BY <1>a, <2>a, <2>b, <3>1 DEF ClientTypeOK, FromNode, SameHeld
    <2>5. SameRestored /\ SameLinks /\ SameLinked /\ SameFree /\ NoNewLeak /\ StillRetired
      BY <1>c, <2>2, <2>3, <2>4, LinksUnchanged, LinkedSame, FreeSame, LeakedSame, RetiredFrame
      DEF SameRestored
    <2>6. HeldOK' /\ LinkedOK' /\ ListOK' /\ EvictOK'
      BY <1>c, <2>2, <2>4, <2>5, HeldFrame, LinkedFrame, ListFrame, EvictFrame DEF Custody
    <2>7. BlockOK' /\ CarriedOK'
      BY <1>c, <2>2, <2>4, <2>5, BlockFrame, CarriedFrame DEF Custody, SameFree
    <2>8. RestoredOK' /\ EvictedOK' /\ LeakOK'
      BY <1>c, <2>2, <2>3, <2>4, <2>5, RestoredFrame, EvictedFrame, LeakFrame DEF Custody
    <2>9. AskedOK'
      <3>1. Fetched(c, a, b) \/ Linked(c, a, b)
        <4>1. Fetched(c, a, b) \/ Linked(c, a, b) \/ Returned(c, a, b) \/ Restored(c, a, b)
          BY <2>a DEF Custody, HeldOK
        <4>2. ~Returned(c, a, b)
          BY <1>2 DEF Custody, EvictOK, Evicting
        <4> QED
          BY <2>3, <4>1, <4>2
      <3>2. ~GivesBack(c, b)
        <4>1. ASSUME GivesBack(c, b) PROVE FALSE
          <5>1. PICK x \in Bufs : Evicting(c, x, b)
            BY <4>1 DEF Custody, EvictOK
          <5>2. x = a
            BY <2>a, <5>1 DEF Custody, HeldOK, Evicting
          <5> QED
            BY <1>2, <5>1, <5>2 DEF Evicting
        <4> QED
          BY <4>1
      <3>3. Evicting(c, a, b)'
        BY <2>4 DEF Evicting
      <3> QED
        BY <2>2, <2>3, <2>5, <3>1, <3>2, <3>3 DEF AskedOK, SameMoves, SameLinked
    <2>10. MessageOK'
      BY <1>a, <1>c, <2>1, MessageKept DEF Custody, Now
    <2>11. Moves
      BY <1>c, <2>2, <2>5, NothingMoves
    <2> QED
      BY <2>5, <2>6, <2>7, <2>8, <2>9, <2>10, <2>11 DEF Custody, Kept
  <1> QED
    BY <1>b, <1>1, <1>2 DEF OnConnectionPagefault

(* The owner reads the block home, but leaves its status alone: it is retired. *)
LEMMA OnCompletionPagefaultRetCustody ==
    ASSUME Calm, Inv, Custody, MainAlone, OnCompletionPagefaultRet PROVE Kept
  <1>a. /\ "fault" \in Initiators /\ "fault" # "main" /\ ConnOK /\ NodesOK
        /\ At("fault", "toInit", "PAGEFAULT_EVICTED_REQUEST_RET")
        /\ fault.pc = "poll" /\ conn["fault"].ctx # "app" /\ conn["fault"].ctx # "mr"
        /\ conn["main"].phase = "idle"
    <2>1. "fault" \in Initiators /\ "fault" # "main" /\ ConnOK /\ NodesOK
          /\ At("fault", "toInit", "PAGEFAULT_EVICTED_REQUEST_RET")
      BY DEF Inv, Initiators, OnCompletionPagefaultRet
    <2>2. fault.pc = "poll"
      BY <2>1 DEF At, Custody, MessageOK
    <2> QED
      BY <2>1, <2>2, NullAssumption DEF ConnOK, Complete, At, MainAlone
  <1>b. PICK c \in Clients, b \in Blocks : conn["fault"].cl = c /\ conn["fault"].blk = b
    BY <1>a DEF ConnOK, Complete, At
  <1>c. /\ UNCHANGED <<lru, next_lru_data, file, fault, from_remote, mr>>
    BY DEF OnCompletionPagefaultRet, clientVars
  <1>d. Asked(c, b)
    BY <1>a, <1>b DEF Asked
  <1>e. PICK a \in Bufs : Evicting(c, a, b) /\ (Fetched(c, a, b) \/ Linked(c, a, b))
    BY <1>d DEF Custody, AskedOK
  <1>f. \A d \in Clients, x \in Bufs, y \in Blocks : ~Restored(d, x, y)
    BY <1>a DEF Restored, At
  <1>1. CASE in_tree[b] = NULL
    <2>1. Disconnect("fault") /\ UNCHANGED <<in_node, in_list, in_tree, home>>
      BY <1>1, <1>b DEF OnCompletionPagefaultRet
    <2>2. /\ OnlyConn("fault") /\ conn'["fault"].phase = "closing" /\ conn'["fault"].msg = conn["fault"].msg
          /\ conn'["fault"].ctx = conn["fault"].ctx
      BY <1>a, <2>1, DisconnectIs DEF Over
    <2>3. SameClients /\ SameMain /\ SameMoves /\ \A x \in Blocks : HandedOver(x)' <=> HandedOver(x)
      BY <2>2, FaultStep
    <2>4. \A d \in Clients, x \in Blocks : ~Asked(d, x)' /\ \A y \in Bufs : ~Restored(d, y, x)'
      BY <2>2 DEF Asked, Restored, At
    <2>5. SameHeld /\ SameRestored /\ SameLinks /\ SameLinked /\ SameFree /\ NoNewLeak /\ StillRetired
      BY <1>c, <1>f, <2>1, <2>3, <2>4, HeldUnchanged, LinksUnchanged, LinkedSame, FreeSame,
         LeakedSame, RetiredFrame DEF SameRestored
    <2>6. HeldOK' /\ LinkedOK' /\ ListOK' /\ EvictOK'
      BY <1>c, <2>3, <2>5, HeldFrame, LinkedFrame, ListFrame, EvictFrame DEF Custody
    <2>7. BlockOK' /\ CarriedOK'
      BY <1>c, <2>1, <2>3, <2>5, BlockFrame, CarriedFrame DEF Custody, SameFree
    <2>8. AskedOK' /\ RestoredOK' /\ EvictedOK' /\ LeakOK'
      BY <1>c, <2>3, <2>4, <2>5, AskedFrame, RestoredFrame, EvictedFrame, LeakFrame DEF Custody
    <2>9. MessageOK'
      BY <1>a, <1>c, <2>2, MessageKept DEF Custody, At
    <2>10. Moves
      BY <1>c, <2>1, <2>3, <2>5, NothingMoves
    <2> QED
      BY <2>5, <2>6, <2>7, <2>8, <2>9, <2>10 DEF Custody, Kept
  <1>2. CASE in_tree[b] # NULL
    <2>1. /\ home[b] = "absent" /\ file[b] = "none" /\ ~Free(b) /\ ~Retired(b)
          /\ \A d \in Clients : ~Carries(d, b) /\ \A x \in Bufs : ~Restored(d, x, b) /\ ~Fetched(d, x, b)
      BY <1>2, AwayIs
    <2>2. /\ Linked(c, a, b) /\ [buf |-> a, blk |-> b] \in mr[c]
          /\ in_tree[b] \in Chunks /\ in_node[in_tree[b]].raddr = a /\ in_node[in_tree[b]].ip = c
      <3>1. Linked(c, a, b)
        BY <1>e, <2>1
      <3> QED
        BY <1>a, <1>2, <1>e, <3>1 DEF Linked, NodesOK, Custody, HeldOK, Evicting
    <2>3. /\ Unlink(in_tree[b], b) /\ MarkEvicted(in_tree[b])
          /\ home' = [home EXCEPT ![b] = "data"]
          /\ Send("fault", "toAcc", "PAGEFAULT_EVICTED_REQUEST_DONE", b, a)
      <3>1. ReadResult(c, b, a, "filling") = {"data"}
        BY <2>2 DEF ReadResult, Calm
      <3> QED
        BY <1>2, <1>b, <2>2, <3>1 DEF OnCompletionPagefaultRet, Calm
    <2>4. /\ home'[b] = "data" /\ (\A y \in Blocks : y # b => home'[y] = home[y]) /\ SameFree
      BY <1>c, <2>3, FreeSame DEF Inv, MemoryOK
    <2>5. /\ ListOK' /\ in_tree'[b] = NULL /\ (\A y \in Blocks : y # b => in_tree'[y] = in_tree[y])
          /\ \A d \in Clients, x \in Bufs, y \in Blocks :
                Linked(d, x, y)' <=> Linked(d, x, y) /\ y # b
      BY <1>a, <1>2, <2>3, UnlinkIs DEF Custody
    <2>6. /\ Now("fault", "toAcc", "PAGEFAULT_EVICTED_REQUEST_DONE", b, a) /\ conn'["fault"].cl = c
          /\ conn'["fault"].ctx = conn["fault"].ctx
      BY <1>a, <1>b, <2>3, SendIs
    <2>7. /\ SameClients /\ SameMain /\ SameMoves
          /\ \A d \in Clients, x \in Blocks : ~Asked(d, x)'
          /\ \A d \in Clients, x \in Blocks, y \in Bufs : Restored(d, y, x)' <=> d = c /\ y = a /\ x = b
      BY <2>6, FaultStep DEF Now, Asked, Restored, At
    <2>8. SameHeld /\ NoNewLeak
      BY <1>c, <2>7, HeldUnchanged, LeakedSame
    <2>9. StillRetired /\ Retired(b)'
      <3>1. StillRetired
        BY <2>1, <2>4, <2>7 DEF StillRetired, Retired, SameFree, SameClients, SameClient
      <3>2. ~Free(b)' /\ \A d \in Clients : ~Carries(d, b)'
        BY <2>1, <2>4, <2>7 DEF SameFree, SameClients, SameClient
      <3> QED
        BY <2>4, <3>1, <3>2 DEF Retired
    <2>10. \A d \in Clients, x \in Bufs : Linked(d, x, b) => d = c /\ x = a
      BY <2>2 DEF Linked
    <2>11. HeldOK'
      <3>1. \A d \in Clients, x \in Bufs, y \in Blocks :
               Linked(d, x, y) => Linked(d, x, y)' \/ Restored(d, x, y)'
        BY <2>5, <2>7, <2>10
      <3> QED
        BY <1>c, <1>f, <2>7, <3>1 DEF Custody, HeldOK, SameMoves
    <2>12. LinkedOK'
      BY <1>c, <2>5, <2>7, MainFields DEF Custody, LinkedOK
    <2>13. BlockOK'
      BY <1>c, <2>1, <2>4, <2>5 DEF Custody, BlockOK, SameFree
    <2>14. CarriedOK'
      BY <1>c, <2>1, <2>4, <2>7 DEF Custody, CarriedOK, SameClients, SameClient, SameFree, OneClient
    <2>15. Evicting(c, a, b)' /\ \A d \in Clients, x \in Bufs, y \in Blocks : Evicting(d, x, y)' <=> Evicting(d, x, y)
      BY <1>c, <1>e DEF Evicting
    <2>16. EvictOK'
      <3>1. ~GivesBack(c, b)
        BY <1>d DEF Custody, AskedOK
      <3>2. ~Returned(c, a, b)
        BY <2>2 DEF Custody, EvictOK
      <3>3. ASSUME NEW d \in Clients, NEW y \in Blocks, GivesBack(d, y)'
            PROVE  \E x \in Bufs : Evicting(d, x, y)' /\ Linked(d, x, y)'
        <4>1. GivesBack(d, y)
          BY <2>7, <3>3 DEF SameMoves
        <4>2. PICK x \in Bufs : Evicting(d, x, y) /\ Linked(d, x, y)
          BY <4>1 DEF Custody, EvictOK
        <4>3. y # b
          BY <2>10, <3>1, <4>1, <4>2
        <4> QED
          BY <2>5, <2>15, <4>2, <4>3
      <3>4. \A d \in Clients, y \in Blocks, x \in Bufs : Returned(d, x, y)' =>
               Evicting(d, x, y)' /\ ~Restored(d, x, y)' /\ \A z \in Bufs : ~Linked(d, z, y)'
        BY <2>5, <2>7, <2>15, <3>2 DEF Custody, EvictOK, SameMoves
      <3> QED
        BY <3>3, <3>4 DEF EvictOK
    <2>17. AskedOK' /\ RestoredOK'
      BY <2>7, <2>9, <2>15 DEF AskedOK, RestoredOK
    <2>18. EvictedOK'
      BY <1>a, <2>7, MainIdleKeeps DEF Custody
    <2>19. LeakOK'
      <3>1. ASSUME NEW d \in Clients, NEW r \in Region, r \in mr[d], Leaked(d, r)
            PROVE  r.blk \in Blocks /\ r.blk # b
        BY <2>1, <3>1 DEF Region, Custody, LeakOK
      <3> QED
        BY <2>7, <2>8, <2>9, <3>1 DEF Custody, LeakOK, NoNewLeak, StillRetired
    <2>20. MessageOK'
      BY <1>a, <1>c, <2>6, MessageKept DEF Custody, Now
    <2>21. Moves
      <3>1. \A x : ~HandedOver(x) /\ ~HandedOver(x)'
        BY <1>a, <2>7, MainFields DEF HandedOver, At
      <3>2. Where(b) = {c}
        BY <2>1, <2>2, <2>10, <3>1 DEF Where
      <3>3. Where(b)' = {"home"}
        BY <2>1, <2>4, <2>7 DEF Where, SameMoves
      <3>4. \A y \in Blocks : y # b => SameWhere(y)
        BY <1>c, <2>4, <2>5, <2>7, <3>1 DEF SameWhere, SameMoves
      <3> QED
        BY <3>2, <3>3, <3>4, MovesBy DEF Arrives
    <2> QED
      BY <2>5, <2>9, <2>11, <2>12, <2>13, <2>14, <2>16, <2>17, <2>18, <2>19, <2>20, <2>21
      DEF Custody, Kept
  <1> QED
    BY <1>1, <1>2

(* The client forgets the block; its registration stays, for ever and for no other. *)
LEMMA OnCompletionPagefaultDoneCustody ==
    ASSUME Inv, Custody, MainAlone, OnCompletionPagefaultDone PROVE Kept
  <1>a. /\ "fault" \in Initiators /\ "fault" # "main" /\ ConnOK /\ ClientTypeOK
        /\ At("fault", "toAcc", "PAGEFAULT_EVICTED_REQUEST_DONE") /\ NULL \notin Blocks
        /\ fault.pc = "poll" /\ conn["fault"].ctx # "app" /\ conn["fault"].ctx # "mr"
        /\ conn["main"].phase = "idle"
    <2>1. "fault" \in Initiators /\ "fault" # "main" /\ ConnOK /\ ClientTypeOK
          /\ At("fault", "toAcc", "PAGEFAULT_EVICTED_REQUEST_DONE") /\ NULL \notin Blocks
      BY NullAssumption DEF Inv, Initiators, OnCompletionPagefaultDone
    <2>2. fault.pc = "poll"
      BY <2>1 DEF At, Custody, MessageOK
    <2> QED
      BY <2>1, <2>2, NullAssumption DEF ConnOK, Complete, At, MainAlone
  <1>b. PICK c \in Clients, b \in Blocks, a \in Bufs :
           conn["fault"].cl = c /\ conn["fault"].blk = b /\ conn["fault"].buf = a
    BY <1>a DEF ConnOK, Complete, At
  <1>c. Restored(c, a, b)
    BY <1>a, <1>b DEF Restored
  <1>d. /\ Evicting(c, a, b) /\ Retired(b) /\ in_tree[b] = NULL
        /\ [buf |-> a, blk |-> b] \in mr[c]
    <2>1. Evicting(c, a, b) /\ Retired(b)
      BY <1>c DEF Custody, RestoredOK
    <2> QED
      BY <2>1 DEF Custody, BlockOK, Retired, HeldOK, Evicting
  <1>e. UNCHANGED <<lru, next_lru_data, in_node, in_list, in_tree, home, file, fault, mr>>
    BY DEF OnCompletionPagefaultDone, ownerVars, memVars
  <1>1. ReleaseFrom(c, a) /\ Disconnect("fault")
    BY <1>a, <1>b, <1>d DEF OnCompletionPagefaultDone, Evicting, Live
  <1>2. /\ OnlyConn("fault") /\ conn'["fault"].phase = "closing" /\ conn'["fault"].msg = conn["fault"].msg
        /\ conn'["fault"].ctx = conn["fault"].ctx
    BY <1>a, <1>1, DisconnectIs DEF Over
  <1>3. SameClients /\ SameMain /\ SameMoves /\ \A x \in Blocks : HandedOver(x)' <=> HandedOver(x)
    BY <1>2, FaultStep
  <1>4. /\ \A d \in Clients, x \in Blocks : ~Asked(d, x)' /\ ~Asked(d, x) /\ \A y \in Bufs : ~Restored(d, y, x)'
        /\ \A d \in Clients, x \in Blocks, y \in Bufs : Restored(d, y, x) <=> d = c /\ y = a /\ x = b
    BY <1>a, <1>b, <1>2 DEF Asked, Restored, At
  <1>5. /\ from_remote[c][a].blk = b /\ from_remote'[c][a].blk = NULL
        /\ \A d \in Clients, x \in Bufs : d # c \/ x # a => from_remote'[d][x] = from_remote[d][x]
    BY <1>a, <1>d, <1>1, ReleaseIs DEF Evicting
  <1>6. /\ \A d \in Clients, x \in Bufs, y \in Blocks :
              d # c \/ x # a => (Evicting(d, x, y)' <=> Evicting(d, x, y))
        /\ \A y \in Blocks : Evicting(c, a, y) => y = b
    BY <1>5, ReleasedEvicting DEF Evicting
  <1>7. SameLinks /\ SameLinked /\ SameFree /\ StillRetired
    BY <1>e, <1>3, LinksUnchanged, LinkedSame, FreeSame, RetiredFrame
  <1>8. HeldOK'
    <2>1. \A d \in Clients, x \in Bufs, y \in Blocks : from_remote'[d][x].blk = y =>
             from_remote[d][x].blk = y /\ (d # c \/ x # a)
      BY <1>a, <1>5
    <2> QED
      BY <1>e, <1>3, <1>4, <1>7, <2>1 DEF Custody, HeldOK, SameMoves, SameLinked
  <1>9. LinkedOK'
    <2>1. \A d \in Clients, x \in Bufs, y \in Blocks : Linked(d, x, y)' => Linked(d, x, y) /\ y # b
      BY <1>7, <1>d DEF SameLinked, Linked
    <2>2. \A d \in Clients, x \in Bufs, y \in Blocks :
             y # b /\ from_remote[d][x].blk = y => from_remote'[d][x].blk = y
      BY <1>5
    <2> QED
      BY <1>e, <1>3, <2>1, <2>2 DEF Custody, LinkedOK
  <1>10. ListOK' /\ BlockOK'
    BY <1>e, <1>7, ListFrame, BlockFrame DEF Custody, SameFree
  <1>11. CarriedOK'
    <2>1. ASSUME NEW d \in Clients, NEW x \in Bufs, NEW y \in Blocks, Fetched(d, x, y)'
          PROVE  from_remote'[d][x].blk = y
      <3>1. Fetched(d, x, y) /\ from_remote[d][x].blk = y
        BY <2>1, <1>3 DEF SameMoves, Custody, CarriedOK
      <3>2. y # b
        BY <3>1, <1>d DEF Retired, Carries, Fetched
      <3> QED
        BY <3>1, <3>2, <1>5
    <2> QED
      BY <2>1, <1>e, <1>3, <1>7 DEF Custody, CarriedOK, SameClients, SameClient, SameFree, OneClient
  <1>12. EvictOK'
    <2>1. ASSUME NEW d \in Clients, NEW y \in Blocks, GivesBack(d, y)'
          PROVE  \E x \in Bufs : Evicting(d, x, y)' /\ Linked(d, x, y)'
      <3>1. GivesBack(d, y)
        BY <1>3, <2>1 DEF SameMoves
      <3>2. PICK x \in Bufs : Evicting(d, x, y) /\ Linked(d, x, y)
        BY <3>1 DEF Custody, EvictOK
      <3>3. d # c \/ x # a
        BY <3>2, <1>6, <1>d DEF Linked
      <3> QED
        BY <3>2, <3>3, <1>6, <1>7 DEF SameLinked
    <2>2. ASSUME NEW d \in Clients, NEW y \in Blocks, NEW x \in Bufs, Returned(d, x, y)'
          PROVE  Evicting(d, x, y)' /\ ~Restored(d, x, y)' /\ \A z \in Bufs : ~Linked(d, z, y)'
      <3>1. Evicting(d, x, y) /\ ~Restored(d, x, y) /\ \A z \in Bufs : ~Linked(d, z, y)
        BY <1>3, <2>2 DEF SameMoves, Custody, EvictOK
      <3>2. d # c \/ x # a
        BY <3>1, <1>6, <1>c
      <3> QED
        BY <3>1, <3>2, <1>4, <1>6, <1>7 DEF SameLinked
    <2> QED
      BY <2>1, <2>2 DEF EvictOK
  <1>13. AskedOK' /\ RestoredOK'
    BY <1>4 DEF AskedOK, RestoredOK
  <1>14. EvictedOK'
    BY <1>a, <1>3, MainIdleKeeps DEF Custody
  <1>15. LeakOK'
    <2>1. ASSUME NEW d \in Clients, NEW r \in Region, r \in mr'[d], Leaked(d, r)'
          PROVE  /\ r \in mr[d] /\ r.blk \in Blocks
                 /\ (d = c /\ r = [buf |-> a, blk |-> b]) \/ (Leaked(d, r) /\ r.blk # b)
      <3>1. r.buf \in Bufs /\ r.blk \in Blocks /\ r = [buf |-> r.buf, blk |-> r.blk]
        BY DEF Region
      <3>2. r \in mr[d] /\ from_remote'[d][r.buf].blk # r.blk
        BY <2>1, <1>e DEF Leaked
      <3>3. CASE d = c /\ r.buf = a /\ r.blk = b
        BY <3>1, <3>2, <3>3
      <3>4. CASE ~(d = c /\ r.buf = a /\ r.blk = b)
        <4>1. from_remote[d][r.buf].blk # r.blk
          BY <3>1, <3>2, <3>4, <1>5
        <4>2. Leaked(d, r)
          BY <4>1, <2>1, <1>3, MainFields DEF Leaked
        <4>3. r.blk # b
          BY <3>1, <3>2, <4>2, <1>c DEF Custody, LeakOK
        <4> QED
          BY <3>1, <3>2, <4>2, <4>3
      <3> QED
        BY <3>3, <3>4
    <2>2. [buf |-> a, blk |-> b].blk = b
      OBVIOUS
    <2>3. ASSUME NEW d \in Clients, NEW r \in Region, r \in mr'[d], Leaked(d, r)'
          PROVE  Retired(r.blk)'
      <3>1. PICK y \in Blocks : y = r.blk
        BY <2>1, <2>3
      <3>2. Retired(y)
        BY <3>1, <2>1, <2>2, <2>3, <1>d DEF Custody, LeakOK
      <3>3. Retired(y)'
        BY <3>2, <1>7 DEF StillRetired
      <3> QED
        BY <3>1, <3>3
    <2>4. ASSUME NEW d \in Clients, NEW r \in Region, r \in mr'[d], Leaked(d, r)',
                 NEW e \in Clients, NEW s \in Region, s \in mr'[e], Leaked(e, s)', s.blk = r.blk
          PROVE  e = d /\ s = r
      BY <2>1, <2>2, <2>4 DEF Custody, LeakOK
    <2> QED
      BY <1>4, <2>1, <2>3, <2>4 DEF LeakOK
  <1>16. MessageOK'
    BY <1>a, <1>e, <1>2, MessageKept DEF Custody, At
  <1>17. Moves
    BY <1>e, <1>3, <1>7, NothingMoves
  <1> QED
    BY <1>7, <1>8, <1>9, <1>10, <1>11, <1>12, <1>13, <1>14, <1>15, <1>16, <1>17 DEF Custody, Kept

-----------------------------------------------------------------------------
(* The disk and the disconnects *)

LEMMA ToSsdBeginCustody == ASSUME Inv, Custody, ToSsdBegin PROVE Kept
  <1>1. SameFree
    BY DEF ToSsdBegin, Waiting, SameFree, Free, Inv, MemoryOK
  <1> QED
    BY <1>1, AloneCustody, LinksUnchanged DEF ToSsdBegin, memVars, clientVars

LEMMA ToSsdEndCustody ==
    ASSUME Calm, Inv, Custody, NEW b \in Blocks, ToSsdEnd(b) PROVE Kept
  <1>1. /\ file' = [file EXCEPT ![b] = "full"] /\ home' = [home EXCEPT ![b] = "absent"]
        /\ lru' = [lru EXCEPT ![b] = "FSYNC_DONE"] /\ Free(b)
        /\ UNCHANGED <<next_lru_data, in_node, in_list, in_tree, fault, from_remote, mr, conn>>
    BY DEF ToSsdEnd, Calm, clientVars, Free
  <1>2. home[b] = "data" /\ in_tree[b] = NULL /\ ~Retired(b) /\ \A d \in Clients : ~Carries(d, b)
    <2>1. home[b] = "data" /\ in_tree[b] = NULL
      BY <1>1 DEF Custody, BlockOK
    <2> QED
      BY <1>1, <2>1 DEF Custody, CarriedOK, Retired
  <1>3. /\ home'[b] = "absent" /\ file'[b] = "full" /\ ~Free(b)'
        /\ \A y \in Blocks : y # b => home'[y] = home[y] /\ file'[y] = file[y] /\ (Free(y)' <=> Free(y))
    BY <1>1 DEF Inv, MemoryOK, Free
  <1>4. SameClients /\ SameFault /\ SameMain /\ SameMoves /\ SameRestored
    BY <1>1, NoConn, SaysTheSame DEF SameClients
  <1>5. SameHeld /\ SameLinks /\ SameLinked /\ NoNewLeak /\ \A x \in Blocks : HandedOver(x)' <=> HandedOver(x)
    BY <1>1, <1>4, HeldUnchanged, LinksUnchanged, LinkedSame, LeakedSame, MainFields
  <1>6. StillRetired
    BY <1>2, <1>3, <1>4 DEF StillRetired, Retired, SameClients, SameClient
  <1>7. HeldOK' /\ LinkedOK' /\ ListOK' /\ EvictOK'
    BY <1>1, <1>4, <1>5, HeldFrame, LinkedFrame, ListFrame, EvictFrame DEF Custody
  <1>8. BlockOK'
    BY <1>1, <1>2, <1>3 DEF Custody, BlockOK
  <1>9. CarriedOK'
    BY <1>1, <1>2, <1>3, <1>4 DEF Custody, CarriedOK, SameClients, SameClient, OneClient
  <1>10. AskedOK' /\ RestoredOK' /\ EvictedOK' /\ LeakOK'
    BY <1>1, <1>4, <1>5, <1>6, AskedFrame, RestoredFrame, EvictedFrame, LeakFrame
    DEF Custody, SameFault
  <1>11. MessageOK'
    BY <1>1, MessageUnchanged DEF Custody
  <1>12. Moves
    <2>1. \A d \in Clients, x \in Bufs : ~Fetched(d, x, b)
      BY <1>2 DEF Carries, Fetched
    <2>2. Where(b) = {"home"}
      BY <1>2, <2>1 DEF Where
    <2>3. Where(b)' = {"disk"}
      BY <1>3 DEF Where
    <2>4. \A y \in Blocks : y # b => SameWhere(y)
      BY <1>3, <1>4, <1>5 DEF SameWhere, SameMoves, SameLinked
    <2> QED
      BY <2>2, <2>3, <2>4, MovesBy DEF Leaves
  <1> QED
    BY <1>6, <1>7, <1>8, <1>9, <1>10, <1>11, <1>12 DEF Custody, Kept

(* The end of a connection whose context holds nothing. *)
LEMMA EndCustody ==
    ASSUME Inv, Custody, NEW i \in Initiators, Over(i), conn[i].phase # "idle",
           conn[i].phase = "closing" \/ conn[i].msg = "IBVREG_ERR",
           conn[i].ctx # "mr", conn'[i].ctx = NULL, conn'[i].msg \in {NULL, conn[i].msg},
           UNCHANGED <<from_remote, mr, home, file, lru, next_lru_data, in_node, in_list, in_tree, fault>>
    PROVE  Kept
  <1>1. MessageOK'
    <2>1. conn'[i].msg = "PULL_REQUEST_BUT_NOT_PULL" => OneClient
      BY NullAssumption DEF Custody, MessageOK, MessageId
    <2>2. i = "fault" => fault.pc = "poll"
      BY DEF Custody, MessageOK
    <2> QED
      BY <2>1, <2>2, NullAssumption, MessageKept DEF Custody, Over
  <1>2. SameHeld /\ SameLinks /\ SameLinked /\ SameFree
    BY HeldUnchanged, LinksUnchanged, LinkedSame, FreeSame
  <1>3. CASE i \in Clients
    <2>1. NoClient(i) /\ NoClient(i)'
      <3>1. NoClient(i)
        BY <1>3, SilentBy
      <3> QED
        BY <1>3, <3>1, OverSays
    <2>2. SameClients /\ SameFault /\ SameMain
      BY <1>3, <2>1, AllClients DEF Over
    <2> QED
      BY <1>1, <1>2, <2>2, QuietKeeps
  <1>4. CASE i = "fault"
    <2>1. NoFaultMsg /\ NoFaultMsg'
      BY <1>4 DEF NoFaultMsg, Asked, Restored, At, Over
    <2>2. SameClients /\ SameFault /\ SameMain
      BY <1>4, <2>1, FaultStep, NoFaultSame DEF Over
    <2> QED
      BY <1>1, <1>2, <2>2, QuietKeeps
  <1>5. CASE i = "main"
    <2>1. SameClients /\ SameFault /\ SameMoves /\ SameRestored
      BY <1>5, MainStep DEF Over
    <2>2. \A x : ~HandedOver(x)
      BY <1>5 DEF HandedOver, At
    <2>3. StillRetired /\ NoNewLeak
      <3>1. StillRetired
        BY <1>2, <2>1, RetiredFrame
      <3>2. NoNewLeak
        BY <1>5 DEF NoNewLeak, Leaked
      <3> QED
        BY <3>1, <3>2
    <2>4. HeldOK' /\ LinkedOK' /\ ListOK' /\ EvictOK'
      BY <1>2, <2>1, <2>2, HeldFrame, LinkedFrame, ListFrame, EvictFrame DEF Custody
    <2>5. BlockOK' /\ CarriedOK'
      BY <1>2, <2>1, BlockFrame, CarriedFrame DEF Custody, SameFree
    <2>6. AskedOK' /\ RestoredOK' /\ LeakOK'
      BY <1>2, <2>1, <2>3, AskedFrame, RestoredFrame, LeakFrame DEF Custody, SameFault
    <2>7. EvictedOK'
      BY <1>5, NullAssumption DEF EvictedOK, Over, At
    <2>8. Moves
      <3>1. \A x : ~HandedOver(x)'
        BY <1>5 DEF HandedOver, At, Over
      <3> QED
        BY <1>2, <2>1, <2>2, <3>1, NothingMoves
    <2> QED
      BY <1>1, <2>3, <2>4, <2>5, <2>6, <2>7, <2>8 DEF Custody, Kept
  <1> QED
    BY <1>3, <1>4, <1>5 DEF Initiators

LEMMA OnCompletionRegErrCustody ==
    ASSUME Inv, Custody, NEW i \in Initiators, OnCompletionRegErr(i) PROVE Kept
  <1>1. ConnOK /\ conn[i].msg = "IBVREG_ERR" /\ conn[i].phase \in {"toInit", "toAcc"}
    BY DEF Inv, OnCompletionRegErr, At
  <1>2. conn[i].ctx # "mr"
    BY <1>1, NullAssumption DEF ConnOK, Complete
  <1>3. Over(i) /\ conn'[i].ctx = NULL /\ conn'[i].msg = conn[i].msg
    BY <1>1, DisconnectIs DEF OnCompletionRegErr
  <1> QED
    BY <1>1, <1>2, <1>3, EndCustody DEF OnCompletionRegErr, ownerVars, memVars, clientVars

LEMMA OnDisconnectCustody ==
    ASSUME Calm, Inv, Custody, NEW i \in Initiators, OnDisconnect(i) PROVE Kept
  <1>1. /\ ConnOK /\ conn[i].phase = "closing" /\ conn[i].ctx # "app"
        /\ conn' = [conn EXCEPT ![i] = Idle]
        /\ UNCHANGED <<from_remote, home, file, lru, next_lru_data, in_node, in_list, in_tree, fault>>
    BY DEF Inv, OnDisconnect, Disconnecting, Calm, Custody, MessageOK, ownerVars
  <1>2. Over(i) /\ conn'[i].phase = "idle" /\ conn'[i].msg = NULL /\ conn'[i].ctx = NULL
    BY <1>1, IdleIs
  <1>3. CASE conn[i].ctx # "mr"
    BY <1>1, <1>2, <1>3, EndCustody DEF OnDisconnect
  <1>4. CASE conn[i].ctx = "mr"
    <2>a. i = "main" /\ ClientTypeOK
      BY <1>4 DEF Custody, MessageOK, Inv
    <2>b. PICK c \in Clients, a \in Bufs, b \in Blocks :
             conn["main"].cl = c /\ conn["main"].buf = a /\ conn["main"].blk = b
      BY <1>4, <2>a, MainAddresses
    <2>c. from_remote[c][a].blk # b /\ ~Linked(c, a, b)
      BY <1>1, <1>4, <2>a, <2>b DEF Custody, EvictedOK
    <2>1. /\ \A d \in Clients : d # c => mr'[d] = mr[d]
          /\ mr'[c] = mr[c] \ {[buf |-> a, blk |-> b]}
      BY <1>4, <2>a, <2>b DEF OnDisconnect, ClientTypeOK
    <2>2. SameClients /\ SameFault /\ SameMoves /\ SameRestored
      BY <1>2, <2>a, MainStep DEF Over
    <2>3. SameHeld /\ SameLinks /\ SameLinked /\ SameFree /\ StillRetired
      BY <1>1, <2>2, HeldUnchanged, LinksUnchanged, LinkedSame, FreeSame, RetiredFrame
    <2>4. \A x : ~HandedOver(x)
      BY <1>1, <2>a DEF HandedOver, At
    <2>5. HeldOK'
      <3>1. ASSUME NEW d \in Clients, NEW x \in Bufs, NEW y \in Blocks, from_remote[d][x].blk = y
            PROVE  [buf |-> x, blk |-> y] \in mr'[d]
        <4>1. [buf |-> x, blk |-> y] \in mr[d]
          BY <3>1 DEF Custody, HeldOK
        <4>2. d = c => [buf |-> x, blk |-> y] # [buf |-> a, blk |-> b]
          BY <3>1, <2>c
        <4> QED
          BY <4>1, <4>2, <2>1
      <3> QED
        BY <1>1, <2>2, <2>3, <3>1 DEF Custody, HeldOK, SameMoves, SameRestored, SameLinked
    <2>6. LinkedOK'
      <3>1. ASSUME NEW d \in Clients, NEW x \in Bufs, NEW y \in Blocks, Linked(d, x, y)
            PROVE  [buf |-> x, blk |-> y] \in mr'[d]
        <4>1. [buf |-> x, blk |-> y] \in mr[d]
          BY <3>1 DEF Custody, LinkedOK
        <4>2. d = c => [buf |-> x, blk |-> y] # [buf |-> a, blk |-> b]
          BY <3>1, <2>c
        <4> QED
          BY <4>1, <4>2, <2>1
      <3> QED
        BY <1>1, <2>3, <2>4, <3>1 DEF Custody, LinkedOK, SameLinked
    <2>7. ListOK' /\ BlockOK' /\ CarriedOK' /\ EvictOK'
      BY <1>1, <2>2, <2>3, ListFrame, BlockFrame, CarriedFrame, EvictFrame DEF Custody, SameFree
    <2>8. AskedOK' /\ RestoredOK'
      BY <2>2, <2>3, AskedFrame, RestoredFrame DEF Custody, SameFault
    <2>9. EvictedOK'
      BY <1>2, <2>a, NullAssumption DEF EvictedOK, At
    <2>10. NoNewLeak
      <3>1. ASSUME NEW d \in Clients, NEW r \in Region, r \in mr'[d], Leaked(d, r)'
            PROVE  r \in mr[d] /\ Leaked(d, r)
        <4>1. r \in mr[d] /\ from_remote[d][r.buf].blk # r.blk
          BY <1>1, <2>1, <3>1 DEF Leaked
        <4>2. r = [buf |-> r.buf, blk |-> r.blk]
          BY DEF Region
        <4>3. ~(d = c /\ r.buf = a /\ r.blk = b)
          BY <2>1, <3>1, <4>2
        <4> QED
          BY <2>b, <4>1, <4>3 DEF Leaked
      <3> QED
        BY <3>1 DEF NoNewLeak
    <2>11. LeakOK'
      BY <2>2, <2>3, <2>10, LeakFrame DEF Custody, SameRestored
    <2>12. MessageOK'
      BY <1>1, <1>2, <2>a, NullAssumption, MessageKept DEF Custody, Over, MessageId
    <2>13. Moves
      <3>1. \A x : ~HandedOver(x)'
        BY <1>2, <2>a DEF HandedOver, At
      <3> QED
        BY <1>1, <2>2, <2>3, <2>4, <3>1, NothingMoves
    <2> QED
      BY <2>3, <2>5, <2>6, <2>7, <2>8, <2>9, <2>11, <2>12, <2>13 DEF Custody, Kept
  <1> QED
    BY <1>3, <1>4

-----------------------------------------------------------------------------
(* The invariant *)

LEMMA InitCustody == Init => Custody
  <1> SUFFICES ASSUME Init PROVE Custody
    OBVIOUS
  <1>1. /\ \A i \in Initiators : conn[i].phase = "idle" /\ conn[i].msg = NULL /\ conn[i].ctx = NULL
        /\ \A c \in Clients, a \in Bufs : from_remote[c][a].blk = NULL
        /\ \A c \in Clients : mr[c] = {}
        /\ \A b \in Blocks : in_tree[b] = NULL /\ home[b] = "data" /\ file[b] = "none"
        /\ in_list = {} /\ NULL \notin Blocks /\ fault.pc = "idle"
        /\ Clients \subseteq Initiators /\ "fault" \in Initiators /\ "main" \in Initiators
    BY NullAssumption DEF Init, Idle, NoNode, NoFault, Initiators
  <1>2. HeldOK /\ LinkedOK /\ ListOK /\ BlockOK
    BY <1>1 DEF HeldOK, LinkedOK, ListOK, BlockOK, Linked
  <1>3. CarriedOK /\ EvictOK /\ AskedOK /\ RestoredOK
    BY <1>1 DEF CarriedOK, EvictOK, AskedOK, RestoredOK, Carries, GivesBack, Fetched, Returned, Asked,
       Restored, At
  <1>4. EvictedOK /\ LeakOK /\ MessageOK
    <2>1. NULL # "mr" /\ NULL # "app" /\ NULL # "PULL_REQUEST_BUT_NOT_PULL"
      BY NullAssumption DEF MessageId
    <2> QED
      BY <1>1, <2>1 DEF EvictedOK, LeakOK, MessageOK, At
  <1> QED
    BY <1>2, <1>3, <1>4 DEF Custody

LEMMA CustodyKept ==
    ASSUME Calm, Inv, Custody, MainAlone, [Next]_vars PROVE Kept
  <1>1. CASE UNCHANGED vars
    <2>1. UNCHANGED conn /\ UNCHANGED fault /\ SameLinks /\ SameFree
          /\ UNCHANGED <<from_remote, mr, home, file, next_lru_data>>
      BY <1>1, LinksUnchanged, FreeSame DEF vars, ownerVars, memVars, clientVars
    <2> QED
      BY <2>1, AloneCustody
  <1>2. CASE Start
    <2>1. ASSUME NEW c \in Clients, GetRemoteMemory(c) \/ PullData(c) PROVE Kept
      BY <2>1, MemInfoCustody
    <2>2. ASSUME NEW c \in Clients, EvictData(c) PROVE Kept
      BY <2>2, EvictDataCustody
    <2>3. CASE EvictedData \/ ToSsdBegin
      BY <2>3, EvictedDataCustody, ToSsdBeginCustody
    <2>4. ASSUME NEW b \in Blocks, FaultRead(b) PROVE Kept
      BY <2>4, FaultReadCustody
    <2> QED
      BY <1>2, <2>1, <2>2, <2>3, <2>4 DEF Start
  <1>3. CASE Handle
    <2>1. ASSUME NEW c \in Clients, ClientHandler(c) PROVE Kept
      <3>1. CASE OnConnectionMemInfo(c) \/ OnCompletionMemInfoRet(c) \/ OnCompletionPullNotNeeded(c)
        BY <3>1, MemInfoCustody
      <3>2. CASE OnConnectionPull(c) \/ OnCompletionPullRet(c) \/ OnCompletionClientDone(c)
                 \/ OnCompletionButNotPull(c)
        BY <3>2, OnConnectionPullCustody, OnCompletionPullRetCustody, OnCompletionClientDoneCustody,
           OnCompletionButNotPullCustody
      <3>3. CASE CursorIsNull(c)
        BY <3>3, CrashCustody DEF CursorIsNull
      <3>4. CASE OnConnectionEvict(c) \/ OnCompletionEvictRet(c)
        BY <3>4, OnConnectionEvictCustody, OnCompletionEvictRetCustody
      <3> QED
        BY <2>1, <3>1, <3>2, <3>3, <3>4 DEF ClientHandler
    <2>2. CASE EvictedHandler
      BY <2>2, OnConnectionEvictedCustody, OnCompletionEvictedRetCustody DEF EvictedHandler
    <2>3. CASE FaultHandler
      <3>1. CASE FaultSearchRemote \/ FaultSearchDisk \/ FaultRetry \/ FaultDone
        BY <3>1, FaultAsksCustody, FaultSearchDiskCustody, FaultDoneCustody
      <3>2. CASE OnConnectionPagefault \/ OnCompletionPagefaultRet \/ OnCompletionPagefaultDone
        BY <3>2, OnConnectionPagefaultCustody, OnCompletionPagefaultRetCustody,
           OnCompletionPagefaultDoneCustody
      <3>3. CASE FaultDoubleFree
        BY <3>3, CrashCustody DEF FaultDoubleFree
      <3> QED
        BY <2>3, <3>1, <3>2, <3>3 DEF FaultHandler
    <2>4. ASSUME NEW b \in Blocks, ReadLands(b) \/ ToSsdEnd(b) PROVE Kept
      <3>1. home[b] # "filling"
        BY DEF Custody, BlockOK
      <3> QED
        BY <2>4, <3>1, ToSsdEndCustody DEF ReadLands
    <2>5. ASSUME NEW i \in Initiators, OnCompletionRegErr(i) \/ OnDisconnect(i) \/ ConnectFails(i)
          PROVE  Kept
      BY <2>5, OnCompletionRegErrCustody, OnDisconnectCustody DEF ConnectFails, Calm
    <2> QED
      BY <1>3, <2>1, <2>2, <2>3, <2>4, <2>5 DEF Handle
  <1> QED
    BY <1>1, <1>2, <1>3 DEF Next

-----------------------------------------------------------------------------
(* What the invariant says of the properties *)

LEMMA CustodyAppReadsData == Custody => AppReadsData
  BY DEF Custody, BlockOK, AppReadsData

LEMMA CustodyWaitingIsAtHome == Custody => WaitingIsAtHome
  BY DEF Custody, BlockOK, WaitingIsAtHome, Waiting, Free

LEMMA CustodyLentOnce == Custody => LentOnce
  BY DEF Custody, ListOK, LentOnce

(* A listed node is in the tree, and its block is linked to the client it names. *)
LEMMA ListedIsLinked ==
    ASSUME Inv, Custody, NEW n \in in_list
    PROVE  LET m == in_node[n]
           IN  /\ m.blk \in Blocks /\ m.ip \in Clients /\ m.raddr \in Bufs
               /\ Linked(m.ip, m.raddr, m.blk)
  <1>1. n \in Chunks /\ in_node[n].alloc /\ n # NULL
    BY NullAssumption DEF Inv, NodesOK, InRemoteIndexSound
  <1>2. in_node[n].blk \in Blocks /\ in_node[n].ip \in Clients /\ in_node[n].raddr \in Bufs
    BY <1>1 DEF Inv, NodesOK, NodesComplete
  <1>3. in_tree[in_node[n].blk] = n
    BY DEF Custody, ListOK
  <1> QED
    BY <1>1, <1>2, <1>3 DEF Linked

LEMMA CustodyListedIsBacked == Inv /\ Custody => ListedIsBacked
  BY ListedIsLinked DEF Custody, LinkedOK, ListedIsBacked, Backed

(* What is in the tree leads to a client and to one of its buffers. *)
LEMMA TreeIsLinked ==
    ASSUME Inv, NEW b \in Blocks, in_tree[b] # NULL
    PROVE  /\ in_tree[b] \in in_list /\ in_node[in_tree[b]].blk = b
           /\ \E c \in Clients, a \in Bufs :
                 Linked(c, a, b) /\ in_node[in_tree[b]].ip = c /\ in_node[in_tree[b]].raddr = a
  BY DEF Inv, NodesOK, InRemoteIndexSound, NodesComplete, Linked

LEMMA CustodyBlockSurvives == Inv /\ Custody => BlockSurvives
  <1> SUFFICES ASSUME Inv, Custody, NEW b \in Blocks, home[b] = "absent", file[b] # "full"
               PROVE  in_tree[b] # NULL /\ Backed(in_tree[b], b)
    BY DEF BlockSurvives, Custody, BlockOK
  <1>1. in_tree[b] # NULL
    BY DEF Custody, BlockOK
  <1> QED
    BY <1>1, TreeIsLinked DEF Custody, LinkedOK, Backed

LEMMA CustodyPeersAgree == Inv /\ Custody => PeersAgree
  <1> SUFFICES ASSUME Inv, Custody PROVE PeersAgree
    OBVIOUS
  <1>1. Clients \subseteq Initiators /\ "fault" \in Initiators /\ "main" \in Initiators
    BY DEF Initiators
  <1>2. ASSUME NEW c \in Clients, NEW a \in Bufs, Live(c, a), ~Moving(from_remote[c][a].blk)
        PROVE  \E n \in in_list : /\ in_node[n].blk = from_remote[c][a].blk
                                  /\ in_node[n].ip = c /\ in_node[n].raddr = a
    <2>1. PICK b \in Blocks : from_remote[c][a].blk = b
      BY <1>2 DEF Inv, ClientTypeOK, FromNode, Live
    <2>2. ~Fetched(c, a, b) /\ ~Returned(c, a, b) /\ ~Restored(c, a, b)
      BY <1>1, <1>2, <2>1 DEF Moving, Fetched, Returned, Restored, At
    <2>3. Linked(c, a, b)
      BY <2>1, <2>2 DEF Custody, HeldOK
    <2> QED
      BY <2>1, <2>3, TreeIsLinked DEF Linked
  <1>3. ASSUME NEW n \in in_list, ~Moving(in_node[n].blk)
        PROVE  from_remote[in_node[n].ip][in_node[n].raddr].blk = in_node[n].blk
    <2>1. ~HandedOver(in_node[n].blk)
      BY <1>1, <1>3 DEF Moving, HandedOver, At
    <2> QED
      BY <2>1, ListedIsLinked DEF Custody, LinkedOK
  <1> QED
    BY <1>2, <1>3 DEF PeersAgree

LEMMA AtMostOne ==
    ASSUME NEW S, \A x, y \in S : x = y PROVE Cardinality(S) <= 1
  <1>1. CASE S = {}
    BY <1>1, FS_EmptySet
  <1>2. ASSUME NEW x \in S PROVE Cardinality(S) <= 1
    <2>1. S = {x}
      OBVIOUS
    <2> QED
      BY <2>1, FS_Singleton
  <1> QED
    BY <1>1, <1>2

LEMMA CustodyLeaksOnce == Custody => LeaksOnce
  <1> SUFFICES ASSUME Custody, NEW b \in Blocks
               PROVE  Cardinality({l \in Clients \X Region : /\ l[2].blk = b /\ l[2] \in mr[l[1]]
                                                             /\ Leaked(l[1], l[2])}) <= 1
    BY DEF LeaksOnce
  <1> DEFINE S == {l \in Clients \X Region : /\ l[2].blk = b /\ l[2] \in mr[l[1]]
                                              /\ Leaked(l[1], l[2])}
  <1>1. ASSUME NEW k \in S, NEW l \in S PROVE k = l
    <2>1. k \in Clients \X Region /\ l \in Clients \X Region
      OBVIOUS
    <2>2. k[1] = l[1] /\ k[2] = l[2]
      BY <2>1 DEF Custody, LeakOK
    <2> QED
      BY <2>1, <2>2
  <1>2. \A x, y \in S : x = y
    BY <1>1
  <1> HIDE DEF S
  <1>3. Cardinality(S) <= 1
    BY <1>2, AtMostOne
  <1> QED
    BY <1>3 DEF S

-----------------------------------------------------------------------------
(* The refinement mapping, read off the messages and the owner's books *)

LEMMA HolderIs ==
    ASSUME Custody, NEW c \in Clients, NEW b \in Blocks
    PROVE  Holds(c, b) <=> \E a \in Bufs : /\ from_remote[c][a].blk = b
                                           /\ Fetched(c, a, b) \/ Linked(c, a, b)
  <1>1. \A a \in Bufs : Named(c, a, b) <=> Fetched(c, a, b) \/ Linked(c, a, b)
    BY DEF Named, Fetched, Linked
  <1> QED
    BY <1>1 DEF Holds, Custody, HeldOK

(* A block handed over is linked to the buffer its client has just forgotten. *)
LEMMA HandedOverIs ==
    ASSUME Inv, Custody, NEW b \in Blocks, HandedOver(b)
    PROVE  \E c \in Clients, a \in Bufs : Linked(c, a, b) /\ from_remote[c][a].blk # b
  BY MainAddresses DEF HandedOver, At, Custody, EvictedOK

LEMMA CopiesAre ==
    ASSUME Inv, Custody, NEW b \in Blocks PROVE Copies(b) = Where(b)
  <1>1. BlockOK /\ CarriedOK /\ LinkedOK
    BY DEF Custody
  <1>2. HandedOver(b) => in_tree[b] # NULL
    BY HandedOverIs DEF Linked
  <1>3. \A c \in Clients, a \in Bufs : Fetched(c, a, b) => home[b] = "data" /\ from_remote[c][a].blk = b
    BY <1>1 DEF CarriedOK, Carries, Fetched
  <1>4. CASE home[b] = "data"
    <2>1. in_tree[b] = NULL /\ file[b] # "full" /\ ~HandedOver(b)
      BY <1>1, <1>2, <1>4 DEF BlockOK
    <2>2. \A c \in Clients : Holds(c, b) <=> \E a \in Bufs : Fetched(c, a, b)
      BY <1>3, <2>1, HolderIs DEF Linked
    <2> QED
      BY <1>4, <2>1, <2>2 DEF Copies, Where
  <1>5. CASE home[b] # "data"
    <2>1. home[b] = "absent" /\ (in_tree[b] = NULL <=> file[b] = "full")
      BY <1>1, <1>5 DEF BlockOK
    <2>2. \A c \in Clients : Holds(c, b) <=>
              \E a \in Bufs : from_remote[c][a].blk = b /\ Linked(c, a, b)
      BY <1>3, <1>5, HolderIs
    <2>3. CASE file[b] = "full"
      <3>1. in_tree[b] = NULL /\ ~HandedOver(b) /\ \A c \in Clients : ~Holds(c, b)
        BY <1>2, <2>1, <2>2, <2>3 DEF Linked
      <3> QED
        BY <1>5, <2>3, <3>1 DEF Copies, Where
    <2>4. CASE file[b] # "full" /\ HandedOver(b)
      <3>1. \A c \in Clients : ~Holds(c, b)
        BY <2>2, <2>4, HandedOverIs DEF Linked
      <3> QED
        BY <1>5, <2>4, <3>1 DEF Copies, Where
    <2>5. CASE file[b] # "full" /\ ~HandedOver(b)
      <3>1. \A c \in Clients : Holds(c, b) <=> \E a \in Bufs : Linked(c, a, b)
        BY <1>1, <2>2, <2>5 DEF LinkedOK
      <3> QED
        BY <1>5, <2>5, <3>1 DEF Copies, Where
    <2> QED
      BY <2>3, <2>4, <2>5
  <1> QED
    BY <1>4, <1>5

LEMMA CopiesAreNext == Inv' /\ Custody' => \A b \in Blocks : Copies(b)' = Where(b)'
  <1>1. Inv /\ Custody => \A b \in Blocks : Copies(b) = Where(b)
    BY CopiesAre
  <1>2. (Inv /\ Custody => \A b \in Blocks : Copies(b) = Where(b))'
    BY <1>1, PTL
  <1> QED
    BY <1>2

(* Blocks whose home, file and messages stay as they are keep their copies. *)
LEMMA WhereSame == ASSUME NEW b \in Blocks, SameWhere(b) PROVE Where(b)' = Where(b)
  BY DEF SameWhere, Where

LEMMA MovesCopies ==
    ASSUME Inv, Inv', Custody, Kept
    PROVE  \/ \A b \in Blocks : Copies(b)' = Copies(b)
           \/ \E b \in Blocks :
                 /\ \A y \in Blocks : y # b => Copies(y)' = Copies(y)
                 /\ Leaves(Copies(b), Copies(b)') \/ Arrives(Copies(b), Copies(b)')
  <1>1. \A b \in Blocks : Copies(b) = Where(b) /\ Copies(b)' = Where(b)'
    BY CopiesAre, CopiesAreNext DEF Kept
  <1>2. Moves
    BY DEF Kept
  <1> QED
    BY <1>1, <1>2, WhereSame DEF Moves
-----------------------------------------------------------------------------
(* The behaviours in which nothing crosses the main thread's way home *)

LEMMA QuietIsAlone == MainQuiet => MainAlone
  BY DEF MainQuiet, MainAlone, Idle

LEMMA OneWayIsAlone == OneWayHome => MainAlone /\ FaultAlone
  <1> SUFFICES ASSUME OneWayHome PROVE MainAlone /\ FaultAlone
    OBVIOUS
  <1>1. IsFiniteSet(ComingHome)
    <2>1. /\ IsFiniteSet({c \in Clients : conn[c].msg \in {"EVICT_REQUEST", "EVICT_REQUEST_RET"}})
          /\ IsFiniteSet({i \in {"main"} : conn[i].phase # "idle"})
          /\ IsFiniteSet({i \in {"fault"} : fault.pc # "idle"})
      BY FinitenessAssumption, FS_Singleton, FS_Subset
    <2> QED
      BY <2>1, FS_Union DEF ComingHome
  <1>2. ASSUME NEW x \in ComingHome, NEW y \in ComingHome PROVE x = y
    <2> SUFFICES ASSUME x # y PROVE FALSE
      OBVIOUS
    <2>1. IsFiniteSet({x}) /\ Cardinality({x}) = 1
      BY FS_Singleton
    <2>2. Cardinality({x} \cup {y}) = 2
      BY <2>1, FS_AddElement
    <2>3. Cardinality({x} \cup {y}) <= Cardinality(ComingHome)
      BY <1>1, FS_Subset
    <2>4. Cardinality(ComingHome) \in Nat
      BY <1>1, FS_CardinalityType
    <2> QED
      BY <2>2, <2>3, <2>4 DEF OneWayHome
  <1>3. /\ conn["main"].phase # "idle" => "main" \in ComingHome
        /\ fault.pc # "idle" => "fault" \in ComingHome
        /\ \A c \in Clients : conn[c].msg \in {"EVICT_REQUEST", "EVICT_REQUEST_RET"} => c \in ComingHome
    BY DEF ComingHome
  <1> QED
    BY <1>2, <1>3, ThreadAssumption DEF MainAlone, FaultAlone, NoEvict

LEMMA InitOneWay == Init => OneWayHome
  <1> SUFFICES ASSUME Init PROVE OneWayHome
    OBVIOUS
  <1>1. ComingHome = {}
    BY NullAssumption DEF Init, ComingHome, Idle, NoFault, Initiators, MessageId
  <1> QED
    BY <1>1, FS_EmptySet DEF OneWayHome

(***************************************************************************)
(* Either the owner takes no block back itself, and everything else runs   *)
(* at once; or every operation is used, and the ways home do not cross.    *)
(***************************************************************************)
Orderly == ("evicted" \notin Ops /\ Spec) \/ SerialSpec

LEMMA OneAtATimeCustody ==
    ASSUME Calm PROVE SerialSpec => [](Inv /\ Custody /\ OneWayHome)
  <1>1. Init => Inv /\ Custody /\ OneWayHome
    BY InitInv, InitCustody, InitOneWay
  <1>2. Inv /\ Custody /\ OneWayHome /\ [Next /\ OneWayHome']_vars => (Inv /\ Custody /\ OneWayHome)'
    <2> SUFFICES ASSUME Inv, Custody, OneWayHome, [Next /\ OneWayHome']_vars
                 PROVE  (Inv /\ Custody /\ OneWayHome)'
      OBVIOUS
    <2>1. [Next]_vars
      OBVIOUS
    <2>2. Inv' /\ Custody'
      BY <2>1, OneWayIsAlone, NextKeeps, CustodyKept DEF Kept
    <2>3. OneWayHome'
      <3>1. CASE UNCHANGED vars
        BY <3>1 DEF OneWayHome, ComingHome, vars
      <3> QED
        BY <3>1
    <2> QED
      BY <2>2, <2>3
  <1> QED
    BY <1>1, <1>2, PTL DEF SerialSpec

LEMMA QuietCustody ==
    ASSUME Calm, "evicted" \notin Ops PROVE Spec => [](Inv /\ Custody /\ MainQuiet)
  <1>1. Init => Inv /\ Custody /\ MainQuiet
    BY InitInv, InitCustody DEF Init, MainQuiet, Initiators
  <1>2. Inv /\ Custody /\ MainQuiet /\ [Next]_vars => (Inv /\ Custody /\ MainQuiet)'
    BY QuietIsAlone, NextKeeps, CustodyKept, MainStaysQuiet DEF Kept
  <1> QED
    BY <1>1, <1>2, PTL DEF Spec

(* Type and custody hold in every state, and every step is one of CustodyKept's. *)
LEMMA OrderlyCustody ==
    ASSUME Calm PROVE Orderly => Init /\ [](Inv /\ Custody /\ MainAlone) /\ [][Next]_vars
  <1>1. SerialSpec => Init /\ [](Inv /\ Custody /\ MainAlone) /\ [][Next]_vars
    <2>1. OneWayHome => MainAlone
      BY OneWayIsAlone
    <2>2. [Next /\ OneWayHome']_vars => [Next]_vars
      OBVIOUS
    <2> QED
      BY <2>1, <2>2, OneAtATimeCustody, PTL DEF SerialSpec
  <1>2. ASSUME "evicted" \notin Ops
        PROVE  Spec => Init /\ [](Inv /\ Custody /\ MainAlone) /\ [][Next]_vars
    BY <1>2, QuietIsAlone, QuietCustody, PTL DEF Spec
  <1> QED
    BY <1>1, <1>2 DEF Orderly
-----------------------------------------------------------------------------
(* What the protocol is for *)

(***************************************************************************)
(* Apart from a block that is being moved, each client holds exactly the   *)
(* blocks that the owner's list says it holds, at the addresses it says.   *)
(***************************************************************************)
THEOREM PeersAgreeCorrect == ASSUME Calm PROVE Orderly => []PeersAgree
  BY OrderlyCustody, CustodyPeersAgree, PTL

(***************************************************************************)
(* A block is never lost: the copy is at home, on disk, or behind a live   *)
(* registration that the owner's tree leads to.                            *)
(***************************************************************************)
THEOREM BlockSurvivesCorrect == ASSUME Calm PROVE Orderly => []BlockSurvives
  BY OrderlyCustody, CustodyBlockSurvives, PTL

(***************************************************************************)
(* An application finds its data, or is stopped by a page fault: no        *)
(* handler makes a block readable before its data is there.                *)
(***************************************************************************)
THEOREM AppReadsDataCorrect == ASSUME Calm PROVE Orderly => []AppReadsData
  BY OrderlyCustody, CustodyAppReadsData, PTL

(* What get_next_pulled_data may offer, and to_ssd write, is at home. *)
THEOREM WaitingIsAtHomeCorrect == ASSUME Calm PROVE Orderly => []WaitingIsAtHome
  BY OrderlyCustody, CustodyWaitingIsAtHome, PTL

(* Two nodes of the owner's list are never of one block: it is lent once. *)
THEOREM LentOnceCorrect == ASSUME Calm PROVE Orderly => []LentOnce
  BY OrderlyCustody, CustodyLentOnce, PTL

(* Every address the owner keeps can be read through a live registration. *)
THEOREM ListedIsBackedCorrect == ASSUME Calm PROVE Orderly => []ListedIsBacked
  BY OrderlyCustody, CustodyListedIsBacked, PTL

(***************************************************************************)
(* The registration that PAGEFAULT_EVICTED_REQUEST_DONE forgets is the     *)
(* only one of its block, for ever: such a block never leaves home again.  *)
(***************************************************************************)
THEOREM LeaksOnceCorrect == ASSUME Calm PROVE Orderly => []LeaksOnce
  BY OrderlyCustody, CustodyLeaksOnce, PTL

(***************************************************************************)
(* in_remote_num is the length of the list, also where the owner takes     *)
(* blocks back: the node of an EVICTED_REQUEST is still there when the     *)
(* answer comes.                                                           *)
(***************************************************************************)
THEOREM CountCorrectOrderly == ASSUME Calm PROVE Orderly => []InRemoteNumMatches
  <1>1. Init => InRemoteNumMatches
    BY FS_EmptySet DEF Init, InRemoteNumMatches
  <1>2. Inv /\ Custody => NodeIsThere
    BY DEF Custody, EvictedOK, NodeIsThere, At, Linked
  <1>3. Inv /\ Custody /\ InRemoteNumMatches /\ [Next]_vars => InRemoteNumMatches'
    BY <1>2, CountKept
  <1> QED
    BY <1>1, <1>3, OrderlyCustody, PTL

(***************************************************************************)
(* A block that came home by a page fault is not offered, lent or written  *)
(* to disk again: no handler after OnCompletionPagefaultRet restores its   *)
(* status.                                                                 *)
(***************************************************************************)
THEOREM RetiredForGood ==
    ASSUME Calm PROVE Orderly => [][\A b \in Blocks : Retired(b) => Retired(b)']_vars
  <1>1. Inv /\ Custody /\ MainAlone /\ [Next]_vars => [\A b \in Blocks : Retired(b) => Retired(b)']_vars
    BY CustodyKept DEF Kept, StillRetired
  <1> QED
    BY <1>1, OrderlyCustody, PTL
-----------------------------------------------------------------------------
(* Every step is a move of Residency *)

LEMMA MoveIs ==
    ASSUME NEW b \in Blocks, \A y \in Blocks : y # b => Copies(y)' = Copies(y)
    PROVE  /\ Leaves(Copies(b), Copies(b)') => R!Leave(b)
           /\ Arrives(Copies(b), Copies(b)') => R!Arrive(b)
  <1>1. \A from, to : Copies(b) = from /\ Copies(b)' = to => R!Move(b, from, to)
    <2> SUFFICES ASSUME NEW from, NEW to, Copies(b) = from, Copies(b)' = to PROVE R!Move(b, from, to)
      OBVIOUS
    <2>1. [y \in Blocks |-> Copies(y)'] = [[y \in Blocks |-> Copies(y)] EXCEPT ![b] = to]
      OBVIOUS
    <2> QED
      BY <2>1 DEF R!Move
  <1>2. Leaves(Copies(b), Copies(b)') => R!Leave(b)
    BY <1>1 DEF Leaves, R!Leave, R!Store, R!Lend, R!LeaveHome, R!HandOver
  <1>3. Arrives(Copies(b), Copies(b)') => R!Arrive(b)
    BY <1>1 DEF Arrives, R!Arrive
  <1> QED
    BY <1>2, <1>3

LEMMA InitCopies == Init => [b \in Blocks |-> Copies(b)] = [b \in Blocks |-> {"home"}]
  <1> SUFFICES ASSUME Init, NEW b \in Blocks PROVE Copies(b) = {"home"}
    OBVIOUS
  <1>1. Inv /\ Custody
    BY InitInv, InitCustody
  <1>2. home[b] = "data" /\ \A c \in Clients, a \in Bufs : ~Fetched(c, a, b)
    BY NullAssumption DEF Init, Fetched, At, Idle, Initiators, MessageId
  <1> QED
    BY <1>1, <1>2, CopiesAre DEF Where

(***************************************************************************)
(* The protocol implements the moves of Residency: whatever runs at the    *)
(* same time, a step lends a block that is at home, lets it leave home,    *)
(* stores it, hands it over or brings it home; none of them loses a copy   *)
(* or makes a second one.                                                  *)
(***************************************************************************)
THEOREM MovesAreResidencys == ASSUME Calm PROVE Orderly => R!MoveSpec
  <1>1. Init => [b \in Blocks |-> Copies(b)] = [b \in Blocks |-> {"home"}]
    BY InitCopies
  <1>2. Inv /\ Custody /\ MainAlone /\ Inv' /\ [Next]_vars
        => [\E b \in Blocks : R!Leave(b) \/ R!Arrive(b)]_([b \in Blocks |-> Copies(b)])
    <2> SUFFICES ASSUME Inv, Custody, MainAlone, Inv', [Next]_vars
                 PROVE  \/ \E b \in Blocks : R!Leave(b) \/ R!Arrive(b)
                        \/ [b \in Blocks |-> Copies(b)'] = [b \in Blocks |-> Copies(b)]
      OBVIOUS
    <2> QED
      BY CustodyKept, MovesCopies, MoveIs
  <1> QED
    BY <1>1, <1>2, OrderlyCustody, PTL DEF R!MoveSpec
-----------------------------------------------------------------------------
(* The fault thread and its node, one way home at a time *)

(* A block that is at home while the fault thread serves it stays there. *)
LEMMA ServedIsRetired ==
    ASSUME Inv, Custody, ServedOK, fault.pc # "idle", home[fault.blk] = "data"
    PROVE  fault.pc = "poll" /\ in_node[fault.curr].evicted /\ Retired(fault.blk)
  <1>1. fault.blk \in Blocks /\ fault.pc = "poll"
    BY DEF Inv, FaultOK, FaultComplete, Fault, ServedOK
  <1>2. in_tree[fault.blk] = NULL
    BY <1>1 DEF Custody, BlockOK
  <1>3. fault.curr \notin in_list
    <2> SUFFICES ASSUME fault.curr \in in_list PROVE FALSE
      OBVIOUS
    <2>1. in_tree[in_node[fault.curr].blk] = fault.curr
      BY DEF Custody, ListOK
    <2>2. fault.curr # NULL
      BY NullAssumption DEF Inv, NodesOK
    <2> QED
      BY <1>1, <1>2, <2>1, <2>2 DEF ServedOK
  <1> QED
    BY <1>1, <1>3 DEF ServedOK

(* The search finds its block in the list or in a file. *)
LEMMA SearchFinds ==
    ASSUME Inv, Custody, ServedOK, fault.pc = "search",
           \A n \in in_list : in_node[n].blk # fault.blk
    PROVE  file[fault.blk] = "full"
  <1>1. fault.blk \in Blocks /\ home[fault.blk] = "absent"
    BY DEF Inv, FaultOK, FaultComplete, ServedOK
  <1>2. in_tree[fault.blk] = NULL
    BY <1>1, TreeIsLinked
  <1> QED
    BY <1>1, <1>2 DEF Custody, BlockOK

(* Node n is where it was. *)
NodeStays(n) ==
    /\ in_node'[n].alloc = in_node[n].alloc
    /\ in_node'[n].blk = in_node[n].blk
    /\ in_node'[n].evicted = in_node[n].evicted
    /\ n \in in_list => n \in in_list'

LEMMA ServedFrame ==
    ASSUME Inv, ServedOK, StillRetired, UNCHANGED fault,
           fault.pc = "search" => home'[fault.blk] = home[fault.blk],
           fault.pc = "poll" => NodeStays(fault.curr)
    PROVE  ServedOK'
  <1>1. fault.pc # "idle" => fault.blk \in Blocks
    BY DEF Inv, FaultOK, FaultComplete
  <1>2. CASE fault.pc = "search"
    BY <1>2 DEF ServedOK
  <1>3. CASE fault.pc = "poll"
    <2>1. Retired(fault.blk) => Retired(fault.blk)'
      BY <1>1, <1>3 DEF StillRetired
    <2> QED
      BY <1>3, <2>1 DEF ServedOK, NodeStays
  <1>4. CASE fault.pc \notin {"search", "poll"}
    BY <1>4 DEF ServedOK
  <1> QED
    BY <1>2, <1>3, <1>4

(* Handlers of connections and clients take no node out but through a way home. *)
LEMMA ClientServed ==
    ASSUME Inv, Custody, ServedOK, FaultAlone, StillRetired, NEW c \in Clients,
           ClientHandler(c) \/ GetRemoteMemory(c) \/ PullData(c) \/ EvictData(c)
    PROVE  ServedOK'
  <1>0. c \in Initiators
    BY DEF Initiators
  <1>1. CASE UNCHANGED <<fault, home, in_node, in_list>>
    BY <1>1, ServedFrame DEF NodeStays
  <1>2. CASE OnCompletionClientDone(c)
    <2>1. PICK n \in Chunks : ~in_node[n].alloc /\ LinkNode(n, conn[c].blk, c, conn[c].buf)
      BY <1>2 DEF OnCompletionClientDone
    <2>2. \E h \in HomeState : home' = [home EXCEPT ![conn[c].blk] = h]
      BY <1>2 DEF OnCompletionClientDone, HomeState
    <2>3. home[conn[c].blk] = "data"
      <3>1. conn[c].blk \in Blocks
        BY <1>0, <1>2 DEF OnCompletionClientDone, At, Inv, ConnOK, Complete
      <3>2. Carries(c, conn[c].blk)
        BY <1>2 DEF OnCompletionClientDone, Carries
      <3> QED
        BY <3>1, <3>2 DEF Custody, CarriedOK
    <2>4. fault.pc = "search" => home'[fault.blk] = home[fault.blk]
      BY <2>2, <2>3 DEF ServedOK, Inv, MemoryOK
    <2>5. fault.pc = "poll" => NodeStays(fault.curr)
      BY <2>1 DEF ServedOK, LinkNode, NodeStays, Inv, NodesOK, FaultOK, FaultComplete
    <2> QED
      BY <1>2, <2>4, <2>5, ServedFrame DEF OnCompletionClientDone
  <1>3. CASE OnConnectionEvict(c)
    <2>1. fault.pc = "idle"
      BY <1>3 DEF OnConnectionEvict, At, FaultAlone, NoEvict
    <2> QED
      BY <1>3, <2>1, ServedFrame DEF OnConnectionEvict
  <1> QED
    BY <1>1, <1>2, <1>3 DEF ClientHandler, GetRemoteMemory, PullData, EvictData, OnConnectionMemInfo,
       OnCompletionMemInfoRet, OnConnectionPull, OnCompletionPullNotNeeded, OnCompletionPullRet,
       OnCompletionButNotPull, CursorIsNull, Crash, OnCompletionEvictRet, ownerVars, memVars

(* An answer to EVICTED_REQUEST finds the fault thread idle. *)
LEMMA EvictedServed ==
    ASSUME Inv, ServedOK, FaultAlone, StillRetired, EvictedHandler \/ EvictedData
    PROVE  ServedOK'
  <1>1. CASE EvictedHandler
    <2>1. fault.pc = "idle"
      BY <1>1 DEF EvictedHandler, OnConnectionEvicted, OnCompletionEvictedRet, At, FaultAlone
    <2> QED
      BY <1>1, <2>1, ServedFrame DEF EvictedHandler, OnConnectionEvicted, OnCompletionEvictedRet
  <1>2. CASE EvictedData
    <2>1. fault.pc = "poll" => NodeStays(fault.curr)
      BY <1>2 DEF EvictedData, NodeStays, Inv, NodesOK, InNode, FaultOK, FaultComplete
    <2> QED
      BY <1>2, <2>1, ServedFrame DEF EvictedData, memVars
  <1> QED
    BY <1>1, <1>2

LEMMA StatusStays ==
    ASSUME Inv, NEW n \in Chunks, UNCHANGED in_list, NEW m, NEW nodes,
           nodes = in_node \/ \E k \in Chunks : nodes = [in_node EXCEPT ![k].status = "EVICT_WAIT"],
           in_node' = nodes \/ in_node' = [nodes EXCEPT ![m].status = "EVICTING"]
    PROVE  NodeStays(n)
  <1>1. /\ nodes \in [Chunks -> InNode] /\ nodes[n].alloc = in_node[n].alloc
        /\ nodes[n].blk = in_node[n].blk /\ nodes[n].evicted = in_node[n].evicted
    BY DEF Inv, NodesOK, InNode, NodeStatus
  <1>2. /\ in_node'[n].alloc = nodes[n].alloc
        /\ in_node'[n].blk = nodes[n].blk /\ in_node'[n].evicted = nodes[n].evicted
    BY <1>1 DEF InNode
  <1> QED
    BY <1>1, <1>2 DEF NodeStays

(* The fault thread's own requests change no node but in its status. *)
LEMMA AskingStays ==
    ASSUME Inv, FaultSearchRemote \/ FaultRetry, NEW n \in Chunks
    PROVE  NodeStays(n)
  <1>1. UNCHANGED in_list
    BY DEF FaultSearchRemote, FaultRetry
  <1>2. CASE FaultSearchRemote
    <2>1. in_node' = in_node \/ in_node' = [in_node EXCEPT ![in_tree[fault.blk]].status = "EVICTING"]
      BY <1>2 DEF FaultSearchRemote, PagefaultEvictedData
    <2> QED
      BY <1>1, <2>1, StatusStays
  <1>3. CASE FaultRetry
    <2> DEFINE m == in_tree[in_node[fault.curr].blk]
               nodes == [in_node EXCEPT ![fault.curr].status = "EVICT_WAIT"]
    <2>1. fault.curr \in Chunks
      BY <1>3 DEF FaultRetry, Inv, FaultOK, FaultComplete
    <2>2. in_node' = nodes \/ in_node' = [nodes EXCEPT ![m].status = "EVICTING"]
      BY <1>3 DEF FaultRetry, PagefaultEvictedData
    <2>3. \E k \in Chunks : nodes = [in_node EXCEPT ![k].status = "EVICT_WAIT"]
      BY <2>1
    <2> HIDE DEF nodes, m
    <2> QED
      BY <1>1, <2>2, <2>3, StatusStays
  <1> QED
    BY <1>2, <1>3

(* The answer's node is flagged only once its block is back for good. *)
LEMMA PagefaultRetServed ==
    ASSUME Calm, Inv, Custody, ServedOK, StillRetired, OnCompletionPagefaultRet
    PROVE  ServedOK'
  <1>1. /\ UNCHANGED <<fault, lru>> /\ fault.pc = "poll" /\ fault.curr \in Chunks /\ fault.blk \in Blocks
        /\ At("fault", "toInit", "PAGEFAULT_EVICTED_REQUEST_RET")
    BY DEF OnCompletionPagefaultRet, At, Custody, MessageOK, Inv, FaultOK, FaultComplete, Fault
  <1>2. PICK c \in Clients, b \in Blocks : conn["fault"].cl = c /\ conn["fault"].blk = b
    BY <1>1 DEF Inv, ConnOK, Complete, At, Initiators
  <1>3. CASE in_tree[b] = NULL
    <2>1. NodeStays(fault.curr)
      BY <1>2, <1>3 DEF OnCompletionPagefaultRet, NodeStays
    <2> QED
      BY <1>1, <2>1, ServedFrame
  <1>4. CASE in_tree[b] # NULL
    <2>1. home[b] = "absent" /\ ~Free(b) /\ \A d \in Clients, x \in Bufs : ~Fetched(d, x, b) /\ ~Carries(d, b)
      BY <1>4, AwayIs
    <2>2. PICK a \in Bufs : Linked(c, a, b)
      BY <1>1, <1>2, <2>1 DEF Asked, Custody, AskedOK
    <2>3. ReadResult(c, b, in_node[in_tree[b]].raddr, "filling") = {"data"}
      BY <2>2 DEF Custody, LinkedOK, ReadResult, Linked, Calm
    <2>4. /\ Unlink(in_tree[b], b) /\ MarkEvicted(in_tree[b]) /\ home' = [home EXCEPT ![b] = "data"]
          /\ \A d \in Clients : conn'[d] = conn[d]
      <3>1. \/ Hang("fault")
            \/ Send("fault", "toAcc", "PAGEFAULT_EVICTED_REQUEST_DONE", b, in_node[in_tree[b]].raddr)
        BY <1>2, <1>4 DEF OnCompletionPagefaultRet, Calm
      <3>2. \A d \in Clients : conn'[d] = conn[d]
        BY <3>1, ThreadAssumption DEF Send, Hang, Inv, ConnOK, Initiators
      <3> QED
        BY <1>2, <1>4, <2>3, <3>2 DEF OnCompletionPagefaultRet, Calm
    <2>5. Retired(b)'
      BY <1>1, <2>1, <2>4 DEF Retired, Free, Carries, At, Inv, MemoryOK
    <2>6. in_tree[b] \in Chunks /\ in_node \in [Chunks -> InNode] /\ in_node[in_tree[b]].blk = b
      BY <1>4 DEF Inv, NodesOK, InRemoteIndexSound
    <2>7. CASE fault.curr = in_tree[b]
      <3>1. fault.blk = b
        BY <1>1, <2>6, <2>7 DEF ServedOK
      <3>2. in_node'[fault.curr].alloc /\ in_node'[fault.curr].blk = b /\ in_node'[fault.curr].evicted
        BY <1>1, <2>4, <2>6, <2>7 DEF ServedOK, MarkEvicted, InNode
      <3> QED
        BY <1>1, <2>5, <3>1, <3>2 DEF ServedOK
    <2>8. CASE fault.curr # in_tree[b]
      <3>1. NodeStays(fault.curr)
        BY <1>1, <2>4, <2>6, <2>8 DEF MarkEvicted, Unlink, NodeStays, InNode
      <3> QED
        BY <1>1, <3>1, ServedFrame
    <2> QED
      BY <2>7, <2>8
  <1> QED
    BY <1>3, <1>4

LEMMA FaultServed ==
    ASSUME Calm, Inv, Custody, ServedOK, StillRetired, FaultHandler
    PROVE  ServedOK'
  <1>1. CASE FaultSearchRemote
    <2>1. PICK n \in in_list : in_node[n].blk = fault.blk
                               /\ fault' = [fault EXCEPT !.pc = "poll", !.curr = n]
      BY <1>1 DEF FaultSearchRemote
    <2>2. n \in Chunks /\ in_node[n].alloc /\ ~in_node[n].evicted
      BY DEF Inv, NodesOK, InRemoteIndexSound
    <2>3. fault'.pc = "poll" /\ fault'.curr = n /\ fault'.blk = fault.blk
      BY <2>1 DEF Inv, FaultOK, Fault
    <2>4. NodeStays(n)
      BY <1>1, <2>2, AskingStays
    <2> QED
      BY <2>1, <2>2, <2>3, <2>4 DEF ServedOK, NodeStays
  <1>2. CASE FaultRetry
    <2>1. fault.pc = "poll" => NodeStays(fault.curr)
      BY <1>2, AskingStays DEF Inv, FaultOK, FaultComplete
    <2> QED
      BY <1>2, <2>1, ServedFrame DEF FaultRetry, memVars
  <1>3. CASE FaultDone \/ FaultSearchDisk \/ FaultDoubleFree
    <2>1. CASE fault' = NoFault
      BY <2>1 DEF ServedOK, NoFault
    <2>2. CASE Crash
      BY <2>2, ServedFrame DEF Crash, ownerVars, memVars, NodeStays
    <2> QED
      BY <1>3, <2>1, <2>2 DEF FaultDone, FaultSearchDisk, FaultDoubleFree
  <1>4. CASE OnConnectionPagefault \/ OnCompletionPagefaultDone
    BY <1>4, ServedFrame DEF OnConnectionPagefault, OnCompletionPagefaultDone, ownerVars, memVars,
       NodeStays
  <1> QED
    BY <1>1, <1>2, <1>3, <1>4, PagefaultRetServed DEF FaultHandler

LEMMA ServedKept ==
    ASSUME Calm, Inv, Custody, ServedOK, FaultAlone, StillRetired, [Next]_vars
    PROVE  ServedOK'
  <1>1. CASE UNCHANGED vars
    BY <1>1, ServedFrame DEF vars, ownerVars, memVars, NodeStays
  <1>2. ASSUME NEW b \in Blocks, FaultRead(b) PROVE ServedOK'
    <2>1. fault' = [NoFault EXCEPT !.pc = "search", !.blk = b] /\ home'[b] = "absent"
      BY <1>2 DEF FaultRead, memVars
    <2> QED
      BY <2>1 DEF ServedOK, NoFault
  <1>3. CASE ToSsdBegin
    BY <1>3, ServedFrame DEF ToSsdBegin, memVars, NodeStays
  <1>4. ASSUME NEW b \in Blocks, ReadLands(b) \/ ToSsdEnd(b) PROVE ServedOK'
    <2>1. CASE ReadLands(b)
      BY <2>1 DEF ReadLands, Custody, BlockOK
    <2>2. CASE ToSsdEnd(b)
      <3>1. home[b] = "data"
        BY <2>2 DEF ToSsdEnd, Custody, BlockOK, Free
      <3>2. UNCHANGED home \/ \E h : home' = [home EXCEPT ![b] = h]
        BY <2>2 DEF ToSsdEnd
      <3>3. fault.pc = "search" => home'[fault.blk] = home[fault.blk]
        BY <3>1, <3>2 DEF ServedOK, Inv, MemoryOK, FaultOK, FaultComplete
      <3> QED
        BY <2>2, <3>3, ServedFrame DEF ToSsdEnd, NodeStays
    <2> QED
      BY <1>4, <2>1, <2>2
  <1>5. ASSUME NEW i \in Initiators, OnCompletionRegErr(i) \/ OnDisconnect(i) \/ ConnectFails(i)
        PROVE  ServedOK'
    <2>1. UNCHANGED home
      BY <1>5 DEF OnCompletionRegErr, OnDisconnect, Disconnecting, ConnectFails, Calm, memVars,
         Custody, MessageOK
    <2> QED
      BY <1>5, <2>1, ServedFrame DEF OnCompletionRegErr, OnDisconnect, ConnectFails, ownerVars,
         NodeStays
  <1>6. CASE Start
    BY <1>2, <1>3, <1>6, ClientServed, EvictedServed DEF Start
  <1>7. CASE Handle
    BY <1>4, <1>5, <1>7, ClientServed, EvictedServed, FaultServed DEF Handle
  <1> QED
    BY <1>1, <1>6, <1>7 DEF Next

LEMMA OneAtATimeServed ==
    ASSUME Calm PROVE SerialSpec => [](Inv /\ Custody /\ FaultAlone /\ MainAlone /\ ServedOK)
  <1>1. Init => ServedOK
    BY DEF Init, NoFault, ServedOK
  <1>2. Inv /\ Custody /\ OneWayHome /\ ServedOK /\ [Next]_vars => ServedOK'
    BY OneWayIsAlone, CustodyKept, ServedKept DEF Kept
  <1>3. OneWayHome => FaultAlone /\ MainAlone
    BY OneWayIsAlone
  <1>4. [Next /\ OneWayHome']_vars => [Next]_vars
    OBVIOUS
  <1> QED
    BY <1>1, <1>2, <1>3, <1>4, OneAtATimeCustody, PTL DEF SerialSpec

(***************************************************************************)
(* One way home at a time, the node that the fault thread polls is not     *)
(* freed before it has seen the flag (userfaultfd.c).                      *)
(***************************************************************************)
THEOREM FaultNodeSafeSerial == ASSUME Calm PROVE SerialSpec => []FaultNodeAlive
  <1>1. ServedOK => FaultNodeAlive
    BY DEF ServedOK, FaultNodeAlive
  <1> QED
    BY <1>1, OneAtATimeServed, PTL

(***************************************************************************)
(* With a single client and one way home at a time no handler dereferences *)
(* NULL and no node is freed twice: the cursor is the block that is        *)
(* carried, the search finds a node or a file, and the polled node lives.  *)
(***************************************************************************)
THEOREM NoCrashSerial == ASSUME Calm, OneClient PROVE SerialSpec => []NoCrash
  <1>1. Init => NoCrash
    BY DEF Init, NoCrash
  <1>2. ASSUME Inv, Custody, ServedOK, NoCrash, [Next]_vars PROVE NoCrash'
    <2>1. ASSUME NEW c \in Clients, CursorIsNull(c) PROVE FALSE
      <3>1. PICK b \in Blocks : conn[c].blk = b
        BY <1>2, <2>1 DEF CursorIsNull, At, Inv, ConnOK, Complete, Initiators
      <3>2. Carries(c, b) /\ next_lru_data # b
        BY <2>1, <3>1, NullAssumption DEF CursorIsNull, Carries
      <3> QED
        BY <1>2, <3>2 DEF Custody, CarriedOK
    <2>2. FaultSearchDisk => UNCHANGED up
      BY <1>2, SearchFinds DEF FaultSearchDisk
    <2>3. ~FaultDoubleFree
      BY <1>2 DEF FaultDoubleFree, ServedOK
    <2>4. ASSUME NEW c \in Clients, ClientHandler(c) PROVE UNCHANGED up
      BY <2>1, <2>4 DEF ClientHandler, OnConnectionMemInfo, OnCompletionMemInfoRet, OnConnectionPull,
         OnCompletionPullNotNeeded, OnCompletionPullRet, OnCompletionClientDone,
         OnCompletionButNotPull, OnConnectionEvict, OnCompletionEvictRet
    <2>5. CASE FaultHandler
      BY <2>2, <2>3, <2>5, <1>2 DEF FaultHandler, FaultSearchRemote, OnConnectionPagefault,
         OnCompletionPagefaultRet, OnCompletionPagefaultDone, FaultDone, FaultRetry, NoCrash
    <2>6. CASE EvictedHandler
      BY <2>6, <1>2 DEF EvictedHandler, OnConnectionEvicted, OnCompletionEvictedRet, NoCrash
    <2>7. CASE Start
      BY <2>7, <1>2 DEF Start, GetRemoteMemory, PullData, EvictData, EvictedData, ToSsdBegin, FaultRead,
         NoCrash
    <2>8. ASSUME NEW b \in Blocks, ReadLands(b) \/ ToSsdEnd(b) PROVE UNCHANGED up
      BY <2>8 DEF ReadLands, ToSsdEnd
    <2>9. ASSUME NEW i \in Initiators, OnCompletionRegErr(i) \/ OnDisconnect(i) \/ ConnectFails(i)
          PROVE  UNCHANGED up
      BY <2>9 DEF OnCompletionRegErr, OnDisconnect, ConnectFails
    <2> QED
      BY <1>2, <2>4, <2>5, <2>6, <2>7, <2>8, <2>9 DEF Next, Handle, NoCrash, vars
  <1>3. [Next /\ OneWayHome']_vars => [Next]_vars
    OBVIOUS
  <1> QED
    BY <1>1, <1>2, <1>3, OneAtATimeServed, PTL DEF SerialSpec
-----------------------------------------------------------------------------
(* Every step is a step of Residency, one way home at a time *)

LEMMA HomeIs ==
    ASSUME Inv, Custody, NEW b \in Blocks PROVE "home" \in Copies(b) <=> home[b] = "data"
  BY PlaceAssumption DEF Copies

LEMMA HomeIsNext ==
    Inv' /\ Custody' => \A b \in Blocks : "home" \in Copies(b)' <=> home'[b] = "data"
  <1>1. Inv /\ Custody => \A b \in Blocks : "home" \in Copies(b) <=> home[b] = "data"
    BY HomeIs
  <1>2. (Inv /\ Custody => \A b \in Blocks : "home" \in Copies(b) <=> home[b] = "data")'
    BY <1>1, PTL
  <1> QED
    BY <1>2

(* What leaves home is not waited for; what arrives was, perhaps. *)
LEMMA HomeMoves ==
    ASSUME NEW from, NEW to
    PROVE  /\ Leaves(from, to) /\ "home" \in to => "home" \in from
           /\ Arrives(from, to) => "home" \notin from /\ "home" \in to
  BY PlaceAssumption DEF Leaves, Arrives

(* The fault thread goes on with the same block, or stays idle. *)
GoesOn == fault'.blk = fault.blk /\ (fault'.pc = "idle" <=> fault.pc = "idle")

LEMMA GoesOnMaps ==
    ASSUME Inv, Inv', Custody, ServedOK, Kept, GoesOn
    PROVE  R!Next \/ UNCHANGED <<[b \in Blocks |-> Copies(b)], Reading>>
  <1> DEFINE waits(b) == fault.pc # "idle" /\ fault.blk = b
  <1>1. /\ Reading = {b \in Blocks : waits(b) /\ "home" \notin Copies(b)}
        /\ Reading' = {b \in Blocks : waits(b) /\ "home" \notin Copies(b)'}
    BY HomeIs, HomeIsNext DEF Reading, GoesOn, Kept
  <1>2. \A b \in Blocks : waits(b) /\ "home" \in Copies(b) => "home" \in Copies(b)'
    BY ServedIsRetired, HomeIs, HomeIsNext DEF Kept, StillRetired, Retired
  <1> HIDE DEF waits
  <1>3. CASE \A b \in Blocks : Copies(b)' = Copies(b)
    BY <1>1, <1>3
  <1>4. ASSUME NEW b \in Blocks, \A y \in Blocks : y # b => Copies(y)' = Copies(y),
               Leaves(Copies(b), Copies(b)')
        PROVE  R!Next
    <2>1. Reading' = Reading
      BY <1>1, <1>2, <1>4, HomeMoves
    <2> QED
      BY <1>4, <2>1, MoveIs DEF R!Next
  <1>5. ASSUME NEW b \in Blocks, \A y \in Blocks : y # b => Copies(y)' = Copies(y),
               Arrives(Copies(b), Copies(b)')
        PROVE  R!Next
    <2>1. Reading' = Reading \ {b}
      BY <1>1, <1>5, HomeMoves
    <2> QED
      BY <1>5, <2>1, MoveIs DEF R!Next
  <1> QED
    BY <1>3, <1>4, <1>5, MovesCopies

(* The three steps in which the fault thread takes up a fault or ends it. *)
LEMMA FaultReadMaps ==
    ASSUME Inv, Inv', Custody, Kept, NEW b \in Blocks, FaultRead(b)
    PROVE  R!Next
  <1>1. \A y \in Blocks : Copies(y)' = Copies(y)
    BY DEF FaultRead, ownerVars, memVars, clientVars, Copies, Holds, Named, HandedOver, At
  <1>2. Reading = {} /\ Reading' = {b}
    BY DEF FaultRead, Reading, memVars, NoFault
  <1>3. "home" \notin Copies(b)
    BY HomeIs DEF FaultRead
  <1> QED
    BY <1>1, <1>2, <1>3 DEF R!Next, R!Read

LEMMA FaultDoneMaps ==
    ASSUME Inv, Inv', Custody, ServedOK, Kept, FaultDone
    PROVE  UNCHANGED <<[b \in Blocks |-> Copies(b)], Reading>>
  <1>1. fault.blk \in Blocks /\ Retired(fault.blk)
    BY DEF FaultDone, ServedOK, Inv, FaultOK, FaultComplete
  <1>2. Reading = {} /\ Reading' = {}
    BY <1>1 DEF FaultDone, Reading, NoFault, Retired
  <1>3. \A y \in Blocks : Copies(y)' = Copies(y)
    <2>1. SameLinks
      BY DEF FaultDone, SameLinks, Inv, NodesOK, InRemoteIndexSound
    <2>2. \A y \in Blocks : SameWhere(y)
      BY <2>1, LinkedSame DEF FaultDone, memVars, SameLinked, SameWhere, HandedOver, Fetched, At
    <2> QED
      BY <2>2, CopiesAre, CopiesAreNext, WhereSame DEF Kept
  <1> QED
    BY <1>2, <1>3

LEMMA FaultSearchDiskMaps ==
    ASSUME Inv, Inv', Custody, ServedOK, Kept, FaultSearchDisk
    PROVE  R!Next
  <1>1. PICK b \in Blocks : b = fault.blk
    BY DEF FaultSearchDisk, Inv, FaultOK, FaultComplete
  <1>2. /\ home[b] = "absent" /\ fault.pc = "search"
        /\ fault' = NoFault /\ home' = [home EXCEPT ![b] = "data"]
    BY <1>1, SearchFinds DEF FaultSearchDisk, ServedOK
  <1>3. home'[b] = "data"
    BY <1>2 DEF Inv, MemoryOK
  <1>4. "home" \notin Copies(b) /\ "home" \in Copies(b)'
    BY <1>2, <1>3, HomeIs, HomeIsNext DEF Kept
  <1>5. Reading = {b} /\ Reading' = {}
    BY <1>1, <1>2 DEF Reading, NoFault
  <1>6. (\A y \in Blocks : y # b => Copies(y)' = Copies(y)) /\ Arrives(Copies(b), Copies(b)')
    BY <1>4, MovesCopies, HomeMoves
  <1> QED
    BY <1>5, <1>6, MoveIs DEF R!Next

LEMMA StepMaps ==
    ASSUME Inv, Inv', Custody, ServedOK, Kept, [Next]_vars
    PROVE  R!Next \/ UNCHANGED <<[b \in Blocks |-> Copies(b)], Reading>>
  <1>1. ASSUME NEW b \in Blocks, FaultRead(b) PROVE R!Next
    BY <1>1, FaultReadMaps
  <1>2. CASE FaultDone
    BY <1>2, FaultDoneMaps
  <1>3. CASE FaultSearchDisk
    BY <1>3, FaultSearchDiskMaps
  <1>4. CASE FaultSearchRemote
    <2>1. GoesOn
      BY <1>4 DEF FaultSearchRemote, GoesOn, Inv, FaultOK, Fault
    <2> QED
      BY <2>1, GoesOnMaps
  <1>5. CASE UNCHANGED fault
    BY <1>5, GoesOnMaps DEF GoesOn
  <1>6. CASE Start
    BY <1>1, <1>5, <1>6 DEF Start, GetRemoteMemory, PullData, EvictData, EvictedData, ToSsdBegin
  <1>7. CASE Handle
    <2>1. ASSUME NEW c \in Clients, ClientHandler(c) PROVE UNCHANGED fault
      BY <2>1 DEF ClientHandler, OnConnectionMemInfo, OnCompletionMemInfoRet, OnConnectionPull,
         OnCompletionPullNotNeeded, OnCompletionPullRet, OnCompletionClientDone,
         OnCompletionButNotPull, CursorIsNull, Crash, OnConnectionEvict, OnCompletionEvictRet
    <2>2. EvictedHandler => UNCHANGED fault
      BY DEF EvictedHandler, OnConnectionEvicted, OnCompletionEvictedRet
    <2>3. CASE FaultHandler
      BY <1>2, <1>3, <1>4, <1>5, <2>3 DEF FaultHandler, OnConnectionPagefault,
         OnCompletionPagefaultRet, OnCompletionPagefaultDone, FaultRetry, FaultDoubleFree, Crash
    <2>4. ASSUME NEW b \in Blocks, ReadLands(b) \/ ToSsdEnd(b) PROVE UNCHANGED fault
      BY <2>4 DEF ReadLands, ToSsdEnd
    <2>5. ASSUME NEW i \in Initiators, OnCompletionRegErr(i) \/ OnDisconnect(i) \/ ConnectFails(i)
          PROVE  UNCHANGED fault
      BY <2>5 DEF OnCompletionRegErr, OnDisconnect, ConnectFails
    <2> QED
      BY <1>5, <1>7, <2>1, <2>2, <2>3, <2>4, <2>5 DEF Handle
  <1> QED
    BY <1>5, <1>6, <1>7 DEF Next, vars

(***************************************************************************)
(* The safety half of ImplementsResidency: each handler makes one move of  *)
(* Residency or none, and a fault is taken up when a block is away and     *)
(* ends with the step that brings the block home.                          *)
(***************************************************************************)
THEOREM ResidencySafety == ASSUME Calm PROVE SerialSpec => R!Spec
  <1>1. Init => R!Init
    <2> SUFFICES ASSUME Init PROVE R!Init
      OBVIOUS
    <2>1. Reading = {}
      BY DEF Init, Reading, NoFault
    <2> QED
      BY <2>1, InitCopies DEF R!Init
  <1>2. Inv /\ Inv' /\ Custody /\ MainAlone /\ ServedOK /\ [Next]_vars
        => [R!Next]_<<[b \in Blocks |-> Copies(b)], Reading>>
    BY CustodyKept, StepMaps
  <1>3. [Next /\ OneWayHome']_vars => [Next]_vars
    OBVIOUS
  <1> QED
    BY <1>1, <1>2, <1>3, OneAtATimeServed, PTL DEF SerialSpec, R!Spec, R!vars

(***************************************************************************)
(* The data of a block is in one place, or at home and with the one client *)
(* that has fetched a copy: never with two clients, on disk and with a     *)
(* client, or nowhere.                                                     *)
(***************************************************************************)
THEOREM NeverLostCorrect == ASSUME Calm PROVE Orderly => []R!NeverLost
  <1>1. Inv /\ Custody => R!NeverLost
    <2> SUFFICES ASSUME Inv, Custody, NEW b \in Blocks
                 PROVE  \/ Where(b) \in {{"home"}, {"disk"}, {"way"}}
                        \/ \E c \in Clients : Where(b) \in {{c}, {"home", c}}
      BY CopiesAre DEF R!NeverLost
    <2>1. CASE home[b] = "data"
      <3>1. Where(b) = {"home"} \cup {c \in Clients : \E a \in Bufs : Fetched(c, a, b)}
        BY <2>1 DEF Where
      <3>2. \A c, d \in Clients : (\E a \in Bufs : Fetched(c, a, b)) /\ (\E a \in Bufs : Fetched(d, a, b))
               => c = d
        BY DEF Custody, CarriedOK, Carries, Fetched
      <3>3. CASE \E c \in Clients : \E a \in Bufs : Fetched(c, a, b)
        <4>1. PICK c \in Clients : \E a \in Bufs : Fetched(c, a, b)
          BY <3>3
        <4>2. {d \in Clients : \E a \in Bufs : Fetched(d, a, b)} = {c}
          BY <3>2, <4>1
        <4> QED
          BY <3>1, <4>2
      <3>4. CASE ~\E c \in Clients : \E a \in Bufs : Fetched(c, a, b)
        BY <3>1, <3>4
      <3> QED
        BY <3>3, <3>4
    <2>2. CASE home[b] # "data" /\ file[b] # "full" /\ ~HandedOver(b)
      <3>1. PICK c \in Clients, a \in Bufs : Linked(c, a, b)
        BY <2>2, TreeIsLinked DEF Custody, BlockOK
      <3>2. {d \in Clients : \E x \in Bufs : Linked(d, x, b)} = {c}
        BY <3>1 DEF Linked
      <3> QED
        BY <2>2, <3>2 DEF Where
    <2>3. CASE home[b] # "data" /\ (file[b] = "full" \/ HandedOver(b))
      BY <2>3 DEF Where
    <2> QED
      BY <2>1, <2>2, <2>3
  <1> QED
    BY <1>1, OrderlyCustody, PTL
=============================================================================

--------------------------- MODULE MigrationProofs ---------------------------
(***************************************************************************)
(* Proofs about Migration for any number of clients, blocks, buffers and   *)
(* nodes, for every choice of operations and with every adversity.         *)
(***************************************************************************)
EXTENDS MigrationProperties, FiniteSetTheorems, TLAPS

(* An allocated node has the addresses that the handlers dereference. *)
NodesComplete ==
    \A n \in Chunks : in_node[n].alloc =>
        /\ in_node[n].blk \in Blocks
        /\ in_node[n].ip \in Clients
        /\ in_node[n].raddr \in Bufs

(* So has the fault thread while it serves a fault. *)
FaultComplete ==
    /\ fault.pc # "idle" => fault.blk \in Blocks
    /\ fault.pc = "poll" => fault.curr \in Chunks

(* And a message has the addresses that are read from it, or that its end releases. *)
Complete(m) ==
    /\ m.msg \in {"PULL_REQUEST_RET", "PULL_REQUEST_BUT_NOT_PULL", "CLIENT_DONE",
                  "EVICT_REQUEST", "EVICT_REQUEST_RET", "EVICTED_REQUEST_RET",
                  "PAGEFAULT_EVICTED_REQUEST_RET", "PAGEFAULT_EVICTED_REQUEST_DONE"}
           => m.blk \in Blocks
    /\ m.msg \in {"CLIENT_DONE", "EVICT_REQUEST_RET", "EVICTED_REQUEST", "EVICTED_REQUEST_RET",
                  "PAGEFAULT_EVICTED_REQUEST", "PAGEFAULT_EVICTED_REQUEST_DONE"} => m.buf \in Bufs
    /\ m.msg \in {"EVICTED_REQUEST", "EVICTED_REQUEST_RET", "PAGEFAULT_EVICTED_REQUEST",
                  "PAGEFAULT_EVICTED_REQUEST_RET", "PAGEFAULT_EVICTED_REQUEST_DONE"}
           => m.cl \in Clients
    /\ m.ctx = "app" =>
          /\ m.blk \in Blocks
          /\ m.msg \in {"PULL_REQUEST", "PULL_REQUEST_RET", "CLIENT_DONE",
                        "PULL_REQUEST_BUT_NOT_PULL", "IBVREG_ERR"}
    /\ m.ctx = "mr" => m.msg = "EVICTED_REQUEST_RET"
    /\ m.phase = "connect" => m.ctx = NULL

ConnOK ==
    /\ conn \in [Initiators -> Connection]
    /\ \A i \in Initiators : Complete(conn[i])

NodesOK ==
    /\ in_node \in [Chunks -> InNode]
    /\ in_list \subseteq Chunks
    /\ in_tree \in [Blocks -> Chunks \cup {NULL}]
    /\ NodesComplete
    /\ InRemoteIndexSound

FaultOK == fault \in Fault /\ FaultComplete

MemoryOK ==
    /\ lru \in [Blocks -> LruStatus]
    /\ next_lru_data \in Blocks \cup {NULL}
    /\ in_remote_num \in Int
    /\ home \in [Blocks -> HomeState]
    /\ file \in [Blocks -> FileState]
    /\ to_ssd_num \in Int

(***************************************************************************)
(* The inductive invariant.  TypeOK alone is not inductive: a handler that *)
(* dereferences a missing address could store anything; and addresses are  *)
(* never missing because only allocated nodes are linked.                  *)
(***************************************************************************)
Inv ==
    /\ NodesOK
    /\ FaultOK
    /\ MemoryOK
    /\ ClientTypeOK
    /\ ConnOK
    /\ up \in BOOLEAN

-----------------------------------------------------------------------------
(* What the helpers of Migration keep: connections *)

LEMMA SetConn ==
    ASSUME ConnOK, NEW i \in Initiators, NEW m \in Connection, Complete(m),
           conn' = [conn EXCEPT ![i] = m]
    PROVE  ConnOK'
BY DEF ConnOK

LEMMA ConnUnchanged == ConnOK /\ UNCHANGED conn => ConnOK'
BY DEF ConnOK

LEMMA RequestKeeps ==
    ASSUME ConnOK, NEW i \in Initiators, NEW m \in MessageId,
           NEW c \in Clients \cup {NULL}, NEW b \in Blocks \cup {NULL},
           NEW a \in Bufs \cup {NULL}, NEW n \in Chunks \cup {NULL},
           m \in {"MEM_INFO", "PULL_REQUEST"} \/ (m = "EVICT_REQUEST" /\ b \in Blocks) \/
           (m \in {"EVICTED_REQUEST", "PAGEFAULT_EVICTED_REQUEST"} /\ c \in Clients /\ a \in Bufs),
           Request(i, m, c, b, a, n)
    PROVE  ConnOK'
<1> DEFINE r == [Idle EXCEPT !.phase = "connect", !.msg = m,
                                 !.cl = c, !.blk = b, !.buf = a, !.node = n]
<1>1. r \in Connection
  BY DEF Idle, Connection, Phase
<1>2. Complete(r)
  BY NullAssumption DEF Idle, Complete, MessageId
<1>3. conn' = [conn EXCEPT ![i] = r]
  BY DEF Request
<1>4. QED
  BY <1>1, <1>2, <1>3, SetConn

LEMMA SendKeeps ==
    ASSUME ConnOK, NEW i \in Initiators, NEW p \in Phase \ {"connect"}, NEW m \in MessageId,
           NEW b \in Blocks \cup {NULL}, NEW a \in Bufs \cup {NULL},
           Complete([conn[i] EXCEPT !.phase = p, !.msg = m, !.blk = b, !.buf = a]),
           Send(i, p, m, b, a)
    PROVE  ConnOK'
<1> DEFINE r == [conn[i] EXCEPT !.phase = p, !.msg = m, !.blk = b, !.buf = a]
<1>1. conn[i] \in Connection
  BY DEF ConnOK
<1>2. r \in Connection
  BY <1>1 DEF Connection
<1>3. Complete(r)
  OBVIOUS
<1>4. conn' = [conn EXCEPT ![i] = r]
  BY <1>1 DEF Send, ConnOK, Connection
<1>5. QED
  BY <1>2, <1>3, <1>4, SetConn

LEMMA SendHoldingKeeps ==
    ASSUME ConnOK, NEW i \in Initiators, NEW p \in Phase \ {"connect"}, NEW m \in MessageId,
           NEW b \in Blocks, NEW a \in Bufs \cup {NULL}, NEW x \in {"app", "mr"},
           Complete([conn[i] EXCEPT !.phase = p, !.msg = m, !.blk = b, !.buf = a, !.ctx = x]),
           SendHolding(i, p, m, b, a, x)
    PROVE  ConnOK'
<1> DEFINE r == [conn[i] EXCEPT !.phase = p, !.msg = m, !.blk = b, !.buf = a, !.ctx = x]
<1>1. conn[i] \in Connection
  BY DEF ConnOK
<1>2. r \in Connection
  BY <1>1 DEF Connection
<1>3. Complete(r)
  OBVIOUS
<1>4. conn' = [conn EXCEPT ![i] = r]
  BY <1>1 DEF SendHolding, ConnOK, Connection
<1>5. QED
  BY <1>2, <1>3, <1>4, SetConn

LEMMA ClosingKeeps ==
    ASSUME ConnOK, NEW i \in Initiators,
           Disconnect(i) \/ ClearAndDisconnect(i) \/ Hang(i)
    PROVE  ConnOK'
<1>1. conn[i] \in Connection /\ Complete(conn[i])
  BY DEF ConnOK
<1>2. PICK p \in {"closing", "hung"}, x \in {conn[i].ctx, NULL} :
         conn' = [conn EXCEPT ![i] = [conn[i] EXCEPT !.phase = p, !.ctx = x]]
  BY <1>1 DEF Disconnect, ClearAndDisconnect, Hang, Phase, ConnOK, Connection
<1> DEFINE r == [conn[i] EXCEPT !.phase = p, !.ctx = x]
<1>3. r \in Connection
  BY <1>1 DEF Connection, Phase
<1>4. Complete(r)
  BY <1>1, NullAssumption DEF Complete, Connection
<1>5. QED
  BY <1>2, <1>3, <1>4, SetConn

LEMMA IdleKeeps ==
    ASSUME ConnOK, NEW i \in Initiators, conn' = [conn EXCEPT ![i] = Idle]
    PROVE  ConnOK'
<1>1. Idle \in Connection
  BY DEF Idle, Connection, Phase
<1>2. Complete(Idle)
  BY NullAssumption DEF Idle, Complete, MessageId
<1>3. QED
  BY <1>1, <1>2, SetConn

-----------------------------------------------------------------------------
(* What the helpers keep: nodes *)

LEMMA NodesUnchanged == NodesOK /\ UNCHANGED <<in_node, in_list, in_tree>> => NodesOK'
BY DEF NodesOK, NodesComplete, InRemoteIndexSound

LEMMA LinkNodeKeeps ==
    ASSUME NodesOK, NEW n \in Chunks, NEW b \in Blocks, NEW c \in Clients, NEW a \in Bufs,
           ~in_node[n].alloc, LinkNode(n, b, c, a)
    PROVE  NodesOK'
<1>1. /\ in_node' \in [Chunks -> InNode]
      /\ in_list' \subseteq Chunks
      /\ in_tree' \in [Blocks -> Chunks \cup {NULL}]
  BY DEF NodesOK, LinkNode, InNode, NodeStatus
<1>2. NodesComplete'
  BY DEF NodesOK, NodesComplete, LinkNode, InNode, NodeStatus
<1>3. InRemoteIndexSound'
  BY DEF NodesOK, InRemoteIndexSound, LinkNode, InNode, NodeStatus
<1>4. QED
  BY <1>1, <1>2, <1>3 DEF NodesOK

LEMMA StatusKeeps ==
    ASSUME NodesOK, NEW n \in Chunks, NEW st \in NodeStatus,
           in_node' = [in_node EXCEPT ![n].status = st], UNCHANGED <<in_list, in_tree>>
    PROVE  NodesOK'
BY DEF NodesOK, NodesComplete, InRemoteIndexSound, InNode

(* A node found in the tree is unlinked, and freed or left to the fault thread. *)
LEMMA UnlinkKeeps ==
    ASSUME NodesOK, NEW b \in Blocks, in_tree[b] # NULL, Unlink(in_tree[b], b),
           \/ in_node' = [in_node EXCEPT ![in_tree[b]] = FreeNode]
           \/ MarkEvicted(in_tree[b])
    PROVE  NodesOK'
<1>1. in_tree[b] \in Chunks
  BY DEF NodesOK
<1>2. /\ in_node' \in [Chunks -> InNode]
      /\ in_list' \subseteq Chunks
      /\ in_tree' \in [Blocks -> Chunks \cup {NULL}]
  <2>1. FreeNode \in InNode
    BY DEF FreeNode, InNode, NodeStatus
  <2>2. [in_node[in_tree[b]] EXCEPT !.evicted = TRUE] \in InNode
    <3>1. in_node[in_tree[b]] \in InNode
      BY <1>1 DEF NodesOK
    <3>2. QED
      BY <3>1 DEF InNode
  <2>3. in_node' \in [Chunks -> InNode]
    BY <1>1, <2>1, <2>2 DEF NodesOK, MarkEvicted
  <2>4. QED
    BY <1>1, <2>3 DEF NodesOK, Unlink
<1>3. NodesComplete'
  BY <1>1 DEF NodesOK, NodesComplete, MarkEvicted, FreeNode, InNode
<1>4. InRemoteIndexSound'
  BY <1>1 DEF NodesOK, InRemoteIndexSound, Unlink, MarkEvicted, FreeNode, InNode
<1>5. QED
  BY <1>2, <1>3, <1>4 DEF NodesOK

(* pagefault_evicted_data, called on nodes that differ in a status at most. *)
LEMMA PagefaultEvictedDataKeeps ==
    ASSUME NodesOK, ConnOK, NEW b \in Blocks, NEW n \in Chunks, NEW st \in NodeStatus,
           UNCHANGED <<in_list, in_tree>>,
           PagefaultEvictedData([in_node EXCEPT ![n].status = st], b)
    PROVE  NodesOK' /\ ConnOK'
<1> DEFINE nodes == [in_node EXCEPT ![n].status = st]
           m == in_tree[b]
<1>1. CASE m # NULL /\ nodes[m].status = "EVICT_WAIT"
  <2>1. /\ in_node' = [nodes EXCEPT ![m].status = "EVICTING"]
        /\ Request("fault", "PAGEFAULT_EVICTED_REQUEST", nodes[m].ip, NULL, nodes[m].raddr, NULL)
    BY <1>1 DEF PagefaultEvictedData
  <2>2. m \in Chunks /\ in_node[m].alloc
    BY <1>1 DEF NodesOK, InRemoteIndexSound
  <2>3. nodes[m].ip \in Clients /\ nodes[m].raddr \in Bufs
    BY <2>2 DEF NodesOK, NodesComplete, InNode
  <2>4. ConnOK'
    BY <2>1, <2>3, RequestKeeps DEF Initiators, MessageId
  <2>5. NodesOK'
    <3>1. in_node' \in [Chunks -> InNode]
      BY <2>1, <2>2 DEF NodesOK, InNode, NodeStatus
    <3>2. \A x \in Chunks : /\ in_node'[x].blk = in_node[x].blk
                            /\ in_node'[x].ip = in_node[x].ip
                            /\ in_node'[x].raddr = in_node[x].raddr
                            /\ in_node'[x].alloc = in_node[x].alloc
                            /\ in_node'[x].evicted = in_node[x].evicted
      BY <2>1, <2>2 DEF NodesOK, InNode
    <3>3. QED
      BY <3>1, <3>2 DEF NodesOK, NodesComplete, InRemoteIndexSound
  <2>6. QED
    BY <2>4, <2>5
<1>2. CASE ~(m # NULL /\ nodes[m].status = "EVICT_WAIT")
  <2>1. in_node' = nodes /\ UNCHANGED conn
    BY <1>2 DEF PagefaultEvictedData
  <2>2. QED
    BY <2>1, StatusKeeps, ConnUnchanged
<1>3. QED
  BY <1>1, <1>2

-----------------------------------------------------------------------------
(* What the helpers keep: the rest of the owner, and the clients *)

LEMMA FaultUnchanged == FaultOK /\ UNCHANGED fault => FaultOK'
BY DEF FaultOK, FaultComplete

LEMMA NoFaultKeeps == fault' = NoFault => FaultOK'
BY DEF FaultOK, FaultComplete, NoFault, Fault

LEMMA MemoryUnchanged ==
    MemoryOK /\ UNCHANGED <<lru, next_lru_data, in_remote_num, memVars>> => MemoryOK'
BY DEF MemoryOK, memVars

LEMMA ClientUnchanged == ClientTypeOK /\ UNCHANGED clientVars => ClientTypeOK'
BY DEF ClientTypeOK, clientVars

LEMMA ReadResultType ==
    ASSUME NEW c, NEW b, NEW a, NEW late \in HomeState
    PROVE  ReadResult(c, b, a, late) \subseteq HomeState
BY DEF ReadResult, HomeState

LEMMA TakeBlockKeeps ==
    ASSUME ClientTypeOK, NEW c \in Clients, NEW b \in Blocks, NEW a \in Bufs,
           TakeBlock(c, b, a), UNCHANGED need_pulled
    PROVE  ClientTypeOK'
BY DEF ClientTypeOK, TakeBlock, FromNode, NodeStatus, Region

LEMMA ReleaseFromKeeps ==
    ASSUME ClientTypeOK, NEW c \in Clients, NEW a \in Bufs, ReleaseFrom(c, a),
           UNCHANGED need_pulled, mr' \in [Clients -> SUBSET Region]
    PROVE  ClientTypeOK'
<1>1. NoNode \in FromNode
  BY DEF NoNode, FromNode, NodeStatus
<1>2. from_remote' \in [Clients -> [Bufs -> FromNode]]
  BY <1>1 DEF ClientTypeOK, ReleaseFrom
<1>3. QED
  BY <1>2 DEF ClientTypeOK, ReleaseFrom

LEMMA LiveBlock ==
    ASSUME ClientTypeOK, NEW c \in Clients, NEW a \in Bufs, Live(c, a)
    PROVE  from_remote[c][a].blk \in Blocks
<1>1. from_remote[c][a] \in FromNode
  BY DEF ClientTypeOK
<1>2. QED
  BY <1>1 DEF FromNode, Live

LEMMA FromStatusKeeps ==
    ASSUME ClientTypeOK, NEW c \in Clients, NEW a \in Bufs, NEW st \in NodeStatus,
           from_remote' = [from_remote EXCEPT ![c][a].status = st],
           UNCHANGED <<from_remote_num, pulled_num, need_pulled, mr>>
    PROVE  ClientTypeOK'
<1>1. from_remote[c][a] \in FromNode
  BY DEF ClientTypeOK
<1>2. [from_remote[c][a] EXCEPT !.status = st] \in FromNode
  BY <1>1 DEF FromNode
<1>3. from_remote' \in [Clients -> [Bufs -> FromNode]]
  BY <1>2 DEF ClientTypeOK
<1>4. QED
  BY <1>3 DEF ClientTypeOK

LEMMA OwnerUnchanged ==
    NodesOK /\ FaultOK /\ MemoryOK /\ UNCHANGED <<ownerVars, memVars, fault>> =>
        NodesOK' /\ FaultOK' /\ MemoryOK'
BY NodesUnchanged, FaultUnchanged, MemoryUnchanged DEF ownerVars

-----------------------------------------------------------------------------
(* What the actions keep *)

LEMMA PullKeeps ==
    ASSUME Inv, NEW c \in Clients,
           \/ GetRemoteMemory(c) \/ OnConnectionMemInfo(c) \/ OnCompletionMemInfoRet(c)
           \/ PullData(c) \/ OnConnectionPull(c) \/ OnCompletionPullNotNeeded(c)
           \/ OnCompletionPullRet(c) \/ OnCompletionClientDone(c)
           \/ OnCompletionButNotPull(c) \/ CursorIsNull(c)
    PROVE  Inv'
<1> USE DEF Inv
<1>0. c \in Initiators /\ conn[c] \in Connection /\ Complete(conn[c])
  BY DEF Initiators, ConnOK
<1>1. CASE GetRemoteMemory(c) \/ PullData(c)
  <2>1. PICK m \in {"MEM_INFO", "PULL_REQUEST"} : Request(c, m, c, NULL, NULL, NULL)
    BY <1>1 DEF GetRemoteMemory, PullData
  <2>2. ConnOK'
    BY <1>0, <2>1, RequestKeeps DEF MessageId
  <2>3. QED
    BY <1>1, <2>2, OwnerUnchanged, ClientUnchanged DEF GetRemoteMemory, PullData
<1>2. CASE OnConnectionMemInfo(c)
  <2>1. Complete([conn[c] EXCEPT !.phase = "toInit", !.msg = "MEM_INFO_RET",
                                 !.blk = NULL, !.buf = NULL])
    BY <1>0, <1>2, NullAssumption DEF OnConnectionMemInfo, At, Complete, Connection
  <2>2. ConnOK'
    BY <1>0, <1>2, <2>1, SendKeeps DEF OnConnectionMemInfo, Phase, MessageId
  <2>3. QED
    BY <1>2, <2>2, OwnerUnchanged, ClientUnchanged DEF OnConnectionMemInfo
<1>3. CASE OnCompletionMemInfoRet(c) \/ OnCompletionPullNotNeeded(c)
  <2>1. ConnOK'
    BY <1>0, <1>3, ClosingKeeps DEF OnCompletionMemInfoRet, OnCompletionPullNotNeeded
  <2>2. ClientTypeOK'
    BY <1>3 DEF ClientTypeOK, OnCompletionMemInfoRet, OnCompletionPullNotNeeded
  <2>3. QED
    BY <1>3, <2>1, <2>2, OwnerUnchanged DEF OnCompletionMemInfoRet, OnCompletionPullNotNeeded
<1>4. CASE OnConnectionPull(c)
  <2>1. conn[c].ctx = NULL
    BY <1>0, <1>4 DEF OnConnectionPull, At, Complete
  <2>2. ASSUME NEW m \in {"PULL_REQUEST_RET_NO_DATA", "PULL_REQUEST_RET_NOT_NEED"},
               Send(c, "toInit", m, NULL, NULL)
        PROVE  ConnOK'
    <3>1. Complete([conn[c] EXCEPT !.phase = "toInit", !.msg = m, !.blk = NULL, !.buf = NULL])
      BY <1>0, <2>1, NullAssumption DEF Complete, Connection
    <3>2. QED
      BY <1>0, <2>2, <3>1, SendKeeps DEF Phase, MessageId
  <2>3. ASSUME NEW b \in Blocks, NEW p \in {"toInit", "closing"},
               NEW m \in {"PULL_REQUEST", "PULL_REQUEST_RET"},
               SendHolding(c, p, m, b, NULL, "app")
        PROVE  ConnOK'
    <3>1. Complete([conn[c] EXCEPT !.phase = p, !.msg = m, !.blk = b, !.buf = NULL,
                                   !.ctx = "app"])
      BY <1>0, NullAssumption DEF Complete, Connection
    <3>2. QED
      BY <1>0, <2>3, <3>1, SendHoldingKeeps DEF Phase, MessageId
  <2>4. ConnOK'
    BY <1>4, <2>2, <2>3 DEF OnConnectionPull, Waiting
  <2>5. MemoryOK'
    BY <1>4 DEF OnConnectionPull, MemoryOK, memVars, LruStatus, Waiting
  <2>6. QED
    BY <1>4, <2>4, <2>5, NodesUnchanged, FaultUnchanged, ClientUnchanged DEF OnConnectionPull
<1>5. CASE OnCompletionPullRet(c)
  <2>1. conn[c].msg = "PULL_REQUEST_RET" /\ conn[c].blk \in Blocks
    BY <1>0, <1>5 DEF OnCompletionPullRet, At, Complete
  <2>2. ASSUME NEW a \in Bufs \cup {NULL},
               NEW m \in {"CLIENT_DONE", "PULL_REQUEST_BUT_NOT_PULL", "IBVREG_ERR"},
               m = "CLIENT_DONE" => a \in Bufs,
               Send(c, "toAcc", m, conn[c].blk, a)
        PROVE  ConnOK'
    <3>1. Complete([conn[c] EXCEPT !.phase = "toAcc", !.msg = m, !.blk = conn[c].blk, !.buf = a])
      BY <1>0, <2>1, <2>2 DEF Complete, Connection
    <3>2. QED
      BY <1>0, <2>1, <2>2, <3>1, SendKeeps DEF Phase, MessageId
  <2>3. ConnOK'
    BY <1>5, <2>2 DEF OnCompletionPullRet
  <2>4. ClientTypeOK'
    <3>1. CASE \E a \in Bufs : TakeBlock(c, conn[c].blk, a)
      BY <1>5, <2>1, <3>1, TakeBlockKeeps DEF OnCompletionPullRet
    <3>2. CASE UNCHANGED <<from_remote, from_remote_num, pulled_num, mr>>
      BY <1>5, <3>2, ClientUnchanged DEF OnCompletionPullRet, clientVars
    <3>3. QED
      BY <1>5, <3>1, <3>2 DEF OnCompletionPullRet
  <2>5. QED
    BY <1>5, <2>3, <2>4, OwnerUnchanged DEF OnCompletionPullRet
<1>6. CASE OnCompletionClientDone(c)
  <2>1. conn[c].blk \in Blocks /\ conn[c].buf \in Bufs
    BY <1>0, <1>6 DEF OnCompletionClientDone, At, Complete
  <2>2. NodesOK'
    BY <1>6, <2>1, LinkNodeKeeps DEF OnCompletionClientDone
  <2>3. MemoryOK'
    <3>1. in_remote_num' = in_remote_num + 1
      BY <1>6 DEF OnCompletionClientDone, LinkNode
    <3>2. home' \in [Blocks -> HomeState]
      BY <1>6, <2>1 DEF OnCompletionClientDone, MemoryOK, HomeState
    <3>3. QED
      BY <1>6, <3>1, <3>2 DEF OnCompletionClientDone, MemoryOK, LruStatus
  <2>4. ConnOK'
    BY <1>0, <1>6, ClosingKeeps DEF OnCompletionClientDone
  <2>5. QED
    BY <1>6, <2>2, <2>3, <2>4, FaultUnchanged, ClientUnchanged DEF OnCompletionClientDone
<1>7. CASE OnCompletionButNotPull(c)
  <2>1. MemoryOK'
    BY <1>7 DEF OnCompletionButNotPull, MemoryOK, memVars, LruStatus
  <2>2. ConnOK'
    BY <1>0, <1>7, ClosingKeeps DEF OnCompletionButNotPull
  <2>3. QED
    BY <1>7, <2>1, <2>2, NodesUnchanged, FaultUnchanged, ClientUnchanged
       DEF OnCompletionButNotPull
<1>8. CASE CursorIsNull(c)
  BY <1>8, OwnerUnchanged, ClientUnchanged, ConnUnchanged DEF CursorIsNull, Crash
<1>9. QED
  BY <1>1, <1>2, <1>3, <1>4, <1>5, <1>6, <1>7, <1>8

LEMMA EvictKeeps ==
    ASSUME Inv, NEW c \in Clients,
           EvictData(c) \/ OnConnectionEvict(c) \/ OnCompletionEvictRet(c)
    PROVE  Inv'
<1> USE DEF Inv
<1>0. c \in Initiators /\ conn[c] \in Connection /\ Complete(conn[c])
  BY DEF Initiators, ConnOK
<1>1. CASE EvictData(c)
  <2>1. PICK a \in Held(c) :
          /\ from_remote' = [from_remote EXCEPT ![c][a].status = "EVICTING"]
          /\ Request(c, "EVICT_REQUEST", c, from_remote[c][a].blk, NULL, NULL)
    BY <1>1 DEF EvictData
  <2>2. from_remote[c][a].blk \in Blocks
    BY <2>1 DEF Held, Live, ClientTypeOK, FromNode
  <2>3. ConnOK'
    BY <1>0, <2>1, <2>2, RequestKeeps DEF MessageId
  <2>4. ClientTypeOK'
    BY <1>1, <2>1, FromStatusKeeps DEF EvictData, Held, NodeStatus
  <2>5. QED
    BY <1>1, <2>3, <2>4, OwnerUnchanged DEF EvictData
<1>2. CASE OnConnectionEvict(c)
  <2> DEFINE b == conn[c].blk
             n == in_tree[b]
  <2>1. b \in Blocks
    BY <1>0, <1>2 DEF OnConnectionEvict, At, Complete
  <2>2. CASE n = NULL /\ Hang(c) /\ UNCHANGED <<lru, in_node, in_list, in_tree, in_remote_num, home>>
    BY <1>0, <1>2, <2>2, ClosingKeeps, OwnerUnchanged, ClientUnchanged
       DEF OnConnectionEvict, ownerVars, memVars
  <2> DEFINE Fails == /\ in_node' = [in_node EXCEPT ![n].status = "EVICTING"]
                      /\ Send(c, "toInit", "IBVREG_ERR", b, NULL)
                      /\ UNCHANGED <<lru, in_list, in_tree, in_remote_num, home>>
  <2>3. CASE n # NULL /\ Fails
    <3>1. NodesOK'
      BY <2>1, <2>3, StatusKeeps DEF NodesOK, NodeStatus
    <3>2. Complete([conn[c] EXCEPT !.phase = "toInit", !.msg = "IBVREG_ERR", !.blk = b, !.buf = NULL])
      BY <1>0, <1>2, <2>1 DEF OnConnectionEvict, At, Complete, Connection
    <3>3. ConnOK'
      BY <1>0, <2>1, <2>3, <3>2, SendKeeps DEF Phase, MessageId
    <3>4. QED
      BY <1>2, <2>3, <3>1, <3>3, FaultUnchanged, MemoryUnchanged, ClientUnchanged
         DEF OnConnectionEvict, memVars
  <2> DEFINE Succeeds ==
               /\ BringHome(n, b, ReadResult(c, b, in_node[n].raddr, "junk"))
               /\ in_remote_num' = in_remote_num - 1
               /\ IF [buf |-> in_node[n].raddr, blk |-> b] \in mr[c]
                  THEN Send(c, "toInit", "EVICT_REQUEST_RET", b, in_node[n].raddr)
                  ELSE Hang(c)
  <2>4. CASE n # NULL /\ Succeeds
    <3>1. NodesOK'
      BY <2>1, <2>4, UnlinkKeeps DEF BringHome
    <3>2. in_node[n].raddr \in Bufs
      BY <2>1, <2>4 DEF NodesOK, InRemoteIndexSound, NodesComplete
    <3>3. Complete([conn[c] EXCEPT !.phase = "toInit", !.msg = "EVICT_REQUEST_RET", !.blk = b,
                                   !.buf = in_node[n].raddr])
      BY <1>0, <1>2, <2>1, <3>2 DEF OnConnectionEvict, At, Complete, Connection
    <3>4. ConnOK'
      BY <1>0, <2>1, <2>4, <3>2, <3>3, SendKeeps, ClosingKeeps DEF Phase, MessageId
    <3>5. home' \in [Blocks -> HomeState]
      BY <2>1, <2>4, ReadResultType DEF BringHome, MemoryOK, HomeState
    <3>6. MemoryOK'
      <4>1. lru' \in [Blocks -> LruStatus]
        BY <2>1, <2>4 DEF BringHome, MemoryOK, LruStatus
      <4>2. in_remote_num' \in Int
        BY <2>4 DEF MemoryOK
      <4>3. QED
        BY <1>2, <3>5, <4>1, <4>2 DEF OnConnectionEvict, MemoryOK
    <3>7. QED
      BY <1>2, <3>1, <3>4, <3>6, FaultUnchanged, ClientUnchanged DEF OnConnectionEvict
  <2>5. QED
    BY <1>2, <2>2, <2>3, <2>4 DEF OnConnectionEvict
<1>3. CASE OnCompletionEvictRet(c)
  <2>1. conn[c].buf \in Bufs
    BY <1>0, <1>3 DEF OnCompletionEvictRet, At, Complete
  <2>2. ConnOK'
    BY <1>0, <1>3, ClosingKeeps DEF OnCompletionEvictRet
  <2>3. ClientTypeOK'
    <3>1. CASE UNCHANGED <<from_remote, from_remote_num, pulled_num, mr>>
      BY <1>3, <3>1, ClientUnchanged DEF OnCompletionEvictRet, clientVars
    <3>2. CASE /\ ReleaseFrom(c, conn[c].buf)
               /\ mr' = [mr EXCEPT ![c] = @ \ {[buf |-> conn[c].buf,
                                                blk |-> from_remote[c][conn[c].buf].blk]}]
      <4>1. mr' \in [Clients -> SUBSET Region]
        BY <3>2 DEF ClientTypeOK
      <4>2. QED
        BY <1>3, <2>1, <3>2, <4>1, ReleaseFromKeeps DEF OnCompletionEvictRet
    <3>3. QED
      BY <1>3, <3>1, <3>2 DEF OnCompletionEvictRet
  <2>4. QED
    BY <1>3, <2>2, <2>3, OwnerUnchanged DEF OnCompletionEvictRet
<1>4. QED
  BY <1>1, <1>2, <1>3

LEMMA EvictedKeeps ==
    ASSUME Inv, EvictedData \/ OnConnectionEvicted \/ OnCompletionEvictedRet
    PROVE  Inv'
<1> USE DEF Inv
<1>0. "main" \in Initiators /\ conn["main"] \in Connection /\ Complete(conn["main"])
  BY DEF Initiators, ConnOK
<1>1. CASE EvictedData
  <2>1. PICK n \in in_list :
          /\ in_node' = [in_node EXCEPT ![n].status = "EVICTING"]
          /\ Request("main", "EVICTED_REQUEST", in_node[n].ip, NULL, in_node[n].raddr, n)
    BY <1>1 DEF EvictedData
  <2>2. n \in Chunks /\ in_node[n].ip \in Clients /\ in_node[n].raddr \in Bufs
    BY <2>1 DEF NodesOK, InRemoteIndexSound, NodesComplete
  <2>3. ConnOK'
    BY <1>0, <2>1, <2>2, RequestKeeps DEF MessageId
  <2>4. NodesOK'
    BY <1>1, <2>1, <2>2, StatusKeeps DEF EvictedData, NodeStatus
  <2>5. QED
    BY <1>1, <2>3, <2>4, FaultUnchanged, MemoryUnchanged, ClientUnchanged DEF EvictedData
<1>2. CASE OnConnectionEvicted
  <2> DEFINE c == conn["main"].cl
             a == conn["main"].buf
  <2>1. c \in Clients /\ a \in Bufs
    BY <1>0, <1>2 DEF OnConnectionEvicted, At, Complete
  <2>2. CASE Hang("main") /\ UNCHANGED <<from_remote, from_remote_num, pulled_num>>
    BY <1>0, <1>2, <2>2, ClosingKeeps, OwnerUnchanged, ClientUnchanged
       DEF OnConnectionEvicted, clientVars
  <2>3. CASE /\ Live(c, a)
             /\ ReleaseFrom(c, a)
             /\ SendHolding("main", "toInit", "EVICTED_REQUEST_RET", from_remote[c][a].blk, a, "mr")
    <3>1. from_remote[c][a].blk \in Blocks
      BY <2>1, <2>3, LiveBlock
    <3>2. Complete([conn["main"] EXCEPT !.phase = "toInit", !.msg = "EVICTED_REQUEST_RET",
                      !.blk = from_remote[c][a].blk, !.buf = a, !.ctx = "mr"])
      BY <1>0, <2>1, <3>1, NullAssumption DEF Complete, Connection
    <3>3. ConnOK'
      BY <1>0, <2>1, <2>3, <3>1, <3>2, SendHoldingKeeps DEF Phase, MessageId
    <3>4. ClientTypeOK'
      BY <1>2, <2>1, <2>3, ReleaseFromKeeps DEF OnConnectionEvicted, ClientTypeOK
    <3>5. QED
      BY <1>2, <3>3, <3>4, OwnerUnchanged DEF OnConnectionEvicted
  <2>4. QED
    BY <1>2, <2>2, <2>3 DEF OnConnectionEvicted
<1>3. CASE OnCompletionEvictedRet
  <2> DEFINE b == conn["main"].blk
             n == in_tree[b]
  <2>1. b \in Blocks
    BY <1>0, <1>3 DEF OnCompletionEvictedRet, At, Complete
  <2>2. ConnOK'
    BY <1>0, <1>3, ClosingKeeps DEF OnCompletionEvictedRet
  <2>3. CASE UNCHANGED <<lru, in_node, in_list, in_tree, home>>
    <3>1. MemoryOK'
      BY <1>3, <2>3 DEF OnCompletionEvictedRet, MemoryOK
    <3>2. QED
      BY <1>3, <2>2, <2>3, <3>1, NodesUnchanged, FaultUnchanged, ClientUnchanged
         DEF OnCompletionEvictedRet
  <2>4. CASE n # NULL /\ \E h \in {{"data"}, {"junk"}} : BringHome(n, b, h)
    <3>1. NodesOK'
      BY <2>1, <2>4, UnlinkKeeps DEF BringHome
    <3>2. home' \in [Blocks -> HomeState]
      BY <2>1, <2>4 DEF BringHome, MemoryOK, HomeState
    <3>3. MemoryOK'
      BY <1>3, <2>1, <2>4, <3>2 DEF OnCompletionEvictedRet, BringHome, MemoryOK, LruStatus
    <3>4. QED
      BY <1>3, <2>2, <3>1, <3>3, FaultUnchanged, ClientUnchanged DEF OnCompletionEvictedRet
  <2>5. QED
    BY <1>3, <2>3, <2>4 DEF OnCompletionEvictedRet
<1>4. QED
  BY <1>1, <1>2, <1>3

LEMMA FaultKeeps ==
    ASSUME Inv, (\E b \in Blocks : FaultRead(b)) \/ FaultHandler
    PROVE  Inv'
<1> USE DEF Inv
<1>0. "fault" \in Initiators /\ conn["fault"] \in Connection /\ Complete(conn["fault"])
  BY DEF Initiators, ConnOK
<1>1. CASE \E b \in Blocks : FaultRead(b)
  <2>1. FaultOK'
    BY <1>1 DEF FaultRead, FaultOK, FaultComplete, Fault, NoFault
  <2>2. QED
    BY <1>1, <2>1, NodesUnchanged, MemoryUnchanged, ClientUnchanged, ConnUnchanged
       DEF FaultRead, ownerVars
<1>2. CASE FaultSearchRemote
  <2>1. fault.blk \in Blocks
    BY <1>2 DEF FaultSearchRemote, FaultOK, FaultComplete
  <2>2. PICK n \in in_list : fault' = [fault EXCEPT !.pc = "poll", !.curr = n]
    BY <1>2 DEF FaultSearchRemote
  <2>3. n \in Chunks /\ in_node[n].status \in NodeStatus
    BY <2>2 DEF NodesOK, InNode
  <2>4. in_node = [in_node EXCEPT ![n].status = in_node[n].status]
    BY <2>3 DEF NodesOK, InNode
  <2>5. NodesOK' /\ ConnOK'
    BY <1>2, <2>1, <2>3, <2>4, PagefaultEvictedDataKeeps DEF FaultSearchRemote
  <2>6. FaultOK'
    BY <2>1, <2>2, <2>3 DEF FaultOK, FaultComplete, Fault
  <2>7. QED
    BY <1>2, <2>5, <2>6, MemoryUnchanged, ClientUnchanged DEF FaultSearchRemote
<1>3. CASE FaultSearchDisk
  <2>1. fault.blk \in Blocks
    BY <1>3 DEF FaultSearchDisk, FaultOK, FaultComplete
  <2>2. FaultOK'
    BY <1>3, NoFaultKeeps, FaultUnchanged DEF FaultSearchDisk, Crash
  <2>3. MemoryOK'
    BY <1>3, <2>1 DEF FaultSearchDisk, Crash, MemoryOK, ownerVars, memVars, LruStatus, HomeState,
                      FileState
  <2>4. QED
    BY <1>3, <2>2, <2>3, NodesUnchanged, ClientUnchanged, ConnUnchanged
       DEF FaultSearchDisk, Crash, ownerVars
<1>4. CASE OnConnectionPagefault
  <2> DEFINE c == conn["fault"].cl
             a == conn["fault"].buf
  <2>1. c \in Clients /\ a \in Bufs
    BY <1>0, <1>4 DEF OnConnectionPagefault, At, Complete
  <2>2. CASE Disconnect("fault") /\ UNCHANGED from_remote
    BY <1>0, <1>4, <2>2, ClosingKeeps, OwnerUnchanged, ClientUnchanged
       DEF OnConnectionPagefault, clientVars
  <2>3. CASE /\ Live(c, a)
             /\ from_remote' = [from_remote EXCEPT ![c][a].status = "EVICTING"]
             /\ Send("fault", "toInit", "PAGEFAULT_EVICTED_REQUEST_RET",
                     from_remote[c][a].blk, NULL)
    <3>1. from_remote[c][a].blk \in Blocks
      BY <2>1, <2>3, LiveBlock
    <3>2. Complete([conn["fault"] EXCEPT !.phase = "toInit",
             !.msg = "PAGEFAULT_EVICTED_REQUEST_RET", !.blk = from_remote[c][a].blk, !.buf = NULL])
      BY <1>0, <1>4, <2>1, <3>1, NullAssumption DEF OnConnectionPagefault, At, Complete, Connection
    <3>3. ConnOK'
      BY <1>0, <2>3, <3>1, <3>2, SendKeeps DEF Phase, MessageId
    <3>4. ClientTypeOK'
      BY <1>4, <2>1, <2>3, FromStatusKeeps DEF OnConnectionPagefault, NodeStatus
    <3>5. QED
      BY <1>4, <3>3, <3>4, OwnerUnchanged DEF OnConnectionPagefault
  <2>4. QED
    BY <1>4, <2>2, <2>3 DEF OnConnectionPagefault
<1>5. CASE OnCompletionPagefaultRet
  <2> DEFINE b == conn["fault"].blk
             c == conn["fault"].cl
             n == in_tree[b]
  <2>1. b \in Blocks /\ c \in Clients
    BY <1>0, <1>5 DEF OnCompletionPagefaultRet, At, Complete
  <2>2. CASE Disconnect("fault") /\ UNCHANGED <<in_node, in_list, in_tree, in_remote_num, home>>
    BY <1>0, <1>5, <2>2, ClosingKeeps, OwnerUnchanged, ClientUnchanged
       DEF OnCompletionPagefaultRet, ownerVars, memVars
  <2> DEFINE Fails == /\ home' = [home EXCEPT ![b] = "junk"]
                      /\ Send("fault", "toAcc", "IBVREG_ERR", b, NULL)
                      /\ UNCHANGED <<in_node, in_list, in_tree, in_remote_num>>
  <2>3. CASE Fails
    <3>1. Complete([conn["fault"] EXCEPT !.phase = "toAcc", !.msg = "IBVREG_ERR", !.blk = b,
                                         !.buf = NULL])
      BY <1>0, <1>5, <2>1, NullAssumption DEF OnCompletionPagefaultRet, At, Complete, Connection
    <3>2. ConnOK'
      BY <1>0, <2>1, <2>3, <3>1, SendKeeps DEF Phase, MessageId
    <3>3. MemoryOK'
      BY <1>5, <2>1, <2>3 DEF OnCompletionPagefaultRet, MemoryOK, HomeState
    <3>4. QED
      BY <1>5, <2>3, <3>2, <3>3, NodesUnchanged, FaultUnchanged, ClientUnchanged
         DEF OnCompletionPagefaultRet
  <2> DEFINE Succeeds ==
               /\ Unlink(n, b)
               /\ MarkEvicted(n)
               /\ in_remote_num' = in_remote_num - 1
               /\ \E h \in ReadResult(c, b, in_node[n].raddr, "filling") :
                      home' = [home EXCEPT ![b] = h]
               /\ IF [buf |-> in_node[n].raddr, blk |-> b] \in mr[c]
                  THEN Send("fault", "toAcc", "PAGEFAULT_EVICTED_REQUEST_DONE", b, in_node[n].raddr)
                  ELSE Hang("fault")
  <2>4. CASE n # NULL /\ Succeeds
    <3>1. NodesOK'
      BY <2>1, <2>4, UnlinkKeeps
    <3>2. in_node[n].raddr \in Bufs
      BY <2>1, <2>4 DEF NodesOK, InRemoteIndexSound, NodesComplete
    <3>3. Complete([conn["fault"] EXCEPT !.phase = "toAcc",
             !.msg = "PAGEFAULT_EVICTED_REQUEST_DONE", !.blk = b, !.buf = in_node[n].raddr])
      BY <1>0, <1>5, <2>1, <3>2 DEF OnCompletionPagefaultRet, At, Complete, Connection
    <3>4. ConnOK'
      BY <1>0, <2>1, <2>4, <3>2, <3>3, SendKeeps, ClosingKeeps DEF Phase, MessageId
    <3>5. home' \in [Blocks -> HomeState]
      BY <2>1, <2>4, ReadResultType DEF MemoryOK, HomeState
    <3>6. MemoryOK'
      <4>1. in_remote_num' \in Int
        BY <2>4 DEF MemoryOK
      <4>2. QED
        BY <1>5, <3>5, <4>1 DEF OnCompletionPagefaultRet, MemoryOK
    <3>7. QED
      BY <1>5, <3>1, <3>4, <3>6, FaultUnchanged, ClientUnchanged DEF OnCompletionPagefaultRet
  <2>5. QED
    BY <1>5, <2>2, <2>3, <2>4 DEF OnCompletionPagefaultRet
<1>6. CASE OnCompletionPagefaultDone
  <2>1. conn["fault"].cl \in Clients /\ conn["fault"].buf \in Bufs
    BY <1>0, <1>6 DEF OnCompletionPagefaultDone, At, Complete
  <2>2. ConnOK'
    BY <1>0, <1>6, ClosingKeeps DEF OnCompletionPagefaultDone
  <2>3. ClientTypeOK'
    <3>1. CASE ReleaseFrom(conn["fault"].cl, conn["fault"].buf)
      BY <1>6, <2>1, <3>1, ReleaseFromKeeps DEF OnCompletionPagefaultDone, ClientTypeOK
    <3>2. CASE UNCHANGED <<from_remote, from_remote_num, pulled_num>>
      BY <1>6, <3>2, ClientUnchanged DEF OnCompletionPagefaultDone, clientVars
    <3>3. QED
      BY <1>6, <3>1, <3>2 DEF OnCompletionPagefaultDone
  <2>4. QED
    BY <1>6, <2>2, <2>3, OwnerUnchanged DEF OnCompletionPagefaultDone
<1>7. CASE FaultDone
  <2>1. fault.curr \in Chunks /\ fault.curr \notin in_list
    BY <1>7 DEF FaultDone, FaultOK, FaultComplete, NodesOK, InRemoteIndexSound
  <2>2. FreeNode \in InNode
    BY DEF FreeNode, InNode, NodeStatus
  <2>3. in_node' \in [Chunks -> InNode]
    BY <1>7, <2>2 DEF FaultDone, NodesOK
  <2>4. NodesComplete'
    BY <1>7, <2>1 DEF FaultDone, NodesOK, NodesComplete, FreeNode
  <2>5. InRemoteIndexSound'
    BY <1>7, <2>1 DEF FaultDone, NodesOK, InRemoteIndexSound
  <2>6. NodesOK' /\ FaultOK'
    BY <1>7, <2>3, <2>4, <2>5, NoFaultKeeps DEF FaultDone, NodesOK
  <2>7. QED
    BY <1>7, <2>6, MemoryUnchanged, ClientUnchanged, ConnUnchanged DEF FaultDone
<1>8. CASE FaultRetry
  <2>1. fault.curr \in Chunks /\ in_node[fault.curr].alloc
    BY <1>8 DEF FaultRetry, FaultOK, FaultComplete
  <2>2. in_node[fault.curr].blk \in Blocks
    BY <2>1 DEF NodesOK, NodesComplete
  <2>3. NodesOK' /\ ConnOK'
    BY <1>8, <2>1, <2>2, PagefaultEvictedDataKeeps DEF FaultRetry, NodeStatus
  <2>4. QED
    BY <1>8, <2>3, FaultUnchanged, MemoryUnchanged, ClientUnchanged DEF FaultRetry
<1>9. CASE FaultDoubleFree
  BY <1>9, OwnerUnchanged, ClientUnchanged, ConnUnchanged DEF FaultDoubleFree, Crash
<1>10. QED
  BY <1>1, <1>2, <1>3, <1>4, <1>5, <1>6, <1>7, <1>8, <1>9 DEF FaultHandler

LEMMA DiskKeeps ==
    ASSUME Inv, ToSsdBegin \/ \E b \in Blocks : ReadLands(b) \/ ToSsdEnd(b)
    PROVE  Inv'
<1> USE DEF Inv
<1>1. CASE ToSsdBegin
  <2>1. MemoryOK'
    BY <1>1 DEF ToSsdBegin, Waiting, MemoryOK, memVars, LruStatus
  <2>2. QED
    BY <1>1, <2>1, NodesUnchanged, FaultUnchanged, ClientUnchanged, ConnUnchanged DEF ToSsdBegin
<1>2. ASSUME NEW b \in Blocks, ReadLands(b)
      PROVE  Inv'
  <2>1. MemoryOK'
    BY <1>2 DEF ReadLands, MemoryOK, ownerVars, HomeState
  <2>2. QED
    BY <1>2, <2>1, NodesUnchanged, FaultUnchanged, ClientUnchanged, ConnUnchanged
       DEF ReadLands, ownerVars
<1>3. ASSUME NEW b \in Blocks, ToSsdEnd(b)
      PROVE  Inv'
  <2>1. lru' \in [Blocks -> LruStatus] /\ next_lru_data' = next_lru_data
    BY <1>3 DEF ToSsdEnd, MemoryOK, LruStatus
  <2>2. in_remote_num' = in_remote_num /\ to_ssd_num' \in Int
    BY <1>3 DEF ToSsdEnd, MemoryOK
  <2>3. home' \in [Blocks -> HomeState]
    BY <1>3 DEF ToSsdEnd, MemoryOK, HomeState
  <2>4. file' \in [Blocks -> FileState]
    BY <1>3 DEF ToSsdEnd, MemoryOK, FileState
  <2>5. MemoryOK'
    BY <2>1, <2>2, <2>3, <2>4 DEF MemoryOK
  <2>6. QED
    BY <1>3, <2>5, NodesUnchanged, FaultUnchanged, ClientUnchanged, ConnUnchanged DEF ToSsdEnd
<1>4. QED
  BY <1>1, <1>2, <1>3

LEMMA ConnectionKeeps ==
    ASSUME Inv, NEW i \in Initiators,
           OnCompletionRegErr(i) \/ OnDisconnect(i) \/ ConnectFails(i)
    PROVE  Inv'
<1> USE DEF Inv
<1>0. conn[i] \in Connection /\ Complete(conn[i])
  BY DEF ConnOK
<1>1. CASE OnCompletionRegErr(i)
  BY <1>1, ClosingKeeps, OwnerUnchanged, ClientUnchanged DEF OnCompletionRegErr
<1>2. CASE OnDisconnect(i)
  <2>1. ConnOK'
    BY <1>2, IdleKeeps DEF OnDisconnect
  <2>2. MemoryOK'
    <3>1. home' \in [Blocks -> HomeState]
      BY <1>0, <1>2 DEF OnDisconnect, Complete, MemoryOK, HomeState
    <3>2. QED
      BY <1>2, <3>1 DEF OnDisconnect, MemoryOK, ownerVars
  <2>3. ClientTypeOK'
    BY <1>2 DEF OnDisconnect, ClientTypeOK
  <2>4. QED
    BY <1>2, <2>1, <2>2, <2>3, NodesUnchanged, FaultUnchanged DEF OnDisconnect, ownerVars
<1>3. CASE ConnectFails(i)
  BY <1>3, IdleKeeps, OwnerUnchanged, ClientUnchanged DEF ConnectFails
<1>4. QED
  BY <1>1, <1>2, <1>3

LEMMA InitInv == Init => Inv
<1> SUFFICES ASSUME Init PROVE Inv
  OBVIOUS
<1>1. NodesOK
  <2>1. FreeNode \in InNode /\ FreeNode.alloc = FALSE
    BY DEF FreeNode, InNode, NodeStatus
  <2>2. QED
    BY <2>1 DEF Init, NodesOK, NodesComplete, InRemoteIndexSound
<1>2. FaultOK
  BY DEF Init, FaultOK, FaultComplete, NoFault, Fault
<1>3. MemoryOK
  BY DEF Init, MemoryOK, LruStatus, HomeState, FileState
<1>4. ClientTypeOK
  <2>1. NoNode \in FromNode
    BY DEF NoNode, FromNode, NodeStatus
  <2>2. QED
    BY <2>1 DEF Init, ClientTypeOK
<1>5. ConnOK
  <2>1. Idle \in Connection /\ Complete(Idle)
    BY NullAssumption DEF Idle, Connection, Phase, Complete, MessageId
  <2>2. QED
    BY <2>1 DEF Init, ConnOK
<1>6. QED
  BY <1>1, <1>2, <1>3, <1>4, <1>5 DEF Init, Inv

LEMMA NextKeeps == Inv /\ [Next]_vars => Inv'
<1> SUFFICES ASSUME Inv, [Next]_vars PROVE Inv'
  OBVIOUS
<1>1. CASE Start
  BY <1>1, PullKeeps, EvictKeeps, EvictedKeeps, FaultKeeps, DiskKeeps DEF Start
<1>2. CASE Handle
  BY <1>2, PullKeeps, EvictKeeps, EvictedKeeps, FaultKeeps, DiskKeeps, ConnectionKeeps
     DEF Handle, ClientHandler, EvictedHandler
<1>3. CASE UNCHANGED vars
  BY <1>3, OwnerUnchanged, ClientUnchanged, ConnUnchanged DEF Inv, vars
<1>4. QED
  BY <1>1, <1>2, <1>3 DEF Next

LEMMA SpecInv == Spec => []Inv
BY InitInv, NextKeeps, PTL DEF Spec

LEMMA InvTypeOK == Inv => TypeOK
BY DEF Inv, NodesOK, FaultOK, MemoryOK, ConnOK, TypeOK, OwnerTypeOK

(***************************************************************************)
(* Type correctness: whatever the number of machines, blocks and buffers,  *)
(* every variable keeps its type.                                          *)
(***************************************************************************)
THEOREM TypeCorrect == Spec => []TypeOK
BY SpecInv, InvTypeOK, PTL

(***************************************************************************)
(* The owner's tree and list agree, and nothing in them has been freed.    *)
(***************************************************************************)
THEOREM IndexCorrect == Spec => []InRemoteIndexSound
<1>1. Inv => InRemoteIndexSound
  BY DEF Inv, NodesOK
<1>2. QED
  BY <1>1, SpecInv, PTL

-----------------------------------------------------------------------------
(* The clients' counters *)

Counts == <<from_remote, from_remote_num, pulled_num>>

LEMMA HeldFinite == ASSUME NEW c PROVE IsFiniteSet(Held(c))
<1>1. Held(c) \subseteq Bufs
  BY DEF Held
<1>2. QED
  BY <1>1, FinitenessAssumption, FS_Subset

LEMMA BooksUnchanged ==
    ASSUME ClientBooks, \A c \in Clients : Held(c)' = Held(c),
           UNCHANGED <<from_remote_num, pulled_num>>
    PROVE  ClientBooks'
BY DEF ClientBooks

LEMMA BooksStutter == ClientBooks /\ UNCHANGED Counts => ClientBooks'
BY DEF Counts, ClientBooks, Held, Live

LEMMA TakeBlockBooks ==
    ASSUME Inv, ClientBooks, NEW c \in Clients, NEW b \in Blocks, NEW a \in Bufs,
           TakeBlock(c, b, a)
    PROVE  ClientBooks'
<1>1. b # NULL /\ a \notin Held(c)
  BY NullAssumption DEF TakeBlock, Held
<1>2. Held(c)' = Held(c) \cup {a}
  BY <1>1 DEF Held, Live, TakeBlock, Inv, ClientTypeOK
<1>3. \A e \in Clients \ {c} : Held(e)' = Held(e)
  BY DEF Held, Live, TakeBlock, Inv, ClientTypeOK
<1>4. Cardinality(Held(c)') = Cardinality(Held(c)) + 1
  BY <1>1, <1>2, HeldFinite, FS_AddElement
<1>5. QED
  BY <1>3, <1>4 DEF TakeBlock, ClientBooks, Inv, ClientTypeOK

LEMMA ReleaseFromBooks ==
    ASSUME Inv, ClientBooks, NEW c \in Clients, NEW a \in Bufs, Live(c, a), ReleaseFrom(c, a)
    PROVE  ClientBooks'
<1>1. a \in Held(c)
  BY DEF Held
<1>2. Held(c)' = Held(c) \ {a}
  BY DEF Held, Live, ReleaseFrom, NoNode, Inv, ClientTypeOK
<1>3. \A e \in Clients \ {c} : Held(e)' = Held(e)
  BY DEF Held, Live, ReleaseFrom, Inv, ClientTypeOK
<1>4. Cardinality(Held(c)') = Cardinality(Held(c)) - 1
  BY <1>1, <1>2, HeldFinite, FS_RemoveElement
<1>5. QED
  BY <1>3, <1>4 DEF ReleaseFrom, ClientBooks, Inv, ClientTypeOK

LEMMA FromStatusBooks ==
    ASSUME Inv, ClientBooks, NEW c \in Clients, NEW a \in Bufs, NEW st \in NodeStatus,
           from_remote' = [from_remote EXCEPT ![c][a].status = st],
           UNCHANGED <<from_remote_num, pulled_num>>
    PROVE  ClientBooks'
<1>1. \A e \in Clients, x \in Bufs : from_remote'[e][x].blk = from_remote[e][x].blk
  BY DEF Inv, ClientTypeOK, FromNode
<1>2. \A e \in Clients : Held(e)' = Held(e)
  BY <1>1 DEF Held, Live
<1>3. QED
  BY <1>2, BooksUnchanged

LEMMA BooksKept == Inv /\ ClientBooks /\ [Next]_vars => ClientBooks'
<1> SUFFICES ASSUME Inv, ClientBooks, [Next]_vars PROVE ClientBooks'
  OBVIOUS
<1>0. \A i \in Initiators : Complete(conn[i])
  BY DEF Inv, ConnOK
<1>1. ASSUME NEW c \in Clients, OnCompletionPullRet(c) PROVE ClientBooks'
  <2>1. conn[c].blk \in Blocks
    BY <1>0, <1>1 DEF OnCompletionPullRet, At, Complete, Initiators
  <2>2. QED
    BY <1>1, <2>1, TakeBlockBooks, BooksStutter DEF OnCompletionPullRet, Counts
<1>2. ASSUME NEW c \in Clients, EvictData(c) PROVE ClientBooks'
  BY <1>2, FromStatusBooks DEF EvictData, Held, NodeStatus
<1>3. ASSUME NEW c \in Clients, OnCompletionEvictRet(c) PROVE ClientBooks'
  <2>1. conn[c].buf \in Bufs
    BY <1>0, <1>3 DEF OnCompletionEvictRet, At, Complete, Initiators
  <2>2. QED
    BY <1>3, <2>1, ReleaseFromBooks, BooksStutter DEF OnCompletionEvictRet, Counts
<1>4. CASE OnConnectionEvicted
  <2>1. conn["main"].cl \in Clients /\ conn["main"].buf \in Bufs
    BY <1>0, <1>4 DEF OnConnectionEvicted, At, Complete, Initiators
  <2>2. QED
    BY <1>4, <2>1, ReleaseFromBooks, BooksStutter DEF OnConnectionEvicted, Counts
<1>5. CASE OnConnectionPagefault
  <2>1. conn["fault"].cl \in Clients /\ conn["fault"].buf \in Bufs
    BY <1>0, <1>5 DEF OnConnectionPagefault, At, Complete, Initiators
  <2>2. QED
    BY <1>5, <2>1, FromStatusBooks, BooksStutter DEF OnConnectionPagefault, Counts, NodeStatus
<1>6. CASE OnCompletionPagefaultDone
  <2>1. conn["fault"].cl \in Clients /\ conn["fault"].buf \in Bufs
    BY <1>0, <1>6 DEF OnCompletionPagefaultDone, At, Complete, Initiators
  <2>2. QED
    BY <1>6, <2>1, ReleaseFromBooks, BooksStutter DEF OnCompletionPagefaultDone, Counts
<1>7. CASE UNCHANGED Counts
  BY <1>7, BooksStutter
<1>8. CASE Start
  <2>1. ASSUME NEW c \in Clients, GetRemoteMemory(c) \/ PullData(c) PROVE UNCHANGED Counts
    BY <2>1 DEF GetRemoteMemory, PullData, clientVars, Counts
  <2>2. CASE EvictedData \/ ToSsdBegin \/ \E b \in Blocks : FaultRead(b)
    BY <1>7, <2>2 DEF EvictedData, ToSsdBegin, FaultRead, clientVars, Counts
  <2>3. QED
    BY <1>2, <1>7, <1>8, <2>1, <2>2 DEF Start
<1>9. CASE Handle
  <2>1. ASSUME NEW c \in Clients, ClientHandler(c) PROVE ClientBooks'
    <3>1. CASE \/ OnConnectionMemInfo(c) \/ OnCompletionMemInfoRet(c) \/ OnConnectionPull(c)
               \/ OnCompletionPullNotNeeded(c) \/ OnCompletionClientDone(c)
               \/ OnCompletionButNotPull(c) \/ CursorIsNull(c) \/ OnConnectionEvict(c)
      BY <1>7, <3>1 DEF OnConnectionMemInfo, OnCompletionMemInfoRet, OnConnectionPull,
            OnCompletionPullNotNeeded, OnCompletionClientDone, OnCompletionButNotPull,
            CursorIsNull, Crash, OnConnectionEvict, clientVars, Counts
    <3>2. QED
      BY <1>1, <1>3, <2>1, <3>1 DEF ClientHandler
  <2>2. CASE EvictedHandler
    <3>1. CASE OnCompletionEvictedRet
      BY <1>7, <3>1 DEF OnCompletionEvictedRet, clientVars, Counts
    <3>2. QED
      BY <1>4, <2>2, <3>1 DEF EvictedHandler
  <2>3. CASE FaultHandler
    <3>1. CASE \/ FaultSearchRemote \/ FaultSearchDisk \/ OnCompletionPagefaultRet
               \/ FaultDone \/ FaultRetry \/ FaultDoubleFree
      BY <1>7, <3>1 DEF FaultSearchRemote, FaultSearchDisk, OnCompletionPagefaultRet, FaultDone,
            FaultRetry, FaultDoubleFree, Crash, clientVars, Counts
    <3>2. QED
      BY <1>5, <1>6, <2>3, <3>1 DEF FaultHandler
  <2>4. ASSUME NEW b \in Blocks, ReadLands(b) \/ ToSsdEnd(b) PROVE UNCHANGED Counts
    BY <2>4 DEF ReadLands, ToSsdEnd, clientVars, Counts
  <2>5. ASSUME NEW i \in Initiators, OnCompletionRegErr(i) \/ OnDisconnect(i) \/ ConnectFails(i)
        PROVE  UNCHANGED Counts
    BY <2>5 DEF OnCompletionRegErr, OnDisconnect, ConnectFails, clientVars, Counts
  <2>6. QED
    BY <1>7, <1>9, <2>1, <2>2, <2>3, <2>4, <2>5 DEF Handle
<1>10. CASE UNCHANGED vars
  BY <1>7, <1>10 DEF vars, clientVars, Counts
<1>11. QED
  BY <1>8, <1>9, <1>10 DEF Next

LEMMA InitBooks == Init => ClientBooks
<1> SUFFICES ASSUME Init PROVE ClientBooks
  OBVIOUS
<1>1. \A c \in Clients : Held(c) = {}
  BY DEF Init, Held, Live, NoNode
<1>2. QED
  BY <1>1, FS_EmptySet DEF Init, ClientBooks

(***************************************************************************)
(* A client's two counters are the length of its list, whatever races and  *)
(* failures the requests meet: only the client's own handlers count, and   *)
(* each one looks the node up before it counts.                            *)
(***************************************************************************)
THEOREM ClientBooksCorrect == Spec => []ClientBooks
BY InitBooks, BooksKept, SpecInv, PTL DEF Spec

-----------------------------------------------------------------------------
(* The owner's counter, when the owner does not take blocks back itself *)

(* Nothing connects from the main thread. *)
MainQuiet == conn["main"] = Idle

LEMMA MainStaysQuiet ==
    ASSUME "evicted" \notin Ops, Inv, MainQuiet, [Next]_vars
    PROVE  MainQuiet'
<1>0. /\ conn \in [Initiators -> Connection]
      /\ "main" \in Initiators /\ "main" \notin Clients
      /\ conn["main"].msg \notin MessageId
  BY ThreadAssumption, NullAssumption DEF MainQuiet, Idle, Inv, ConnOK, Initiators
<1>1. ASSUME NEW c \in Clients, GetRemoteMemory(c) \/ PullData(c) \/ EvictData(c)
      PROVE  MainQuiet'
  BY <1>0, <1>1 DEF GetRemoteMemory, PullData, EvictData, Request, MainQuiet
<1>2. ASSUME NEW c \in Clients, ClientHandler(c)
      PROVE  MainQuiet'
  <2>1. CASE \/ OnConnectionMemInfo(c) \/ OnCompletionMemInfoRet(c)
             \/ OnCompletionPullNotNeeded(c) \/ OnCompletionPullRet(c)
    BY <1>0, <2>1 DEF OnConnectionMemInfo, OnCompletionMemInfoRet, OnCompletionPullNotNeeded,
          OnCompletionPullRet, Send, Disconnect, MainQuiet
  <2>2. CASE OnConnectionPull(c)
    BY <1>0, <2>2 DEF OnConnectionPull, Send, SendHolding, MainQuiet
  <2>3. CASE OnCompletionClientDone(c) \/ OnCompletionButNotPull(c) \/ CursorIsNull(c)
    BY <1>0, <2>3 DEF OnCompletionClientDone, OnCompletionButNotPull, CursorIsNull, Crash,
          ClearAndDisconnect, MainQuiet
  <2>4. CASE OnConnectionEvict(c) \/ OnCompletionEvictRet(c)
    BY <1>0, <2>4 DEF OnConnectionEvict, OnCompletionEvictRet, Send, Disconnect, Hang, MainQuiet
  <2>5. QED
    BY <1>2, <2>1, <2>2, <2>3, <2>4 DEF ClientHandler
<1>3. ~EvictedData /\ ~EvictedHandler
  BY <1>0 DEF EvictedData, EvictedHandler, OnConnectionEvicted, OnCompletionEvictedRet, At,
              MessageId
<1>4. ASSUME FaultHandler
      PROVE  MainQuiet'
  <2>1. CASE FaultSearchRemote \/ FaultRetry
    BY <1>0, <2>1 DEF FaultSearchRemote, FaultRetry, PagefaultEvictedData, Request, MainQuiet
  <2>2. CASE FaultSearchDisk \/ FaultDone \/ FaultDoubleFree
    BY <2>2 DEF FaultSearchDisk, FaultDone, FaultDoubleFree, Crash, MainQuiet
  <2>3. CASE OnConnectionPagefault \/ OnCompletionPagefaultRet \/ OnCompletionPagefaultDone
    BY <1>0, <2>3 DEF OnConnectionPagefault, OnCompletionPagefaultRet, OnCompletionPagefaultDone,
          Send, Disconnect, Hang, MainQuiet
  <2>4. QED
    BY <1>4, <2>1, <2>2, <2>3 DEF FaultHandler
<1>5. ASSUME ToSsdBegin \/ \E b \in Blocks : FaultRead(b) \/ ReadLands(b) \/ ToSsdEnd(b)
      PROVE  MainQuiet'
  BY <1>5 DEF ToSsdBegin, FaultRead, ReadLands, ToSsdEnd, MainQuiet
<1>6. ASSUME NEW i \in Initiators, OnCompletionRegErr(i) \/ OnDisconnect(i) \/ ConnectFails(i)
      PROVE  MainQuiet'
  <2>1. CASE OnCompletionRegErr(i)
    <3>1. i # "main"
      BY <1>0, <2>1 DEF OnCompletionRegErr, At, MessageId
    <3>2. QED
      BY <1>0, <2>1, <3>1 DEF OnCompletionRegErr, ClearAndDisconnect, MainQuiet
  <2>2. CASE OnDisconnect(i) \/ ConnectFails(i)
    BY <1>0, <2>2 DEF OnDisconnect, ConnectFails, MainQuiet
  <2>3. QED
    BY <1>6, <2>1, <2>2
<1>7. CASE UNCHANGED vars
  BY <1>7 DEF vars, MainQuiet
<1>8. QED
  BY <1>1, <1>2, <1>3, <1>4, <1>5, <1>6, <1>7 DEF Next, Start, Handle

LEMMA InListFinite == Inv => IsFiniteSet(in_list)
BY FinitenessAssumption, FS_Subset DEF Inv, NodesOK

LEMMA LinkCounts ==
    ASSUME Inv, InRemoteNumMatches, NEW n \in Chunks, NEW b, NEW c, NEW a,
           ~in_node[n].alloc, LinkNode(n, b, c, a)
    PROVE  InRemoteNumMatches'
<1>1. n \notin in_list
  BY DEF Inv, NodesOK, InRemoteIndexSound
<1>2. Cardinality(in_list \cup {n}) = Cardinality(in_list) + 1
  BY <1>1, InListFinite, FS_AddElement
<1>3. QED
  BY <1>2 DEF InRemoteNumMatches, LinkNode

LEMMA UnlinkCounts ==
    ASSUME Inv, InRemoteNumMatches, NEW b \in Blocks, in_tree[b] # NULL, Unlink(in_tree[b], b),
           in_remote_num' = in_remote_num - 1
    PROVE  InRemoteNumMatches'
<1>1. in_tree[b] \in in_list
  BY DEF Inv, NodesOK, InRemoteIndexSound
<1>2. Cardinality(in_list \ {in_tree[b]}) = Cardinality(in_list) - 1
  BY <1>1, InListFinite, FS_RemoveElement
<1>3. QED
  BY <1>2 DEF InRemoteNumMatches, Unlink

LEMMA CountStutter ==
    InRemoteNumMatches /\ UNCHANGED <<in_list, in_remote_num>> => InRemoteNumMatches'
BY DEF InRemoteNumMatches

(* Whoever answers EVICTED_REQUEST must find the node: the counter goes down in any case. *)
NodeIsThere == At("main", "toInit", "EVICTED_REQUEST_RET") => in_tree[conn["main"].blk] # NULL

LEMMA CountKept ==
    ASSUME Inv, InRemoteNumMatches, NodeIsThere, [Next]_vars
    PROVE  InRemoteNumMatches'
<1>0. \A i \in Initiators : Complete(conn[i])
  BY DEF Inv, ConnOK
<1>1. ASSUME NEW c \in Clients, OnCompletionClientDone(c)
      PROVE  InRemoteNumMatches'
  BY <1>1, LinkCounts DEF OnCompletionClientDone
<1>2. ASSUME NEW c \in Clients, OnConnectionEvict(c)
      PROVE  InRemoteNumMatches'
  <2>1. conn[c].blk \in Blocks
    BY <1>0, <1>2 DEF OnConnectionEvict, At, Complete, Initiators
  <2>2. QED
    BY <1>2, <2>1, UnlinkCounts, CountStutter DEF OnConnectionEvict, BringHome
<1>3. CASE OnCompletionPagefaultRet
  <2>1. conn["fault"].blk \in Blocks
    BY <1>0, <1>3 DEF OnCompletionPagefaultRet, At, Complete, Initiators
  <2>2. QED
    BY <1>3, <2>1, UnlinkCounts, CountStutter DEF OnCompletionPagefaultRet
<1>4. CASE OnCompletionEvictedRet
  <2>1. conn["main"].blk \in Blocks /\ in_tree[conn["main"].blk] # NULL
    BY <1>0, <1>4 DEF OnCompletionEvictedRet, At, Complete, Initiators, NodeIsThere
  <2>2. QED
    BY <1>4, <2>1, UnlinkCounts DEF OnCompletionEvictedRet, BringHome
<1>5. CASE Start
  BY <1>5, CountStutter DEF Start, GetRemoteMemory, PullData, EvictData, EvictedData, ToSsdBegin,
        FaultRead, ownerVars
<1>6. CASE Handle
  <2>1. ASSUME NEW c \in Clients, ClientHandler(c)
        PROVE  InRemoteNumMatches'
    <3>1. CASE \/ OnConnectionMemInfo(c) \/ OnCompletionMemInfoRet(c) \/ OnConnectionPull(c)
               \/ OnCompletionPullNotNeeded(c) \/ OnCompletionPullRet(c)
               \/ OnCompletionButNotPull(c) \/ CursorIsNull(c) \/ OnCompletionEvictRet(c)
      BY <3>1, CountStutter DEF OnConnectionMemInfo, OnCompletionMemInfoRet, OnConnectionPull,
            OnCompletionPullNotNeeded, OnCompletionPullRet, OnCompletionButNotPull,
            CursorIsNull, Crash, OnCompletionEvictRet, ownerVars
    <3>2. QED
      BY <1>1, <1>2, <2>1, <3>1 DEF ClientHandler
  <2>2. CASE EvictedHandler
    BY <1>4, <2>2, CountStutter DEF EvictedHandler, OnConnectionEvicted, ownerVars
  <2>3. CASE FaultHandler
    <3>1. CASE \/ FaultSearchRemote \/ FaultSearchDisk \/ OnConnectionPagefault
               \/ OnCompletionPagefaultDone \/ FaultDone \/ FaultRetry \/ FaultDoubleFree
      BY <3>1, CountStutter DEF FaultSearchRemote, FaultSearchDisk, OnConnectionPagefault,
            OnCompletionPagefaultDone, FaultDone, FaultRetry, FaultDoubleFree, Crash, ownerVars
    <3>2. QED
      BY <1>3, <2>3, <3>1 DEF FaultHandler
  <2>4. ASSUME NEW b \in Blocks, ReadLands(b) \/ ToSsdEnd(b)
        PROVE  InRemoteNumMatches'
    BY <2>4, CountStutter DEF ReadLands, ToSsdEnd, ownerVars
  <2>5. ASSUME NEW i \in Initiators, OnCompletionRegErr(i) \/ OnDisconnect(i) \/ ConnectFails(i)
        PROVE  InRemoteNumMatches'
    BY <2>5, CountStutter DEF OnCompletionRegErr, OnDisconnect, ConnectFails, ownerVars
  <2>6. QED
    BY <1>6, <2>1, <2>2, <2>3, <2>4, <2>5 DEF Handle
<1>7. CASE UNCHANGED vars
  BY <1>7, CountStutter DEF vars, ownerVars
<1>8. QED
  BY <1>5, <1>6, <1>7 DEF Next

(***************************************************************************)
(* Where the owner never sends EVICTED_REQUEST, in_remote_num is exactly   *)
(* the length of the list: EVICT and page faults count a node down only    *)
(* when they unlink it.  The answer to EVICTED_REQUEST counts down whether *)
(* or not it finds the node.                                               *)
(***************************************************************************)
THEOREM CountCorrect ==
    ASSUME "evicted" \notin Ops
    PROVE  Spec => []InRemoteNumMatches
<1>1. Init => InRemoteNumMatches /\ MainQuiet
  BY FS_EmptySet DEF Init, InRemoteNumMatches, MainQuiet, Initiators
<1>2. Inv /\ InRemoteNumMatches /\ MainQuiet /\ [Next]_vars => (InRemoteNumMatches /\ MainQuiet)'
  <2>1. MainQuiet => NodeIsThere
    BY NullAssumption DEF MainQuiet, NodeIsThere, At, Idle, MessageId
  <2>2. QED
    BY <2>1, MainStaysQuiet, CountKept
<1>3. QED
  BY <1>1, <1>2, SpecInv, PTL DEF Spec

-----------------------------------------------------------------------------
(* The node the fault thread polls, when only page faults bring blocks back *)

Returns == {"EVICT_REQUEST", "EVICTED_REQUEST", "EVICTED_REQUEST_RET"}

(* No message of the two other ways home is in flight. *)
NoReturns == \A i \in Initiators : conn[i].msg \notin Returns

LEMMA NoReturnsSet ==
    ASSUME Inv, NoReturns, NEW i \in Initiators, NEW r, r.msg \notin Returns,
           conn' = [conn EXCEPT ![i] = r]
    PROVE  NoReturns'
BY DEF Inv, ConnOK, NoReturns

LEMMA NoReturnsRequest ==
    ASSUME Inv, NoReturns, NEW i \in Initiators, NEW m, m \notin Returns,
           NEW c, NEW b, NEW a, NEW n, Request(i, m, c, b, a, n)
    PROVE  NoReturns'
<1> DEFINE r == [Idle EXCEPT !.phase = "connect", !.msg = m,
                             !.cl = c, !.blk = b, !.buf = a, !.node = n]
<1>1. r.msg = m
  BY DEF Idle
<1>2. conn' = [conn EXCEPT ![i] = r]
  BY DEF Request
<1>3. QED
  BY <1>1, <1>2, NoReturnsSet

LEMMA NoReturnsSend ==
    ASSUME Inv, NoReturns, NEW i \in Initiators, NEW m, m \notin Returns,
           NEW p, NEW b, NEW a, NEW x, Send(i, p, m, b, a) \/ SendHolding(i, p, m, b, a, x)
    PROVE  NoReturns'
<1>1. conn \in [Initiators -> Connection]
  BY DEF Inv, ConnOK
<1>2. \A j \in Initiators \ {i} : conn'[j] = conn[j]
  BY <1>1 DEF Send, SendHolding
<1>3. conn'[i].msg = m
  BY <1>1 DEF Send, SendHolding, Connection
<1>4. QED
  BY <1>2, <1>3 DEF NoReturns

LEMMA NoReturnsClosing ==
    ASSUME Inv, NoReturns, NEW i \in Initiators,
           Disconnect(i) \/ ClearAndDisconnect(i) \/ Hang(i)
    PROVE  NoReturns'
<1>1. conn \in [Initiators -> Connection]
  BY DEF Inv, ConnOK
<1>2. \A j \in Initiators \ {i} : conn'[j] = conn[j]
  BY <1>1 DEF Disconnect, ClearAndDisconnect, Hang
<1>3. conn'[i].msg = conn[i].msg
  BY <1>1 DEF Disconnect, ClearAndDisconnect, Hang, Connection
<1>4. QED
  BY <1>2, <1>3 DEF NoReturns

LEMMA NoReturnsKept ==
    ASSUME "evict" \notin Ops, "evicted" \notin Ops, Inv, NoReturns, [Next]_vars
    PROVE  NoReturns'
<1>0. /\ conn \in [Initiators -> Connection]
      /\ NULL \notin Returns
      /\ \A c \in Clients : c \in Initiators
      /\ "fault" \in Initiators
  BY NullAssumption DEF Inv, ConnOK, Initiators, Returns, MessageId
<1>1. ASSUME NEW c \in Clients, GetRemoteMemory(c) \/ PullData(c)
      PROVE  NoReturns'
  BY <1>0, <1>1, NoReturnsRequest DEF GetRemoteMemory, PullData, Returns
<1>2. \A c \in Clients : ~EvictData(c) /\ ~OnConnectionEvict(c)
  BY <1>0 DEF EvictData, OnConnectionEvict, At, NoReturns, Returns
<1>3. ~EvictedData /\ ~EvictedHandler
  BY DEF EvictedData, EvictedHandler, OnConnectionEvicted, OnCompletionEvictedRet, At, NoReturns,
         Returns, Initiators
<1>4. ASSUME NEW c \in Clients, ClientHandler(c)
      PROVE  NoReturns'
  <2>1. CASE \/ OnConnectionMemInfo(c) \/ OnCompletionMemInfoRet(c)
             \/ OnCompletionPullNotNeeded(c) \/ OnCompletionPullRet(c) \/ OnCompletionEvictRet(c)
    BY <1>0, <2>1, NoReturnsSend, NoReturnsClosing DEF OnConnectionMemInfo,
       OnCompletionMemInfoRet, OnCompletionPullNotNeeded, OnCompletionPullRet,
       OnCompletionEvictRet, Returns
  <2>2. CASE OnConnectionPull(c)
    BY <1>0, <2>2, NoReturnsSend DEF OnConnectionPull, Returns
  <2>3. CASE OnCompletionClientDone(c) \/ OnCompletionButNotPull(c) \/ CursorIsNull(c)
    BY <1>0, <2>3, NoReturnsClosing DEF OnCompletionClientDone, OnCompletionButNotPull,
       CursorIsNull, Crash, NoReturns
  <2>4. QED
    BY <1>2, <1>4, <2>1, <2>2, <2>3 DEF ClientHandler
<1>5. ASSUME FaultHandler
      PROVE  NoReturns'
  <2>1. CASE FaultSearchRemote \/ FaultRetry
    <3>1. \/ UNCHANGED conn
          \/ \E c, a : Request("fault", "PAGEFAULT_EVICTED_REQUEST", c, NULL, a, NULL)
      BY <2>1 DEF FaultSearchRemote, FaultRetry, PagefaultEvictedData
    <3>2. QED
      BY <1>0, <3>1, NoReturnsRequest DEF NoReturns, Returns
  <2>2. CASE FaultSearchDisk \/ FaultDone \/ FaultDoubleFree
    BY <2>2 DEF FaultSearchDisk, FaultDone, FaultDoubleFree, Crash, NoReturns
  <2>3. CASE OnConnectionPagefault \/ OnCompletionPagefaultRet \/ OnCompletionPagefaultDone
    <3>1. \/ Disconnect("fault") \/ Hang("fault")
          \/ \E p, b, a : \E m \in {"PAGEFAULT_EVICTED_REQUEST_RET", "IBVREG_ERR",
                                  "PAGEFAULT_EVICTED_REQUEST_DONE"} : Send("fault", p, m, b, a)
      BY <2>3 DEF OnConnectionPagefault, OnCompletionPagefaultRet, OnCompletionPagefaultDone
    <3>2. QED
      BY <1>0, <3>1, NoReturnsSend, NoReturnsClosing DEF Returns
  <2>4. QED
    BY <1>5, <2>1, <2>2, <2>3 DEF FaultHandler
<1>6. ASSUME ToSsdBegin \/ \E b \in Blocks : FaultRead(b) \/ ReadLands(b) \/ ToSsdEnd(b)
      PROVE  NoReturns'
  BY <1>6 DEF ToSsdBegin, FaultRead, ReadLands, ToSsdEnd, NoReturns
<1>7. ASSUME NEW i \in Initiators, OnCompletionRegErr(i) \/ OnDisconnect(i) \/ ConnectFails(i)
      PROVE  NoReturns'
  <2>1. Idle.msg \notin Returns
    BY <1>0 DEF Idle
  <2>2. QED
    BY <1>7, <2>1, NoReturnsSet, NoReturnsClosing DEF OnCompletionRegErr, OnDisconnect, ConnectFails
<1>8. CASE UNCHANGED vars
  BY <1>8 DEF vars, NoReturns
<1>9. QED
  BY <1>1, <1>2, <1>3, <1>4, <1>5, <1>6, <1>7, <1>8 DEF Next, Start, Handle

(* Then a node is freed by nobody but the fault thread when it is done. *)
AllocKept == \A n \in Chunks : in_node[n].alloc => in_node'[n].alloc

LEMMA StatusAlloc ==
    ASSUME Inv, NEW n \in Chunks, NEW m, NEW st, NEW su,
           \/ in_node' = [in_node EXCEPT ![n].status = st]
           \/ in_node' = [[in_node EXCEPT ![n].status = st] EXCEPT ![m].status = su]
           \/ in_node' = [in_node EXCEPT ![n].evicted = TRUE]
    PROVE  AllocKept
BY DEF AllocKept, Inv, NodesOK, InNode

LEMMA FaultNodeKept ==
    ASSUME "evict" \notin Ops, "evicted" \notin Ops, Inv, NoReturns, FaultNodeAlive, [Next]_vars
    PROVE  FaultNodeAlive'
<1>0. /\ in_node \in [Chunks -> InNode]
      /\ in_tree \in [Blocks -> Chunks \cup {NULL}]
      /\ in_list \subseteq Chunks
      /\ fault.pc = "poll" => fault.curr \in Chunks
  BY DEF Inv, NodesOK, FaultOK, FaultComplete
<1>1. ASSUME AllocKept, UNCHANGED fault
      PROVE  FaultNodeAlive'
  BY <1>0, <1>1 DEF AllocKept, FaultNodeAlive
<1>2. ASSUME fault'.pc # "poll"
      PROVE  FaultNodeAlive'
  BY <1>2 DEF FaultNodeAlive
<1>3. UNCHANGED in_node => AllocKept
  BY DEF AllocKept
<1>4. CASE FaultSearchRemote
  <2>1. PICK n \in in_list : fault' = [fault EXCEPT !.pc = "poll", !.curr = n]
    BY <1>4 DEF FaultSearchRemote
  <2>2. AllocKept
    BY <1>0, <1>4 DEF FaultSearchRemote, PagefaultEvictedData, AllocKept, InNode
  <2>3. in_node[n].alloc
    BY <2>1 DEF Inv, NodesOK, InRemoteIndexSound
  <2>4. fault'.curr = n
    BY <2>1 DEF Inv, FaultOK, Fault
  <2>5. QED
    BY <1>0, <2>2, <2>3, <2>4 DEF AllocKept, FaultNodeAlive
<1>5. CASE FaultRetry
  <2>1. AllocKept
    <3>1. fault.curr \in Chunks
      BY <1>0, <1>5 DEF FaultRetry
    <3>2. in_node' = [in_node EXCEPT ![fault.curr].status = "EVICT_WAIT"]
          \/ \E m : in_node' = [[in_node EXCEPT ![fault.curr].status = "EVICT_WAIT"]
                                       EXCEPT ![m].status = "EVICTING"]
      BY <1>5 DEF FaultRetry, PagefaultEvictedData
    <3>3. ASSUME in_node' = [in_node EXCEPT ![fault.curr].status = "EVICT_WAIT"]
          PROVE  AllocKept
      BY <3>1, <3>3, StatusAlloc
    <3>4. ASSUME NEW m, in_node' = [[in_node EXCEPT ![fault.curr].status = "EVICT_WAIT"]
                                             EXCEPT ![m].status = "EVICTING"]
          PROVE  AllocKept
      BY <3>1, <3>4, StatusAlloc
    <3>5. QED
      BY <3>2, <3>3, <3>4
  <2>2. QED
    BY <1>1, <1>5, <2>1 DEF FaultRetry
<1>6. CASE FaultSearchDisk \/ FaultDone
  BY <1>1, <1>2, <1>3, <1>6 DEF FaultSearchDisk, FaultDone, NoFault, Crash, ownerVars
<1>7. CASE OnCompletionPagefaultRet
  <2>1. AllocKept
    <3>1. conn["fault"].blk \in Blocks
      BY <1>7 DEF OnCompletionPagefaultRet, At, Inv, ConnOK, Complete, Initiators
    <3>2. QED
      BY <1>0, <1>3, <1>7, <3>1, StatusAlloc DEF OnCompletionPagefaultRet, MarkEvicted
  <2>2. QED
    BY <1>1, <1>7, <2>1 DEF OnCompletionPagefaultRet
<1>8. CASE FaultHandler
  BY <1>1, <1>3, <1>4, <1>5, <1>6, <1>7, <1>8 DEF FaultHandler, OnConnectionPagefault,
     OnCompletionPagefaultDone, FaultDoubleFree, Crash, ownerVars
<1>9. CASE \E c \in Clients : OnCompletionClientDone(c)
  <2>1. AllocKept
    BY <1>0, <1>9 DEF OnCompletionClientDone, LinkNode, AllocKept
  <2>2. QED
    BY <1>1, <1>9, <2>1 DEF OnCompletionClientDone
<1>10. ASSUME NEW c \in Clients, ClientHandler(c)
       PROVE  FaultNodeAlive'
  <2>1. ~OnConnectionEvict(c)
    BY DEF OnConnectionEvict, At, NoReturns, Returns, Initiators
  <2>2. QED
    BY <1>1, <1>3, <1>9, <1>10, <2>1 DEF ClientHandler, OnConnectionMemInfo,
       OnCompletionMemInfoRet, OnConnectionPull, OnCompletionPullNotNeeded, OnCompletionPullRet,
       OnCompletionButNotPull, CursorIsNull, Crash, OnCompletionEvictRet, ownerVars
<1>11. ~EvictedData /\ ~EvictedHandler
  BY DEF EvictedData, EvictedHandler, OnConnectionEvicted, OnCompletionEvictedRet, At, NoReturns,
         Returns, Initiators
<1>12. CASE Start
  <2>1. CASE \E b \in Blocks : FaultRead(b)
    BY <1>2, <2>1 DEF FaultRead, NoFault
  <2>2. QED
    BY <1>1, <1>3, <1>11, <1>12, <2>1 DEF Start, GetRemoteMemory, PullData, EvictData, ToSsdBegin,
       ownerVars
<1>13. ASSUME \/ \E b \in Blocks : ReadLands(b) \/ ToSsdEnd(b)
              \/ \E i \in Initiators : OnCompletionRegErr(i) \/ OnDisconnect(i) \/ ConnectFails(i)
       PROVE  FaultNodeAlive'
  BY <1>1, <1>3, <1>13 DEF ReadLands, ToSsdEnd, OnCompletionRegErr, OnDisconnect, ConnectFails,
     ownerVars
<1>14. CASE UNCHANGED vars
  BY <1>1, <1>3, <1>14 DEF vars, ownerVars
<1>15. QED
  BY <1>8, <1>10, <1>11, <1>12, <1>13, <1>14 DEF Next, Handle

(***************************************************************************)
(* Where neither EVICT nor EVICTED takes nodes away, the node the fault    *)
(* thread polls is never freed behind its back, not even after a retry:    *)
(* OnCompletionPagefaultRet only flags it.                                 *)
(***************************************************************************)
THEOREM FaultNodeSafe ==
    ASSUME "evict" \notin Ops, "evicted" \notin Ops
    PROVE  Spec => []FaultNodeAlive
<1>1. Init => FaultNodeAlive /\ NoReturns
  BY NullAssumption DEF Init, FaultNodeAlive, NoFault, NoReturns, Returns, Idle, MessageId
<1>2. /\ Inv /\ FaultNodeAlive /\ NoReturns /\ [Next]_vars
      => (FaultNodeAlive /\ NoReturns)'
  BY NoReturnsKept, FaultNodeKept
<1>3. QED
  BY <1>1, <1>2, SpecInv, PTL DEF Spec

-----------------------------------------------------------------------------
(***************************************************************************)
(* A freed block stays out of the protocol (FreedStaysOut).  The handlers  *)
(* of a pull go by the cursor next_lru_data, of which the owner has one    *)
(* for all its clients: while client c pulls, a second pull moves it, and  *)
(* PULL_REQUEST_BUT_NOT_PULL or CLIENT_DONE of c then marks another block  *)
(* than the one its context holds (rpc.c:577, 661).  TLC breaks the        *)
(* property with two clients that pull at once.  What holds is that it     *)
(* takes two pulls at once to break it: OnePullSpec keeps the steps after  *)
(* which at most one is under way, and with one client that is every step. *)
(***************************************************************************)

(* A pull of c has its block: the owner's answer, or what c says to it, is under way. *)
MidPull(c) ==
    /\ conn[c].phase \in {"toInit", "toAcc"}
    /\ conn[c].msg \in {"PULL_REQUEST_RET", "CLIENT_DONE", "PULL_REQUEST_BUT_NOT_PULL"}
Pulling(c) == MidPull(c) \/ At(c, "connect", "PULL_REQUEST")
OnePull == \A c, d \in Clients : Pulling(c) /\ Pulling(d) => c = d
(* The protocol as long as no two pulls are under way at once. *)
OnePullSpec == Init /\ [][Next /\ OnePull']_vars

(* A connection whose context holds a block is about that one alone, which is PULLING. *)
HeldPulling ==
    /\ \A i \in Initiators : conn[i].ctx = "app" =>
          lru[conn[i].blk] = "PULLING" /\ home[conn[i].blk] # "freed"
    /\ \A i, j \in Initiators :
          conn[i].ctx = "app" /\ conn[j].ctx = "app" /\ conn[i].blk = conn[j].blk => i = j

(* The cursor of the owner stays on the block of the pull under way. *)
CursorIsOwn ==
    \A c \in Clients : MidPull(c) => conn[c].ctx = "app" /\ next_lru_data = conn[c].blk

(* A block in a client's tree is PULLED_DONE, one with a file is FSYNC_DONE. *)
LruFits ==
    /\ \A b \in Blocks : in_tree[b] # NULL => lru[b] = "PULLED_DONE"
    /\ \A b \in Blocks : file[b] # "none" => lru[b] = "FSYNC_DONE"

(* The inductive invariant: with it a freed block is one that was held, thus PULLING. *)
PullInv == OnePull /\ HeldPulling /\ CursorIsOwn /\ LruFits /\ FreedStaysOut

(* No block leaves PULLING, and none is freed. *)
PullsLeftAlone ==
    /\ \A b \in Blocks : lru[b] = "PULLING" => lru'[b] = "PULLING"
    /\ \A b \in Blocks : home'[b] = "freed" => home[b] = "freed"
    /\ LruFits'
    /\ UNCHANGED next_lru_data

(* Connection i comes into no pull, and holds no other block than before. *)
EntersNoPull(i) ==
    /\ conn'[i].ctx = "app" => conn[i].ctx = "app" /\ conn'[i].blk = conn[i].blk
    /\ MidPull(i)' => MidPull(i) /\ conn'[i].ctx = conn[i].ctx /\ conn'[i].blk = conn[i].blk

(* A step that leaves the pulls alone keeps the invariant. *)
LEMMA ElsewhereKeeps ==
    ASSUME Inv, PullInv, OnePull', PullsLeftAlone, \A i \in Initiators : EntersNoPull(i)
    PROVE  PullInv'
<1>1. \A i \in Initiators : conn[i].ctx = "app" => conn[i].blk \in Blocks
  BY DEF Inv, ConnOK, Complete
<1>2. HeldPulling'
  BY <1>1 DEF PullInv, HeldPulling, PullsLeftAlone, EntersNoPull
<1>3. CursorIsOwn'
  BY DEF PullInv, CursorIsOwn, PullsLeftAlone, EntersNoPull, Initiators
<1>4. FreedStaysOut'
  BY DEF PullInv, FreedStaysOut, PullsLeftAlone, LruFits
<1> QED
  BY <1>2, <1>3, <1>4 DEF PullInv, PullsLeftAlone

(* Untouched owner's books leave the pulls alone ... *)
LEMMA MemoryLeftAlone ==
    ASSUME PullInv, UNCHANGED <<lru, next_lru_data, in_tree, home, file>>
    PROVE  PullsLeftAlone
BY DEF PullInv, PullsLeftAlone, LruFits

(* ... and so do untouched connections. *)
LEMMA ConnLeftAlone ==
    ASSUME UNCHANGED conn
    PROVE  \A i \in Initiators : EntersNoPull(i)
BY DEF EntersNoPull, MidPull

(* A connection set to hold nothing, outside the phases of a message, enters no pull; *)
LEMMA SetEntersNoPull ==
    ASSUME Inv, NEW i \in Initiators, NEW r, conn' = [conn EXCEPT ![i] = r],
           r.ctx # "app", r.phase \notin {"toInit", "toAcc"}
    PROVE  \A j \in Initiators : EntersNoPull(j)
BY DEF Inv, ConnOK, EntersNoPull, MidPull

(* nor does a request as it starts, *)
LEMMA RequestEntersNoPull ==
    ASSUME Inv, NEW i \in Initiators, NEW m, NEW c, NEW b, NEW a, NEW n,
           Request(i, m, c, b, a, n)
    PROVE  \A j \in Initiators : EntersNoPull(j)
<1> DEFINE r == [Idle EXCEPT !.phase = "connect", !.msg = m,
                             !.cl = c, !.blk = b, !.buf = a, !.node = n]
<1>1. r.ctx = NULL /\ r.phase = "connect" /\ NULL # "app"
  BY NullAssumption DEF Idle
<1>2. conn' = [conn EXCEPT ![i] = r]
  BY DEF Request
<1> QED
  BY <1>1, <1>2, SetEntersNoPull

(* nor an answer that is none of a pull's, *)
LEMMA SendEntersNoPull ==
    ASSUME Inv, NEW i \in Initiators, NEW p, NEW m, NEW b, NEW a,
           \/ Send(i, p, m, b, a) /\ conn[i].ctx # "app"
           \/ SendHolding(i, p, m, b, a, "mr"),
           m \notin {"PULL_REQUEST_RET", "CLIENT_DONE", "PULL_REQUEST_BUT_NOT_PULL"}
    PROVE  \A j \in Initiators : EntersNoPull(j)
<1>1. \A j \in Initiators \ {i} : conn'[j] = conn[j]
  BY DEF Send, SendHolding, Inv, ConnOK
<1>2. conn'[i].msg = m /\ conn'[i].ctx # "app"
  BY DEF Send, SendHolding, Inv, ConnOK, Connection
<1> QED
  BY <1>1, <1>2 DEF EntersNoPull, MidPull

(* nor a connection that is closed or hangs. *)
LEMMA ClosingEntersNoPull ==
    ASSUME Inv, NEW i \in Initiators, Disconnect(i) \/ ClearAndDisconnect(i) \/ Hang(i)
    PROVE  \A j \in Initiators : EntersNoPull(j)
<1>1. \A j \in Initiators \ {i} : conn'[j] = conn[j]
  BY DEF Disconnect, ClearAndDisconnect, Hang, Inv, ConnOK
<1>2. /\ conn'[i].phase \in {"closing", "hung"} /\ conn'[i].blk = conn[i].blk
      /\ conn'[i].ctx \in {NULL, conn[i].ctx} /\ NULL # "app"
  BY NullAssumption DEF Disconnect, ClearAndDisconnect, Hang, Inv, ConnOK, Connection
<1> QED
  BY <1>1, <1>2 DEF EntersNoPull, MidPull

(* A connection about anything but a pull holds no block of the application. *)
LEMMA HoldsInPulls ==
    ASSUME Inv, NEW i \in Initiators,
           conn[i].msg \notin {"PULL_REQUEST", "PULL_REQUEST_RET", "CLIENT_DONE",
                               "PULL_REQUEST_BUT_NOT_PULL", "IBVREG_ERR"}
    PROVE  conn[i].ctx # "app"
BY DEF Inv, ConnOK, Complete

(* The pull itself: the answer gives it the block under the cursor, and no other moves it. *)
LEMMA PullKeepsPulls ==
    ASSUME Inv, PullInv, OnePull', NEW c \in Clients,
           \/ GetRemoteMemory(c) \/ OnConnectionMemInfo(c) \/ OnCompletionMemInfoRet(c)
           \/ PullData(c) \/ OnConnectionPull(c) \/ OnCompletionPullNotNeeded(c)
           \/ OnCompletionPullRet(c) \/ OnCompletionClientDone(c)
           \/ OnCompletionButNotPull(c) \/ CursorIsNull(c)
    PROVE  PullInv'
<1>0. /\ c \in Initiators /\ conn \in [Initiators -> Connection] /\ conn[c] \in Connection
      /\ \A i \in Initiators : conn[i].ctx = "app" => conn[i].blk \in Blocks
      /\ NULL # "app"
  BY NullAssumption DEF Inv, ConnOK, Complete, Initiators
<1>1. CASE GetRemoteMemory(c) \/ PullData(c) \/ CursorIsNull(c)
  <2>1. \A i \in Initiators : EntersNoPull(i)
    BY <1>0, <1>1, RequestEntersNoPull, ConnLeftAlone
       DEF GetRemoteMemory, PullData, CursorIsNull, Crash
  <2>2. PullsLeftAlone
    BY <1>1, MemoryLeftAlone DEF GetRemoteMemory, PullData, CursorIsNull, Crash, ownerVars, memVars
  <2> QED
    BY <2>1, <2>2, ElsewhereKeeps
<1>2. CASE OnConnectionMemInfo(c) \/ OnCompletionMemInfoRet(c) \/ OnCompletionPullNotNeeded(c)
  <2>1. \A i \in Initiators : EntersNoPull(i)
    <3>1. CASE OnConnectionMemInfo(c)
      <4>1. conn[c].ctx # "app"
        BY <1>0, <3>1, HoldsInPulls DEF OnConnectionMemInfo, At
      <4> QED
        BY <1>0, <3>1, <4>1, SendEntersNoPull DEF OnConnectionMemInfo
    <3> QED
      BY <1>0, <1>2, <3>1, ClosingEntersNoPull DEF OnCompletionMemInfoRet, OnCompletionPullNotNeeded
  <2>2. PullsLeftAlone
    BY <1>2, MemoryLeftAlone DEF OnConnectionMemInfo, OnCompletionMemInfoRet,
          OnCompletionPullNotNeeded, ownerVars, memVars
  <2> QED
    BY <2>1, <2>2, ElsewhereKeeps
<1>3. CASE OnConnectionPull(c)
  <2>1. \A d \in Clients \ {c} : ~MidPull(d)
    BY <1>3 DEF OnConnectionPull, PullInv, OnePull, Pulling
  <2>2. ~MidPull(c) /\ conn[c].ctx # "app"
    BY <1>0, <1>3 DEF OnConnectionPull, At, MidPull, Inv, ConnOK, Complete
  <2>3. ASSUME UNCHANGED lru, NEW m \in {"PULL_REQUEST_RET_NO_DATA", "PULL_REQUEST_RET_NOT_NEED"},
               Send(c, "toInit", m, NULL, NULL)
        PROVE  PullInv'
    <3>1. /\ conn'[c].ctx # "app" /\ conn'[c].msg = m /\ ~MidPull(c)'
          /\ \A i \in Initiators \ {c} : conn'[i] = conn[i]
      BY <1>0, <2>2, <2>3 DEF Send, MidPull, Connection
    <3>2. HeldPulling'
      BY <1>0, <1>3, <2>3, <3>1 DEF PullInv, HeldPulling, OnConnectionPull, memVars
    <3>3. CursorIsOwn'
      BY <2>1, <3>1 DEF CursorIsOwn, MidPull, Initiators
    <3>4. LruFits' /\ FreedStaysOut'
      BY <1>3, <2>3 DEF PullInv, LruFits, FreedStaysOut, OnConnectionPull, memVars
    <3> QED
      BY <3>2, <3>3, <3>4 DEF PullInv
  <2>4. ASSUME NEW b \in Waiting, next_lru_data' = b, lru' = [lru EXCEPT ![b] = "PULLING"],
               NEW p, NEW m, SendHolding(c, p, m, b, NULL, "app")
        PROVE  PullInv'
    <3>1. /\ conn'[c].ctx = "app" /\ conn'[c].blk = b
          /\ \A i \in Initiators \ {c} : conn'[i] = conn[i]
      BY <1>0, <2>4 DEF SendHolding, Connection
    <3>2. /\ b \in Blocks /\ lru[b] = "PULLED_WAIT" /\ lru'[b] = "PULLING"
          /\ \A x \in Blocks \ {b} : lru'[x] = lru[x]
          /\ home[b] # "freed" /\ in_tree[b] = NULL /\ file[b] = "none"
          /\ UNCHANGED <<in_tree, home, file>>
      BY <1>3, <2>4 DEF Waiting, Inv, MemoryOK, OnConnectionPull, memVars, PullInv, LruFits,
                        FreedStaysOut
    <3>3. HeldPulling'
      BY <1>0, <3>1, <3>2 DEF PullInv, HeldPulling
    <3>4. CursorIsOwn'
      BY <2>1, <2>4, <3>1 DEF CursorIsOwn, MidPull, Initiators
    <3>5. LruFits' /\ FreedStaysOut'
      BY <3>2 DEF PullInv, LruFits, FreedStaysOut
    <3> QED
      BY <3>3, <3>4, <3>5 DEF PullInv
  <2> QED
    BY <1>3, <2>3, <2>4 DEF OnConnectionPull
<1>4. CASE OnCompletionPullRet(c)
  <2>1. MidPull(c)
    BY <1>4 DEF OnCompletionPullRet, At, MidPull
  <2>2. conn[c].ctx = "app"
    BY <2>1 DEF PullInv, CursorIsOwn
  <2>3. /\ conn'[c].blk = conn[c].blk /\ conn'[c].ctx = conn[c].ctx
        /\ \A i \in Initiators \ {c} : conn'[i] = conn[i]
    BY <1>0, <1>4 DEF OnCompletionPullRet, Send, Connection
  <2>4. \A i \in Initiators : EntersNoPull(i)
    BY <2>1, <2>2, <2>3 DEF EntersNoPull, MidPull
  <2>5. PullsLeftAlone
    BY <1>4, MemoryLeftAlone DEF OnCompletionPullRet, ownerVars, memVars
  <2> QED
    BY <2>4, <2>5, ElsewhereKeeps
<1>5. CASE OnCompletionClientDone(c) \/ OnCompletionButNotPull(c)
  <2>1. MidPull(c)
    BY <1>5 DEF OnCompletionClientDone, OnCompletionButNotPull, At, MidPull
  <2> PICK b : b = conn[c].blk
    OBVIOUS
  <2>2. conn[c].ctx = "app" /\ next_lru_data = b
    BY <2>1 DEF PullInv, CursorIsOwn
  <2>3. /\ b \in Blocks /\ lru[b] = "PULLING" /\ home[b] # "freed"
        /\ in_tree[b] = NULL /\ file[b] = "none"
    BY <1>0, <2>2 DEF PullInv, HeldPulling, LruFits
  <2>4. /\ \A i \in Initiators \ {c} : conn'[i] = conn[i]
        /\ conn'[c].ctx # "app" /\ conn'[c].phase = "closing"
    BY <1>0, <1>5 DEF OnCompletionClientDone, OnCompletionButNotPull, ClearAndDisconnect, Connection
  <2>5. /\ \A x \in Blocks \ {b} : /\ lru'[x] = lru[x] /\ home'[x] = home[x]
                                   /\ in_tree'[x] = in_tree[x]
        /\ home'[b] # "freed" /\ UNCHANGED <<file, next_lru_data>>
        /\ in_tree'[b] # NULL => lru'[b] = "PULLED_DONE"
    <3>1. CASE OnCompletionClientDone(c)
      BY <2>2, <2>3, <3>1 DEF OnCompletionClientDone, LinkNode, Inv, MemoryOK, NodesOK
    <3>2. CASE OnCompletionButNotPull(c)
      BY <2>2, <2>3, <3>2 DEF OnCompletionButNotPull, memVars, Inv, MemoryOK
    <3> QED
      BY <1>5, <3>1, <3>2
  <2>6. \A i \in Initiators \ {c} : conn[i].ctx = "app" => conn[i].blk \in Blocks \ {b}
    BY <1>0, <2>2 DEF PullInv, HeldPulling
  <2>7. HeldPulling'
    BY <2>4, <2>5, <2>6 DEF PullInv, HeldPulling
  <2>8. CursorIsOwn'
    BY <2>4, <2>5 DEF PullInv, CursorIsOwn, MidPull, Initiators
  <2>9. LruFits' /\ FreedStaysOut'
    BY <2>3, <2>5 DEF PullInv, LruFits, FreedStaysOut
  <2> QED
    BY <2>7, <2>8, <2>9 DEF PullInv
<1> QED
  BY <1>1, <1>2, <1>3, <1>4, <1>5

(* What comes home was lent, so no pull holds it. *)
LEMMA BringHomeLeavesPulls ==
    ASSUME Inv, PullInv, NEW b \in Blocks, in_tree[b] # NULL, NEW results,
           results \subseteq {"data", "junk"},
           BringHome(in_tree[b], b, results), UNCHANGED <<next_lru_data, file>>
    PROVE  PullsLeftAlone
<1>1. lru[b] = "PULLED_DONE" /\ file[b] = "none"
  BY DEF PullInv, LruFits
<1>2. /\ \A x \in Blocks \ {b} : lru'[x] = lru[x] /\ home'[x] = home[x] /\ in_tree'[x] = in_tree[x]
      /\ in_tree'[b] = NULL /\ home'[b] # "freed"
  BY DEF BringHome, Unlink, Inv, MemoryOK, NodesOK
<1> QED
  BY <1>1, <1>2 DEF PullsLeftAlone, PullInv, LruFits

(* The eviction of a block back to its owner. *)
LEMMA EvictKeepsPulls ==
    ASSUME Inv, PullInv, OnePull', NEW c \in Clients,
           EvictData(c) \/ OnConnectionEvict(c) \/ OnCompletionEvictRet(c)
    PROVE  PullInv'
<1>0. c \in Initiators
  BY DEF Initiators
<1>1. CASE EvictData(c)
  <2>1. \A i \in Initiators : EntersNoPull(i)
    BY <1>0, <1>1, RequestEntersNoPull DEF EvictData
  <2>2. PullsLeftAlone
    BY <1>1, MemoryLeftAlone DEF EvictData, ownerVars, memVars
  <2> QED
    BY <2>1, <2>2, ElsewhereKeeps
<1>2. CASE OnConnectionEvict(c)
  <2>1. conn[c].ctx # "app" /\ conn[c].blk \in Blocks
    BY <1>0, <1>2, HoldsInPulls DEF OnConnectionEvict, At, Inv, ConnOK, Complete
  <2>2. \A i \in Initiators : EntersNoPull(i)
    BY <1>0, <1>2, <2>1, SendEntersNoPull, ClosingEntersNoPull DEF OnConnectionEvict
  <2>3. CASE UNCHANGED <<lru, in_tree, home>>
    <3>1. PullsLeftAlone
      BY <1>2, <2>3, MemoryLeftAlone DEF OnConnectionEvict
    <3> QED
      BY <2>2, <3>1, ElsewhereKeeps
  <2>4. CASE BringHome(in_tree[conn[c].blk], conn[c].blk,
                       ReadResult(c, conn[c].blk, in_node[in_tree[conn[c].blk]].raddr, "junk"))
             /\ in_tree[conn[c].blk] # NULL
    <3>1. ReadResult(c, conn[c].blk, in_node[in_tree[conn[c].blk]].raddr, "junk")
              \subseteq {"data", "junk"}
      BY DEF ReadResult
    <3>2. PullsLeftAlone
      BY <1>2, <2>1, <2>4, <3>1, BringHomeLeavesPulls DEF OnConnectionEvict
    <3> QED
      BY <2>2, <3>2, ElsewhereKeeps
  <2> QED
    BY <1>2, <2>3, <2>4 DEF OnConnectionEvict
<1>3. CASE OnCompletionEvictRet(c)
  <2>1. \A i \in Initiators : EntersNoPull(i)
    BY <1>0, <1>3, ClosingEntersNoPull DEF OnCompletionEvictRet
  <2>2. PullsLeftAlone
    BY <1>3, MemoryLeftAlone DEF OnCompletionEvictRet, ownerVars, memVars
  <2> QED
    BY <2>1, <2>2, ElsewhereKeeps
<1> QED
  BY <1>1, <1>2, <1>3

(* The return of a block that the client sheds. *)
LEMMA EvictedKeepsPulls ==
    ASSUME Inv, PullInv, OnePull', EvictedData \/ OnConnectionEvicted \/ OnCompletionEvictedRet
    PROVE  PullInv'
<1>0. "main" \in Initiators
  BY DEF Initiators
<1>1. CASE EvictedData
  <2>1. \A i \in Initiators : EntersNoPull(i)
    BY <1>0, <1>1, RequestEntersNoPull DEF EvictedData
  <2>2. PullsLeftAlone
    BY <1>1, MemoryLeftAlone DEF EvictedData, memVars
  <2> QED
    BY <2>1, <2>2, ElsewhereKeeps
<1>2. CASE OnConnectionEvicted
  <2>1. \A i \in Initiators : EntersNoPull(i)
    BY <1>0, <1>2, SendEntersNoPull, ClosingEntersNoPull DEF OnConnectionEvicted
  <2>2. PullsLeftAlone
    BY <1>2, MemoryLeftAlone DEF OnConnectionEvicted, ownerVars, memVars
  <2> QED
    BY <2>1, <2>2, ElsewhereKeeps
<1>3. CASE OnCompletionEvictedRet
  <2> PICK b : b = conn["main"].blk
    OBVIOUS
  <2>1. b \in Blocks
    BY <1>0, <1>3 DEF OnCompletionEvictedRet, At, Inv, ConnOK, Complete
  <2>2. \A i \in Initiators : EntersNoPull(i)
    BY <1>0, <1>3, ClosingEntersNoPull DEF OnCompletionEvictedRet
  <2>3. CASE UNCHANGED <<lru, in_tree, home>>
    <3>1. PullsLeftAlone
      BY <1>3, <2>3, MemoryLeftAlone DEF OnCompletionEvictedRet
    <3> QED
      BY <2>2, <3>1, ElsewhereKeeps
  <2>4. ASSUME NEW results, results \subseteq {"data", "junk"}, in_tree[b] # NULL,
               BringHome(in_tree[b], b, results)
        PROVE  PullInv'
    <3>1. PullsLeftAlone
      BY <1>3, <2>1, <2>4, BringHomeLeavesPulls DEF OnCompletionEvictedRet
    <3> QED
      BY <2>2, <3>1, ElsewhereKeeps
  <2> QED
    BY <1>3, <2>3, <2>4 DEF OnCompletionEvictedRet
<1> QED
  BY <1>1, <1>2, <1>3

(* The fault thread: fetching a block back, from a client or from the disk. *)
LEMMA FaultKeepsPulls ==
    ASSUME Inv, PullInv, OnePull', FaultHandler \/ \E b \in Blocks : FaultRead(b)
    PROVE  PullInv'
<1>0. "fault" \in Initiators
  BY DEF Initiators
<1>1. CASE FaultSearchRemote \/ FaultRetry
  <2>1. \/ UNCHANGED conn
        \/ \E c, a : Request("fault", "PAGEFAULT_EVICTED_REQUEST", c, NULL, a, NULL)
    BY <1>1 DEF FaultSearchRemote, FaultRetry, PagefaultEvictedData
  <2>2. \A i \in Initiators : EntersNoPull(i)
    BY <1>0, <2>1, RequestEntersNoPull, ConnLeftAlone
  <2>3. PullsLeftAlone
    BY <1>1, MemoryLeftAlone DEF FaultSearchRemote, FaultRetry, memVars
  <2> QED
    BY <2>2, <2>3, ElsewhereKeeps
<1>2. CASE FaultDone \/ FaultDoubleFree \/ \E b \in Blocks : FaultRead(b)
  <2>1. \A i \in Initiators : EntersNoPull(i)
    BY <1>2, ConnLeftAlone DEF FaultDone, FaultDoubleFree, FaultRead, Crash
  <2>2. PullsLeftAlone
    BY <1>2, MemoryLeftAlone DEF FaultDone, FaultDoubleFree, FaultRead, Crash, ownerVars, memVars
  <2> QED
    BY <2>1, <2>2, ElsewhereKeeps
<1>3. CASE FaultSearchDisk
  <2>1. \A i \in Initiators : EntersNoPull(i)
    BY <1>3, ConnLeftAlone DEF FaultSearchDisk, Crash
  <2>2. fault.blk \in Blocks
    BY <1>3 DEF FaultSearchDisk, Inv, FaultOK, FaultComplete
  <2>3. CASE Crash
    BY <2>1, <2>3, MemoryLeftAlone, ElsewhereKeeps DEF Crash, ownerVars, memVars
  <2>4. CASE ~Crash
    <3> PICK b : b = fault.blk
      OBVIOUS
    <3>1. /\ lru[b] = "FSYNC_DONE" /\ in_tree[b] = NULL
          /\ \A x \in Blocks \ {b} : lru'[x] = lru[x] /\ home'[x] = home[x] /\ file'[x] = file[x]
          /\ home'[b] # "freed" /\ UNCHANGED <<in_tree, next_lru_data>>
          /\ file'[b] # "none" => lru'[b] = "FSYNC_DONE"
      BY <1>3, <2>2, <2>4 DEF FaultSearchDisk, PullInv, LruFits, Inv, MemoryOK, ownerVars
    <3>2. PullsLeftAlone
      BY <2>2, <3>1 DEF PullsLeftAlone, PullInv, LruFits
    <3> QED
      BY <2>1, <3>2, ElsewhereKeeps
  <2> QED
    BY <2>3, <2>4
<1>4. CASE OnConnectionPagefault \/ OnCompletionPagefaultRet \/ OnCompletionPagefaultDone
  <2>1. conn["fault"].ctx # "app"
    BY <1>0, <1>4, HoldsInPulls DEF OnConnectionPagefault, OnCompletionPagefaultRet,
          OnCompletionPagefaultDone, At
  <2>2. \/ Disconnect("fault") \/ Hang("fault")
        \/ \E p, b, a : \E m \in {"PAGEFAULT_EVICTED_REQUEST_RET", "IBVREG_ERR",
                                  "PAGEFAULT_EVICTED_REQUEST_DONE"} : Send("fault", p, m, b, a)
    BY <1>4 DEF OnConnectionPagefault, OnCompletionPagefaultRet, OnCompletionPagefaultDone
  <2>3. \A i \in Initiators : EntersNoPull(i)
    BY <1>0, <2>1, <2>2, SendEntersNoPull, ClosingEntersNoPull
  <2>4. CASE OnConnectionPagefault \/ OnCompletionPagefaultDone
    BY <2>3, <2>4, MemoryLeftAlone, ElsewhereKeeps DEF OnConnectionPagefault,
       OnCompletionPagefaultDone, ownerVars, memVars
  <2>5. CASE OnCompletionPagefaultRet
    <3> PICK b : b = conn["fault"].blk
      OBVIOUS
    <3>1. b \in Blocks
      BY <1>0, <2>5 DEF OnCompletionPagefaultRet, At, Inv, ConnOK, Complete
    <3>2. /\ \A x \in Blocks \ {b} : home'[x] = home[x] /\ in_tree'[x] = in_tree[x]
          /\ UNCHANGED <<lru, file, next_lru_data>>
          /\ in_tree'[b] \in {in_tree[b], NULL} /\ (home'[b] = home[b] \/ home'[b] # "freed")
      <4>1. \A c, a : ReadResult(c, b, a, "filling") \subseteq {"junk", "data", "filling"}
        BY DEF ReadResult
      <4> QED
        BY <2>5, <3>1, <4>1 DEF OnCompletionPagefaultRet, Unlink, Inv, MemoryOK, NodesOK
    <3>3. PullsLeftAlone
      BY <3>1, <3>2 DEF PullsLeftAlone, PullInv, LruFits
    <3> QED
      BY <2>3, <3>3, ElsewhereKeeps
  <2> QED
    BY <1>4, <2>4, <2>5
<1> QED
  BY <1>1, <1>2, <1>3, <1>4 DEF FaultHandler

(* Writing a waiting block to disk, and reading one. *)
LEMMA DiskKeepsPulls ==
    ASSUME Inv, PullInv, OnePull', ToSsdBegin \/ \E b \in Blocks : ReadLands(b) \/ ToSsdEnd(b)
    PROVE  PullInv'
<1>1. \A i \in Initiators : EntersNoPull(i)
  BY ConnLeftAlone DEF ToSsdBegin, ReadLands, ToSsdEnd
<1>2. CASE ToSsdBegin
  <2>1. PICK b \in Waiting : lru' = [lru EXCEPT ![b] = "FSYNCING"]
    BY <1>2 DEF ToSsdBegin
  <2>2. b \in Blocks /\ lru[b] = "PULLED_WAIT" /\ UNCHANGED <<in_tree, home, file, next_lru_data>>
    BY <1>2 DEF ToSsdBegin, Waiting, memVars
  <2>3. PullsLeftAlone
    BY <2>1, <2>2 DEF PullsLeftAlone, PullInv, LruFits, Inv, MemoryOK
  <2> QED
    BY <1>1, <2>3, ElsewhereKeeps
<1>3. ASSUME NEW b \in Blocks, ReadLands(b) PROVE PullInv'
  <2>1. PullsLeftAlone
    BY <1>3 DEF ReadLands, ownerVars, PullsLeftAlone, PullInv, LruFits, Inv, MemoryOK
  <2> QED
    BY <1>1, <2>1, ElsewhereKeeps
<1>4. ASSUME NEW b \in Blocks, ToSsdEnd(b) PROVE PullInv'
  <2>1. /\ lru[b] = "FSYNCING" /\ in_tree[b] = NULL /\ UNCHANGED <<in_tree, next_lru_data>>
        /\ \A x \in Blocks \ {b} : lru'[x] = lru[x] /\ home'[x] = home[x] /\ file'[x] = file[x]
        /\ home'[b] # "freed" \/ home' = home
        /\ file'[b] # "none" => lru'[b] = "FSYNC_DONE"
    BY <1>4 DEF ToSsdEnd, PullInv, LruFits, Inv, MemoryOK
  <2>2. PullsLeftAlone
    BY <2>1 DEF PullsLeftAlone, PullInv, LruFits
  <2> QED
    BY <1>1, <2>2, ElsewhereKeeps
<1> QED
  BY <1>2, <1>3, <1>4

(* A connection that ends: a held block is freed here, and is PULLING. *)
LEMMA ConnectionKeepsPulls ==
    ASSUME Inv, PullInv, OnePull', NEW i \in Initiators,
           OnCompletionRegErr(i) \/ OnDisconnect(i) \/ ConnectFails(i)
    PROVE  PullInv'
<1>0. conn \in [Initiators -> Connection] /\ Idle.ctx # "app" /\ Idle.phase = "idle"
  BY NullAssumption DEF Inv, ConnOK, Idle
<1>1. CASE OnCompletionRegErr(i) \/ ConnectFails(i) \/ (OnDisconnect(i) /\ conn[i].ctx # "app")
  <2>1. \A j \in Initiators : EntersNoPull(j)
    BY <1>0, <1>1, ClosingEntersNoPull, SetEntersNoPull
       DEF OnCompletionRegErr, ConnectFails, OnDisconnect
  <2>2. PullsLeftAlone
    BY <1>1, MemoryLeftAlone DEF OnCompletionRegErr, ConnectFails, OnDisconnect, ownerVars, memVars
  <2> QED
    BY <2>1, <2>2, ElsewhereKeeps
<1>2. CASE OnDisconnect(i) /\ conn[i].ctx = "app"
  <2> PICK b : b = conn[i].blk
    OBVIOUS
  <2>1. /\ b \in Blocks /\ lru[b] = "PULLING" /\ in_tree[b] = NULL
        /\ \A j \in Initiators \ {i} : conn[j].ctx = "app" => conn[j].blk \in Blocks \ {b}
    BY <1>2 DEF PullInv, HeldPulling, LruFits, Inv, ConnOK, Complete
  <2>2. /\ \A j \in Initiators \ {i} : conn'[j] = conn[j]
        /\ conn'[i].ctx # "app" /\ conn'[i].phase = "idle"
        /\ \A x \in Blocks \ {b} : home'[x] = home[x]
        /\ UNCHANGED <<lru, in_tree, file, next_lru_data>>
    BY <1>0, <1>2, <2>1 DEF OnDisconnect, ownerVars, Inv, MemoryOK
  <2>3. HeldPulling'
    BY <2>1, <2>2 DEF PullInv, HeldPulling
  <2>4. CursorIsOwn'
    BY <2>2 DEF PullInv, CursorIsOwn, MidPull, Initiators
  <2>5. LruFits' /\ FreedStaysOut'
    BY <2>1, <2>2 DEF PullInv, LruFits, FreedStaysOut
  <2> QED
    BY <2>3, <2>4, <2>5 DEF PullInv
<1> QED
  BY <1>1, <1>2

(* Nothing is freed or held at first. *)
LEMMA InitPulls == Init => PullInv
<1> SUFFICES ASSUME Init PROVE PullInv
  OBVIOUS
<1>1. \A i \in Initiators : conn[i].ctx # "app" /\ conn[i].phase = "idle"
  BY NullAssumption DEF Init, Idle
<1>2. OnePull /\ HeldPulling /\ CursorIsOwn
  BY <1>1 DEF OnePull, HeldPulling, CursorIsOwn, Pulling, MidPull, At, Initiators
<1>3. LruFits /\ FreedStaysOut
  BY DEF Init, LruFits, FreedStaysOut
<1> QED
  BY <1>2, <1>3 DEF PullInv

(* Every step keeps the invariant, handler by handler. *)
LEMMA PullsKept == Inv /\ PullInv /\ [Next /\ OnePull']_vars => PullInv'
<1> SUFFICES ASSUME Inv, PullInv, [Next /\ OnePull']_vars PROVE PullInv'
  OBVIOUS
<1>1. CASE UNCHANGED vars
  BY <1>1 DEF vars, ownerVars, memVars, PullInv, OnePull, Pulling, MidPull, At, HeldPulling,
              CursorIsOwn, LruFits, FreedStaysOut
<1>2. CASE Start /\ OnePull'
  BY <1>2, PullKeepsPulls, EvictKeepsPulls, EvictedKeepsPulls, FaultKeepsPulls, DiskKeepsPulls
     DEF Start
<1>3. CASE Handle /\ OnePull'
  BY <1>3, PullKeepsPulls, EvictKeepsPulls, EvictedKeepsPulls, FaultKeepsPulls, DiskKeepsPulls,
     ConnectionKeepsPulls DEF Handle, ClientHandler, EvictedHandler
<1> QED
  BY <1>1, <1>2, <1>3 DEF Next

(***************************************************************************)
(* While no two pulls are under way at once, a block the protocol has      *)
(* freed (rpc.c:155, 915: on_disconnect frees what the context still       *)
(* points at) is never offered, lent or written to disk again.             *)
(***************************************************************************)
THEOREM FreedForGood == OnePullSpec => []FreedStaysOut
<1>1. Inv /\ [Next /\ OnePull']_vars => Inv'
  BY NextKeeps
<1>2. PullInv => FreedStaysOut
  BY DEF PullInv
<1> QED
  BY <1>1, <1>2, InitInv, InitPulls, PullsKept, PTL DEF OnePullSpec

(***************************************************************************)
(* With a single client no two pulls ever are: the property holds of every *)
(* behaviour of the protocol, whatever the adversity.                      *)
(***************************************************************************)
THEOREM FreedForGoodAlone ==
    ASSUME \A c, d \in Clients : c = d
    PROVE  Spec => []FreedStaysOut
<1>1. [Next]_vars => [Next /\ OnePull']_vars
  BY DEF OnePull
<1>2. Spec => OnePullSpec
  BY <1>1, PTL DEF Spec, OnePullSpec
<1> QED
  BY <1>2, FreedForGood, PTL
=============================================================================

------------------------------ MODULE Migration ------------------------------
(***************************************************************************)
(* The handlers of the migration protocol: migrate.c, rpc.c, the requests  *)
(* of migcomm.c and the fault thread of userfaultfd.c, for one owner and   *)
(* its clients.  See MigrationState for the state.                         *)
(*                                                                         *)
(* Which block or node a handler takes depends on hot_degree, which is     *)
(* rand(): here it is any candidate.  Memory rates and the thresholds T1,  *)
(* T2 decide when run() starts an operation and whether a peer refuses:    *)
(* here both are free choices.  All blocks have one size, so               *)
(* from_remote_total_size is from_remote_num times a constant.             *)
(***************************************************************************)
EXTENDS MigrationState

-----------------------------------------------------------------------------
(* Operators with one plausible bug each.  No action uses them: put in the  *)
(* place of the right one, each shows that a property notices the bug.      *)

(* addr and origin_addr of the message swapped. *)
SendSwapped(i, p, m, b, a) ==
    conn' = [conn EXCEPT ![i].phase = p, ![i].msg = m, ![i].blk = a, ![i].buf = b]

(* rc_disconnect forgotten at the end of a handler. *)
DisconnectForgotten(i) == conn' = [conn EXCEPT ![i].phase = "hung"]

(* context_clear forgotten before rc_disconnect. *)
ClearForgotten(i) == conn' = [conn EXCEPT ![i].phase = "closing"]

(* pulled_num of the remote_memory entry not counted down. *)
ReleaseFromUncounted(c, a) ==
    /\ from_remote' = [from_remote EXCEPT ![c][a] = NoNode]
    /\ from_remote_num' = [from_remote_num EXCEPT ![c] = @ - 1]
    /\ UNCHANGED pulled_num

(* del_from_remote_node and rbtree_delete forgotten. *)
ReleaseFromStillLinked(c, a) ==
    /\ UNCHANGED from_remote
    /\ from_remote_num' = [from_remote_num EXCEPT ![c] = @ - 1]
    /\ pulled_num' = [pulled_num EXCEPT ![c] = @ - 1]

(* rbtree_delete forgotten. *)
UnlinkListOnly(n, b) ==
    /\ UNCHANGED in_tree
    /\ in_list' = in_list \ {n}

(* The new node is not counted. *)
LinkNodeUncounted(n, b, c, a) ==
    /\ in_node' = [in_node EXCEPT ![n] =
           [blk |-> b, ip |-> c, raddr |-> a, status |-> "EVICT_WAIT",
            evicted |-> FALSE, alloc |-> TRUE]]
    /\ in_list' = in_list \cup {n}
    /\ in_tree' = [in_tree EXCEPT ![b] = IF @ = NULL THEN n ELSE @]
    /\ UNCHANGED in_remote_num

(* The handler frees the node that the fault thread is polling. *)
MarkEvictedAndFree(n) == in_node' = [in_node EXCEPT ![n] = FreeNode]

(* The buffer's registration does not outlive the pull. *)
TakeBlockUnregistered(c, b, a) ==
    /\ from_remote[c][a].blk = NULL
    /\ from_remote' = [from_remote EXCEPT ![c][a] = [blk |-> b, status |-> "EVICT_WAIT"]]
    /\ from_remote_num' = [from_remote_num EXCEPT ![c] = @ + 1]
    /\ pulled_num' = [pulled_num EXCEPT ![c] = @ + 1]
    /\ UNCHANGED mr

(* The status is restored, but the data is not copied home. *)
BringHomeWithoutCopy(n, b, results) ==
    /\ in_tree' = [in_tree EXCEPT ![b] = NULL]
    /\ in_list' = in_list \ {n}
    /\ in_node' = [in_node EXCEPT ![n] = FreeNode]
    /\ UNCHANGED home
    /\ lru' = [lru EXCEPT ![b] = "PULLED_WAIT"]

(* The pages are registered again before the data has come. *)
ReadResultTooEarly(c, b, a, late) == {late}

(* A block that is being pulled is offered again. *)
WaitingOrPulling == {b \in Blocks : lru[b] \in {"PULLED_WAIT", "PULLING"}}

(* The status test of pagefault_evicted_data is inverted. *)
PagefaultEvictedDataInverted(nodes, b) ==
    LET m == in_tree[b] IN
    IF m # NULL /\ nodes[m].status # "EVICT_WAIT"
    THEN /\ in_node' = [nodes EXCEPT ![m].status = "EVICTING"]
         /\ conn' = [conn EXCEPT !["fault"] =
                [Idle EXCEPT !.phase = "connect", !.msg = "PAGEFAULT_EVICTED_REQUEST",
                             !.cl = nodes[m].ip, !.buf = nodes[m].raddr]]
    ELSE /\ in_node' = nodes
         /\ UNCHANGED conn

-----------------------------------------------------------------------------

(* Connections *)

(* rc_client_loop: the calling thread blocks until its connection is over. *)
Request(i, m, c, b, a, n) ==
    conn' = [conn EXCEPT ![i] = [Idle EXCEPT !.phase = "connect", !.msg = m,
                                 !.cl = c, !.blk = b, !.buf = a, !.node = n]]

At(i, p, m) == conn[i].phase = p /\ conn[i].msg = m

(* send_message on connection i, with the addresses the message carries. *)
Send(i, p, m, b, a) ==
    conn' = [conn EXCEPT ![i].phase = p, ![i].msg = m, ![i].blk = b, ![i].buf = a]

(* The same, from an accepting side whose context now owns x. *)
SendHolding(i, p, m, b, a, x) ==
    conn' = [conn EXCEPT ![i].phase = p, ![i].msg = m, ![i].blk = b,
                         ![i].buf = a, ![i].ctx = x]

(* rc_disconnect by a side that leaves the other side's context alone. *)
Disconnect(i) == conn' = [conn EXCEPT ![i].phase = "closing"]

(* context_clear(ctx) followed by rc_disconnect(id) on the accepting side. *)
ClearAndDisconnect(i) ==
    conn' = [conn EXCEPT ![i].phase = "closing", ![i].ctx = NULL]

Hang(i) == conn' = [conn EXCEPT ![i].phase = "hung"]

-----------------------------------------------------------------------------
(* Lists and counters *)

Live(c, a) == from_remote[c][a].blk # NULL

Held(c) == {a \in Bufs : Live(c, a)}

Waiting == {b \in Blocks : lru[b] = "PULLED_WAIT"}

(* The owner's main thread is in run(), not blocked and not inside to_ssd. *)
MainIdle == conn["main"].phase = "idle" /\ \A b \in Blocks : lru[b] # "FSYNCING"

(* Unlinking and freeing a buffer_from_remote, with the counters. *)
ReleaseFrom(c, a) ==
    /\ from_remote' = [from_remote EXCEPT ![c][a] = NoNode]
    /\ from_remote_num' = [from_remote_num EXCEPT ![c] = @ - 1]
    /\ pulled_num' = [pulled_num EXCEPT ![c] = @ - 1]

(* rbtree_delete and del_in_remote_node of node n of block b. *)
Unlink(n, b) ==
    /\ in_tree' = [in_tree EXCEPT ![b] = NULL]
    /\ in_list' = in_list \ {n}

(* A new buffer_in_remote, linked and counted; the tree drops a second node. *)
LinkNode(n, b, c, a) ==
    /\ in_node' = [in_node EXCEPT ![n] =
           [blk |-> b, ip |-> c, raddr |-> a, status |-> "EVICT_WAIT",
            evicted |-> FALSE, alloc |-> TRUE]]
    /\ in_list' = in_list \cup {n}
    /\ in_tree' = [in_tree EXCEPT ![b] = IF @ = NULL THEN n ELSE @]
    /\ in_remote_num' = in_remote_num + 1

(* The node stays allocated: its flag tells the fault thread, which frees it. *)
MarkEvicted(n) == in_node' = [in_node EXCEPT ![n].evicted = TRUE]

(* What the block holds after read_remote(raddr) over a connection to c. *)
ReadResult(c, b, a, late) ==
    IF [buf |-> a, blk |-> b] \notin mr[c] THEN {"junk"}
    ELSE {"data"} \cup IF "async" \in Adversity THEN {late} ELSE {}

(***************************************************************************)
(* The owner copies a block home from a client (EVICT_REQUEST and          *)
(* EVICTED_REQUEST_RET): unlink, unregister_userfaultfd, memcpy,           *)
(* update_lru_data and free of the node.                                   *)
(***************************************************************************)
BringHome(n, b, results) ==
    /\ Unlink(n, b)
    /\ in_node' = [in_node EXCEPT ![n] = FreeNode]
    /\ \E h \in results : home' = [home EXCEPT ![b] = h]
    /\ lru' = [lru EXCEPT ![b] = "PULLED_WAIT"]

(* A signal kills the owner's process: nothing of it runs any more. *)
Crash == up' = FALSE /\ UNCHANGED <<ownerVars, memVars, fault, clientVars, conn>>

-----------------------------------------------------------------------------
Init ==
    /\ lru = [b \in Blocks |-> "PULLED_WAIT"]
    /\ next_lru_data = NULL
    /\ in_node = [n \in Chunks |-> FreeNode]
    /\ in_list = {}
    /\ in_tree = [b \in Blocks |-> NULL]
    /\ in_remote_num = 0
    /\ home = [b \in Blocks |-> "data"]
    /\ file = [b \in Blocks |-> "none"]
    /\ to_ssd_num = 0
    /\ fault = NoFault
    /\ up = TRUE
    /\ from_remote = [c \in Clients |-> [a \in Bufs |-> NoNode]]
    /\ from_remote_num = [c \in Clients |-> 0]
    /\ pulled_num = [c \in Clients |-> 0]
    /\ need_pulled = [c \in Clients |-> FALSE]
    /\ mr = [c \in Clients |-> {}]
    /\ conn = [i \in Initiators |-> Idle]

-----------------------------------------------------------------------------
(* Memory information: a client learns whether the owner wants to be pulled. *)

GetRemoteMemory(c) ==
    /\ conn[c].phase = "idle"
    /\ Request(c, "MEM_INFO", c, NULL, NULL, NULL)
    /\ UNCHANGED <<ownerVars, memVars, fault, up, clientVars>>

OnConnectionMemInfo(c) ==
    /\ At(c, "connect", "MEM_INFO")
    /\ Send(c, "toInit", "MEM_INFO_RET", NULL, NULL)
    /\ UNCHANGED <<ownerVars, memVars, fault, up, clientVars>>

(* The owner's need_pulled follows its memory rate: any value. *)
OnCompletionMemInfoRet(c) ==
    /\ At(c, "toInit", "MEM_INFO_RET")
    /\ \E v \in BOOLEAN : need_pulled' = [need_pulled EXCEPT ![c] = v]
    /\ Disconnect(c)
    /\ UNCHANGED <<ownerVars, memVars, fault, up, from_remote, from_remote_num, pulled_num, mr>>

-----------------------------------------------------------------------------
(* Pull: a client takes a block of the owner. *)

PullData(c) ==
    /\ "pull" \in Ops
    /\ conn[c].phase = "idle"
    /\ need_pulled[c]
    /\ Request(c, "PULL_REQUEST", c, NULL, NULL, NULL)
    /\ UNCHANGED <<ownerVars, memVars, fault, up, clientVars>>

(***************************************************************************)
(* The cursor moves even when the owner then answers NOT_NEED.  When       *)
(* ibv_reg_mr fails the owner disconnects with its context still pointing  *)
(* at the block.                                                           *)
(***************************************************************************)
OnConnectionPull(c) ==
    /\ At(c, "connect", "PULL_REQUEST")
    /\ \/ /\ Waiting = {}
          /\ next_lru_data' = NULL
          /\ Send(c, "toInit", "PULL_REQUEST_RET_NO_DATA", NULL, NULL)
          /\ UNCHANGED lru
       \/ \E b \in Waiting :
            /\ next_lru_data' = b
            /\ \/ /\ "refuse" \in Ops
                  /\ Send(c, "toInit", "PULL_REQUEST_RET_NOT_NEED", NULL, NULL)
                  /\ UNCHANGED lru
               \/ /\ lru' = [lru EXCEPT ![b] = "PULLING"]
                  /\ SendHolding(c, "toInit", "PULL_REQUEST_RET", b, NULL, "app")
               \/ /\ "regfail" \in Adversity
                  /\ lru' = [lru EXCEPT ![b] = "PULLING"]
                  /\ SendHolding(c, "closing", "PULL_REQUEST", b, NULL, "app")
    /\ UNCHANGED <<in_node, in_list, in_tree, in_remote_num, memVars, fault, up, clientVars>>

OnCompletionPullNotNeeded(c) ==
    /\ \/ At(c, "toInit", "PULL_REQUEST_RET_NO_DATA")
       \/ At(c, "toInit", "PULL_REQUEST_RET_NOT_NEED")
    /\ need_pulled' = [need_pulled EXCEPT ![c] = FALSE]
    /\ Disconnect(c)
    /\ UNCHANGED <<ownerVars, memVars, fault, up, from_remote, from_remote_num, pulled_num, mr>>

(***************************************************************************)
(* The client takes the block, or refuses because it would pass T1 (the    *)
(* refusal and the disconnect are sent together), or cannot register a     *)
(* buffer.  Bound: a block is not put at an address where an older         *)
(* registration of the same block is still alive, so that a registration   *)
(* is told apart by its address and its block.                             *)
(***************************************************************************)
TakeBlock(c, b, a) ==
    /\ ~Live(c, a)
    /\ [buf |-> a, blk |-> b] \notin mr[c]
    /\ from_remote' = [from_remote EXCEPT ![c][a] = [blk |-> b, status |-> "EVICT_WAIT"]]
    /\ from_remote_num' = [from_remote_num EXCEPT ![c] = @ + 1]
    /\ pulled_num' = [pulled_num EXCEPT ![c] = @ + 1]
    /\ mr' = [mr EXCEPT ![c] = @ \cup {[buf |-> a, blk |-> b]}]

OnCompletionPullRet(c) ==
    /\ At(c, "toInit", "PULL_REQUEST_RET")
    /\ \/ \E a \in Bufs :
            /\ TakeBlock(c, conn[c].blk, a)
            /\ Send(c, "toAcc", "CLIENT_DONE", conn[c].blk, a)
       \/ /\ "refuse" \in Ops
          /\ Send(c, "toAcc", "PULL_REQUEST_BUT_NOT_PULL", conn[c].blk, NULL)
          /\ UNCHANGED <<from_remote, from_remote_num, pulled_num, mr>>
       \/ /\ "regfail" \in Adversity
          /\ Send(c, "toAcc", "IBVREG_ERR", conn[c].blk, NULL)
          /\ UNCHANGED <<from_remote, from_remote_num, pulled_num, mr>>
    /\ UNCHANGED <<ownerVars, memVars, fault, up, need_pulled>>

(***************************************************************************)
(* The owner marks the block of its cursor, links a node for the block of  *)
(* the message, releases the pages and only then registers them.           *)
(***************************************************************************)
OnCompletionClientDone(c) ==
    /\ At(c, "toAcc", "CLIENT_DONE")
    /\ next_lru_data # NULL
    /\ LET b == conn[c].blk IN
       /\ \E n \in Chunks :
            /\ ~in_node[n].alloc
            /\ LinkNode(n, b, c, conn[c].buf)
       /\ \E h \in {"absent"} \cup IF "touch" \in Adversity THEN {"junk"} ELSE {} :
            home' = [home EXCEPT ![b] = h]
    /\ lru' = [lru EXCEPT ![next_lru_data] = "PULLED_DONE"]
    /\ ClearAndDisconnect(c)
    /\ UNCHANGED <<next_lru_data, file, to_ssd_num, fault, up, clientVars>>

(* The client's disconnect of the same handler is already on its way. *)
OnCompletionButNotPull(c) ==
    /\ At(c, "toAcc", "PULL_REQUEST_BUT_NOT_PULL")
    /\ next_lru_data # NULL
    /\ lru' = [lru EXCEPT ![next_lru_data] = "PULLED_WAIT"]
    /\ ClearAndDisconnect(c)
    /\ UNCHANGED <<next_lru_data, in_node, in_list, in_tree, in_remote_num, memVars,
                   fault, up, clientVars>>

(* Either handler writes through the cursor without looking at it. *)
CursorIsNull(c) ==
    /\ \/ At(c, "toAcc", "CLIENT_DONE")
       \/ At(c, "toAcc", "PULL_REQUEST_BUT_NOT_PULL")
    /\ next_lru_data = NULL
    /\ Crash

-----------------------------------------------------------------------------
(* Evict: a client gives a block back. *)

EvictData(c) ==
    /\ "evict" \in Ops
    /\ conn[c].phase = "idle"
    /\ \E a \in Held(c) :
        /\ from_remote[c][a].status = "EVICT_WAIT"
        /\ from_remote' = [from_remote EXCEPT ![c][a].status = "EVICTING"]
        /\ Request(c, "EVICT_REQUEST", c, from_remote[c][a].blk, NULL, NULL)
    /\ UNCHANGED <<ownerVars, memVars, fault, up, from_remote_num, pulled_num, need_pulled, mr>>

(***************************************************************************)
(* The node's status is not looked at.  The block is copied home right     *)
(* after the read is posted.  If the node is not found the owner neither   *)
(* answers nor disconnects; if the registration is gone the read fails,    *)
(* the queue pair is in error and the answer is never sent.                *)
(***************************************************************************)
OnConnectionEvict(c) ==
    /\ At(c, "connect", "EVICT_REQUEST")
    /\ LET b == conn[c].blk
           n == in_tree[b]
       IN  \/ /\ n = NULL
              /\ Hang(c)
              /\ UNCHANGED <<lru, in_node, in_list, in_tree, in_remote_num, home>>
           \/ /\ n # NULL
              /\ "regfail" \in Adversity
              /\ in_node' = [in_node EXCEPT ![n].status = "EVICTING"]
              /\ Send(c, "toInit", "IBVREG_ERR", b, NULL)
              /\ UNCHANGED <<lru, in_list, in_tree, in_remote_num, home>>
           \/ /\ n # NULL
              /\ BringHome(n, b, ReadResult(c, b, in_node[n].raddr, "junk"))
              /\ in_remote_num' = in_remote_num - 1
              /\ IF [buf |-> in_node[n].raddr, blk |-> b] \in mr[c]
                 THEN Send(c, "toInit", "EVICT_REQUEST_RET", b, in_node[n].raddr)
                 ELSE Hang(c)
    /\ UNCHANGED <<next_lru_data, file, to_ssd_num, fault, up, clientVars>>

(* With a plausible bug: ibv_dereg_mr forgotten. *)
OnCompletionEvictRetLeaking(c) ==
    /\ At(c, "toInit", "EVICT_REQUEST_RET")
    /\ IF Live(c, conn[c].buf) THEN ReleaseFrom(c, conn[c].buf)
       ELSE UNCHANGED <<from_remote, from_remote_num, pulled_num>>
    /\ Disconnect(c)
    /\ UNCHANGED <<ownerVars, memVars, fault, up, need_pulled, mr>>

OnCompletionEvictRet(c) ==
    /\ At(c, "toInit", "EVICT_REQUEST_RET")
    /\ LET a == conn[c].buf IN
       \/ /\ Live(c, a)
          /\ mr' = [mr EXCEPT ![c] = @ \ {[buf |-> a, blk |-> from_remote[c][a].blk]}]
          /\ ReleaseFrom(c, a)
       \/ /\ ~Live(c, a)
          /\ UNCHANGED <<from_remote, from_remote_num, pulled_num, mr>>
    /\ Disconnect(c)
    /\ UNCHANGED <<ownerVars, memVars, fault, up, need_pulled>>
-----------------------------------------------------------------------------
(* Evicted: the owner takes a block back.  (When ibv_reg_mr fails,          *)
(* evicted_data returns before it has changed anything.)                    *)

EvictedData ==
    /\ "evicted" \in Ops
    /\ MainIdle
    /\ in_remote_num > 0
    /\ \E n \in in_list :
        /\ in_node[n].status = "EVICT_WAIT"
        /\ in_node' = [in_node EXCEPT ![n].status = "EVICTING"]
        /\ Request("main", "EVICTED_REQUEST", in_node[n].ip, NULL, in_node[n].raddr, n)
    /\ UNCHANGED <<lru, next_lru_data, in_list, in_tree, in_remote_num, memVars, fault, up,
                   clientVars>>

(***************************************************************************)
(* The client writes the block to the owner's new buffer and forgets it,   *)
(* whatever its node's status; its registration goes with the connection.  *)
(* If the node is not found it neither answers nor disconnects.            *)
(***************************************************************************)
OnConnectionEvicted ==
    /\ At("main", "connect", "EVICTED_REQUEST")
    /\ LET c == conn["main"].cl
           a == conn["main"].buf
       IN  \/ /\ ~Live(c, a)
              /\ Hang("main")
              /\ UNCHANGED <<from_remote, from_remote_num, pulled_num>>
           \/ /\ Live(c, a)
              /\ ReleaseFrom(c, a)
              /\ SendHolding("main", "toInit", "EVICTED_REQUEST_RET",
                             from_remote[c][a].blk, a, "mr")
    /\ UNCHANGED <<ownerVars, memVars, fault, up, need_pulled, mr>>

(***************************************************************************)
(* The node is looked up again by the block's address, and its new_addr    *)
(* is the buffer the client wrote only if it is the node that was asked    *)
(* for.  The counter goes down whether or not a node was found.            *)
(***************************************************************************)
OnCompletionEvictedRet ==
    /\ At("main", "toInit", "EVICTED_REQUEST_RET")
    /\ LET b == conn["main"].blk
           n == in_tree[b]
       IN  \/ /\ n = NULL
              /\ UNCHANGED <<lru, in_node, in_list, in_tree, home>>
           \/ /\ n # NULL
              /\ BringHome(n, b, IF n = conn["main"].node THEN {"data"} ELSE {"junk"})
    /\ in_remote_num' = in_remote_num - 1
    /\ Disconnect("main")
    /\ UNCHANGED <<next_lru_data, file, to_ssd_num, fault, up, clientVars>>

-----------------------------------------------------------------------------
(* Page fault: an application reads a block that is not at home. *)

FaultRead(b) ==
    /\ "pagefault" \in Ops
    /\ fault.pc = "idle"
    /\ home[b] = "absent"
    /\ fault' = [NoFault EXCEPT !.pc = "search", !.blk = b]
    /\ UNCHANGED <<ownerVars, memVars, up, clientVars, conn>>

(* pagefault_evicted_data, on nodes as the caller left them. *)
PagefaultEvictedData(nodes, b) ==
    LET m == in_tree[b] IN
    IF m # NULL /\ nodes[m].status = "EVICT_WAIT"
    THEN /\ in_node' = [nodes EXCEPT ![m].status = "EVICTING"]
         /\ Request("fault", "PAGEFAULT_EVICTED_REQUEST", nodes[m].ip, NULL, nodes[m].raddr, NULL)
    ELSE /\ in_node' = nodes
         /\ UNCHANGED conn

(* The list of nodes is searched; the fault thread keeps the node it found. *)
FaultSearchRemote ==
    /\ fault.pc = "search"
    /\ \E n \in in_list :
        /\ in_node[n].blk = fault.blk
        /\ fault' = [fault EXCEPT !.pc = "poll", !.curr = n]
    /\ PagefaultEvictedData(in_node, fault.blk)
    /\ UNCHANGED <<lru, next_lru_data, in_list, in_tree, in_remote_num, memVars, up, clientVars>>

(***************************************************************************)
(* A block that is not remote is read from its file.  A short read leaves  *)
(* the pages unregistered and half filled; without a file, fread gets the  *)
(* NULL that fopen returned.                                               *)
(***************************************************************************)
FaultSearchDisk ==
    /\ fault.pc = "search"
    /\ \A n \in in_list : in_node[n].blk # fault.blk
    /\ LET b == fault.blk IN
       \/ /\ file[b] = "full"
          /\ to_ssd_num' = to_ssd_num - 1
          /\ lru' = [lru EXCEPT ![b] = "PULLED_WAIT"]
          /\ file' = [file EXCEPT ![b] = "none"]
          /\ home' = [home EXCEPT ![b] = "data"]
          /\ fault' = NoFault
          /\ UNCHANGED <<next_lru_data, in_node, in_list, in_tree, in_remote_num, up,
                         clientVars, conn>>
       \/ /\ file[b] = "short"
          /\ home' = [home EXCEPT ![b] = "junk"]
          /\ fault' = NoFault
          /\ UNCHANGED <<ownerVars, file, to_ssd_num, up, clientVars, conn>>
       \/ /\ file[b] = "none"
          /\ Crash

OnConnectionPagefault ==
    /\ At("fault", "connect", "PAGEFAULT_EVICTED_REQUEST")
    /\ LET c == conn["fault"].cl
           a == conn["fault"].buf
       IN  \/ /\ Live(c, a) /\ from_remote[c][a].status = "EVICT_WAIT"
              /\ from_remote' = [from_remote EXCEPT ![c][a].status = "EVICTING"]
              /\ Send("fault", "toInit", "PAGEFAULT_EVICTED_REQUEST_RET",
                      from_remote[c][a].blk, NULL)
           \/ /\ ~Live(c, a) \/ from_remote[c][a].status # "EVICT_WAIT"
              /\ Disconnect("fault")
              /\ UNCHANGED from_remote
    /\ UNCHANGED <<ownerVars, memVars, fault, up, from_remote_num, pulled_num, need_pulled, mr>>

(***************************************************************************)
(* The pages are unregistered (so the reader goes on) and then the read is *)
(* posted into them.  update_lru_data is commented out.                    *)
(***************************************************************************)
OnCompletionPagefaultRet ==
    /\ At("fault", "toInit", "PAGEFAULT_EVICTED_REQUEST_RET")
    /\ LET b == conn["fault"].blk
           c == conn["fault"].cl
           n == in_tree[b]
       IN  \/ /\ n = NULL
              /\ Disconnect("fault")
              /\ UNCHANGED <<in_node, in_list, in_tree, in_remote_num, home>>
           \/ /\ n # NULL
              /\ "regfail" \in Adversity
              /\ home' = [home EXCEPT ![b] = "junk"]
              /\ Send("fault", "toAcc", "IBVREG_ERR", b, NULL)
              /\ UNCHANGED <<in_node, in_list, in_tree, in_remote_num>>
           \/ /\ n # NULL
              /\ Unlink(n, b)
              /\ MarkEvicted(n)
              /\ in_remote_num' = in_remote_num - 1
              /\ \E h \in ReadResult(c, b, in_node[n].raddr, "filling") :
                     home' = [home EXCEPT ![b] = h]
              /\ IF [buf |-> in_node[n].raddr, blk |-> b] \in mr[c]
                 THEN Send("fault", "toAcc", "PAGEFAULT_EVICTED_REQUEST_DONE", b, in_node[n].raddr)
                 ELSE Hang("fault")
    /\ UNCHANGED <<lru, next_lru_data, file, to_ssd_num, fault, up, clientVars>>

(* The RDMA read posted by OnCompletionPagefaultRet completes. *)
ReadLands(b) ==
    /\ home[b] = "filling"
    /\ home' = [home EXCEPT ![b] = "data"]
    /\ UNCHANGED <<ownerVars, file, to_ssd_num, fault, up, clientVars, conn>>

(* The registration of the freed buffer is not released. *)
OnCompletionPagefaultDone ==
    /\ At("fault", "toAcc", "PAGEFAULT_EVICTED_REQUEST_DONE")
    /\ LET c == conn["fault"].cl
           a == conn["fault"].buf
       IN  \/ /\ Live(c, a) /\ from_remote[c][a].status = "EVICTING"
              /\ ReleaseFrom(c, a)
           \/ /\ ~Live(c, a) \/ from_remote[c][a].status # "EVICTING"
              /\ UNCHANGED <<from_remote, from_remote_num, pulled_num>>
    /\ Disconnect("fault")
    /\ UNCHANGED <<ownerVars, memVars, fault, up, need_pulled, mr>>

(* The fault thread sees the flag of the node it kept, and frees the node. *)
FaultDone ==
    /\ fault.pc = "poll" /\ conn["fault"].phase = "idle"
    /\ in_node[fault.curr].alloc /\ in_node[fault.curr].evicted
    /\ in_node' = [in_node EXCEPT ![fault.curr] = FreeNode]
    /\ fault' = NoFault
    /\ UNCHANGED <<lru, next_lru_data, in_list, in_tree, in_remote_num, memVars, up, clientVars,
                   conn>>

(* After 100 ms without the flag: the node is reset and asked for again. *)
FaultRetry ==
    /\ fault.pc = "poll" /\ conn["fault"].phase = "idle"
    /\ LET n == fault.curr IN
       /\ in_node[n].alloc /\ ~in_node[n].evicted
       /\ PagefaultEvictedData([in_node EXCEPT ![n].status = "EVICT_WAIT"], in_node[n].blk)
    /\ UNCHANGED <<lru, next_lru_data, in_list, in_tree, in_remote_num, memVars, fault, up,
                   clientVars>>

(***************************************************************************)
(* Another thread has freed the node.  While the bytes where the flag was  *)
(* read as zero the thread goes on polling; read as anything else, the     *)
(* node is freed a second time.                                            *)
(***************************************************************************)
FaultDoubleFree ==
    /\ fault.pc = "poll" /\ conn["fault"].phase = "idle"
    /\ ~in_node[fault.curr].alloc
    /\ Crash

-----------------------------------------------------------------------------
(* to_ssd: the owner moves a block to its disk. *)

ToSsdBegin ==
    /\ "to_ssd" \in Ops
    /\ MainIdle
    /\ \E b \in Waiting : lru' = [lru EXCEPT ![b] = "FSYNCING"]
    /\ UNCHANGED <<next_lru_data, in_node, in_list, in_tree, in_remote_num, memVars, fault, up,
                   clientVars, conn>>

(* Any result of write() but 0 counts as success: -1 and short writes too. *)
ToSsdEnd(b) ==
    /\ lru[b] = "FSYNCING"
    /\ \/ /\ \E f \in {"full"} \cup IF "wfail" \in Adversity THEN {"short", "none"} ELSE {} :
               file' = [file EXCEPT ![b] = f]
          /\ \E h \in {"absent"} \cup IF "touch" \in Adversity THEN {"junk"} ELSE {} :
               home' = [home EXCEPT ![b] = h]
          /\ lru' = [lru EXCEPT ![b] = "FSYNC_DONE"]
          /\ to_ssd_num' = to_ssd_num + 1
       \/ /\ "wfail" \in Adversity
          /\ lru' = [lru EXCEPT ![b] = "PULLED_WAIT"]
          /\ file' = [file EXCEPT ![b] = "none"]
          /\ UNCHANGED <<home, to_ssd_num>>
    /\ UNCHANGED <<next_lru_data, in_node, in_list, in_tree, in_remote_num, fault, up,
                   clientVars, conn>>

-----------------------------------------------------------------------------
(* Connections *)

OnCompletionRegErr(i) ==
    /\ At(i, "toInit", "IBVREG_ERR") \/ At(i, "toAcc", "IBVREG_ERR")
    /\ ClearAndDisconnect(i)
    /\ UNCHANGED <<ownerVars, memVars, fault, up, clientVars>>

(***************************************************************************)
(* The disconnect event on both sides: on_disconnect on the accepting one  *)
(* releases what its context holds, rc_client_loop returns on the other.   *)
(* A refusing client disconnects in the handler that sends its refusal, so *)
(* the event may be handled before the refusal, which is then lost.        *)
(***************************************************************************)
Disconnecting(i) ==
    \/ conn[i].phase = "closing"
    \/ "overtake" \in Adversity /\ At(i, "toAcc", "PULL_REQUEST_BUT_NOT_PULL")

OnDisconnect(i) ==
    /\ Disconnecting(i)
    /\ conn' = [conn EXCEPT ![i] = Idle]
    /\ home' = IF conn[i].ctx = "app" THEN [home EXCEPT ![conn[i].blk] = "freed"] ELSE home
    /\ mr' = IF conn[i].ctx = "mr"
             THEN [mr EXCEPT ![conn[i].cl] = @ \ {[buf |-> conn[i].buf, blk |-> conn[i].blk]}]
             ELSE mr
    /\ UNCHANGED <<ownerVars, file, to_ssd_num, fault, up, from_remote, from_remote_num,
                   pulled_num, need_pulled>>

(* event_loop returns on any event it does not know, and on a rejection. *)
ConnectFails(i) ==
    /\ "connfail" \in Adversity
    /\ conn[i].phase = "connect"
    /\ conn' = [conn EXCEPT ![i] = Idle]
    /\ UNCHANGED <<ownerVars, memVars, fault, up, clientVars>>

-----------------------------------------------------------------------------
(* What runs by itself once it is enabled, and what a machine may start. *)

ClientHandler(c) ==
    \/ OnConnectionMemInfo(c)
    \/ OnCompletionMemInfoRet(c)
    \/ OnConnectionPull(c)
    \/ OnCompletionPullNotNeeded(c)
    \/ OnCompletionPullRet(c)
    \/ OnCompletionClientDone(c)
    \/ OnCompletionButNotPull(c)
    \/ CursorIsNull(c)
    \/ OnConnectionEvict(c)
    \/ OnCompletionEvictRet(c)

EvictedHandler == OnConnectionEvicted \/ OnCompletionEvictedRet

FaultHandler ==
    \/ FaultSearchRemote
    \/ FaultSearchDisk
    \/ OnConnectionPagefault
    \/ OnCompletionPagefaultRet
    \/ OnCompletionPagefaultDone
    \/ FaultDone
    \/ FaultRetry
    \/ FaultDoubleFree

Start ==
    \/ \E c \in Clients : GetRemoteMemory(c) \/ PullData(c) \/ EvictData(c)
    \/ EvictedData
    \/ ToSsdBegin
    \/ \E b \in Blocks : FaultRead(b)

Handle ==
    \/ \E c \in Clients : ClientHandler(c)
    \/ EvictedHandler
    \/ FaultHandler
    \/ \E b \in Blocks : ReadLands(b) \/ ToSsdEnd(b)
    \/ \E i \in Initiators : OnCompletionRegErr(i) \/ OnDisconnect(i) \/ ConnectFails(i)

Next == up /\ (Start \/ Handle)

Spec == Init /\ [][Next]_vars

(***************************************************************************)
(* The threads that serve connections, completions and faults are always   *)
(* in their loops, so what they have to do gets done; nothing obliges      *)
(* run() to start an operation, or an application to read a block.         *)
(***************************************************************************)
Fairness ==
    /\ \A c \in Clients : WF_vars(up /\ ClientHandler(c))
    /\ WF_vars(up /\ EvictedHandler)
    /\ WF_vars(up /\ FaultHandler)
    /\ \A b \in Blocks : WF_vars(up /\ ReadLands(b)) /\ WF_vars(up /\ ToSsdEnd(b))
    /\ \A i \in Initiators :
        WF_vars(up /\ OnCompletionRegErr(i)) /\ WF_vars(up /\ OnDisconnect(i))

FairSpec == Spec /\ Fairness
=============================================================================

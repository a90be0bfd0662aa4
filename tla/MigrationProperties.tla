------------------------ MODULE MigrationProperties ------------------------
(***************************************************************************)
(* What the migration protocol is for: a lent block can always be brought  *)
(* back, an application never reads anything but its data, both machines   *)
(* keep the same books, and every request comes to an end.                 *)
(***************************************************************************)
EXTENDS Migration

OwnerTypeOK ==
    /\ lru \in [Blocks -> LruStatus]
    /\ next_lru_data \in Blocks \cup {NULL}
    /\ in_node \in [Chunks -> InNode]
    /\ in_list \subseteq Chunks
    /\ in_tree \in [Blocks -> Chunks \cup {NULL}]
    /\ in_remote_num \in Int
    /\ home \in [Blocks -> HomeState]
    /\ file \in [Blocks -> FileState]
    /\ to_ssd_num \in Int
    /\ fault \in Fault

ClientTypeOK ==
    /\ from_remote \in [Clients -> [Bufs -> FromNode]]
    /\ from_remote_num \in [Clients -> Int]
    /\ pulled_num \in [Clients -> Int]
    /\ need_pulled \in [Clients -> BOOLEAN]
    /\ mr \in [Clients -> SUBSET Region]

(* Type invariant of the whole state. *)
TypeOK ==
    /\ OwnerTypeOK
    /\ ClientTypeOK
    /\ conn \in [Initiators -> Connection]
    /\ up \in BOOLEAN

(***************************************************************************)
(* A client counts its borrowed blocks twice, in from_remote_num and in    *)
(* the pulled_num of its remote_memory entry; three different handlers     *)
(* take a node out (rpc.c:541-551, 965-980, 1263-1280), and both numbers   *)
(* must stay the number of nodes in its list: run() loops until            *)
(* from_remote_num is 0 (migrate.c:599).                                   *)
(***************************************************************************)
ClientBooks ==
    \A c \in Clients :
        /\ from_remote_num[c] = Cardinality(Held(c))
        /\ pulled_num[c] = Cardinality(Held(c))

(***************************************************************************)
(* The owner's tree indexes its list: what rbtree_search returns is a node *)
(* of that block, is in the list, and no listed node has been freed or is  *)
(* waiting to be freed by the fault thread, although four handlers unlink  *)
(* nodes and three free them.                                              *)
(***************************************************************************)
InRemoteIndexSound ==
    /\ \A b \in Blocks : in_tree[b] # NULL =>
          /\ in_tree[b] \in in_list
          /\ in_node[in_tree[b]].blk = b
    /\ \A n \in in_list : in_node[n].alloc /\ ~in_node[n].evicted

(* in_remote_num is the length of the list (migrate.c:559 relies on it). *)
InRemoteNumMatches == in_remote_num = Cardinality(in_list)

(***************************************************************************)
(* An application that touches a block reads its data, or blocks on the    *)
(* fault thread: it never goes on with zeros, half a block or freed        *)
(* memory.                                                                 *)
(***************************************************************************)
AppReadsData == \A b \in Blocks : home[b] \in {"data", "absent"}

(* The copy of block b that the owner's node n points at is still there. *)
Backed(n, b) == [buf |-> in_node[n].raddr, blk |-> b] \in mr[in_node[n].ip]

(***************************************************************************)
(* A block is never lost: it is at home, or on disk, or a node in the tree *)
(* leads to a live registration of its copy, or the copy has been written  *)
(* into the owner's new buffer and the answer is in flight.                *)
(***************************************************************************)
BlockSurvives ==
    \A b \in Blocks :
        \/ home[b] \in {"data", "filling"}
        \/ file[b] = "full"
        \/ in_tree[b] # NULL /\ Backed(in_tree[b], b)

(* Every node the owner lists can be read through a live registration. *)
ListedIsBacked == \A n \in in_list : Backed(n, in_node[n].blk)

(* Only a block that is at home is offered to a puller or to the disk. *)
WaitingIsAtHome == \A b \in Waiting : home[b] = "data"

(* No block has two nodes: it is never lent to two clients. *)
LentOnce ==
    \A m, n \in in_list : in_node[m].blk = in_node[n].blk => m = n

(* Block b is being moved by connection i. *)
Moving(b) ==
    \E i \in Initiators :
        /\ conn[i].blk = b
        /\ conn[i].msg \in {"CLIENT_DONE", "EVICT_REQUEST", "EVICT_REQUEST_RET",
                            "EVICTED_REQUEST_RET", "PAGEFAULT_EVICTED_REQUEST_DONE"}

(***************************************************************************)
(* Apart from a block that is being moved, a client holds a block exactly  *)
(* when the owner's list says so, at the same address.                     *)
(***************************************************************************)
PeersAgree ==
    /\ \A c \in Clients, a \in Bufs :
          Live(c, a) /\ ~Moving(from_remote[c][a].blk) =>
              \E n \in in_list : /\ in_node[n].blk = from_remote[c][a].blk
                                 /\ in_node[n].ip = c /\ in_node[n].raddr = a
    /\ \A n \in in_list :
          ~Moving(in_node[n].blk) =>
              from_remote[in_node[n].ip][in_node[n].raddr].blk = in_node[n].blk

(* The node the fault thread polls is not freed behind its back. *)
FaultNodeAlive == fault.pc = "poll" => in_node[fault.curr].alloc

(* No handler dereferences a NULL pointer or frees a node twice. *)
NoCrash == up

(***************************************************************************)
(* The handlers that refuse a pull or fail to register disconnect with     *)
(* the context still pointing at the application's block, and              *)
(* on_disconnect then frees it (rpc.c:155, 915).  Such a block is at       *)
(* least never offered, lent or written to disk again, as long as no two   *)
(* pulls are under way at once: the second would move the cursor by which  *)
(* the handlers of the first find their block.                             *)
(***************************************************************************)
FreedStaysOut ==
    \A b \in Blocks : home[b] = "freed" => lru[b] = "PULLING" /\ in_tree[b] = NULL

(* No node and no context will ever release this registration. *)
Leaked(c, r) ==
    /\ from_remote[c][r.buf].blk # r.blk
    /\ ~(conn["main"].ctx = "mr" /\ conn["main"].cl = c
         /\ conn["main"].buf = r.buf /\ conn["main"].blk = r.blk)

(***************************************************************************)
(* PAGEFAULT_EVICTED_REQUEST_DONE clears the context without releasing the *)
(* buffer's registration (rpc.c:996).  What bounds the leak is elsewhere:  *)
(* update_lru_data is commented out in the answer's handler (rpc.c:1126),  *)
(* so a block that came home by a page fault never leaves again.           *)
(***************************************************************************)
LeaksOnce ==
    \A b \in Blocks :
        Cardinality({l \in Clients \X Region : /\ l[2].blk = b /\ l[2] \in mr[l[1]]
                                               /\ Leaked(l[1], l[2])}) <= 1

(***************************************************************************)
(* rc_client_loop returns: whoever starts a request gets its connection    *)
(* closed (rdma/common.c:311).  run() and the fault thread block in it.    *)
(***************************************************************************)
RequestsReturn ==
    \A i \in Initiators : conn[i].phase # "idle" ~> conn[i].phase = "idle"

-----------------------------------------------------------------------------
(* The threads that are bringing a block home, each by its own way. *)
ComingHome ==
    {c \in Clients : conn[c].msg \in {"EVICT_REQUEST", "EVICT_REQUEST_RET"}}
    \cup {i \in {"main"} : conn[i].phase # "idle"}
    \cup {i \in {"fault"} : fault.pc # "idle"}

(***************************************************************************)
(* The behaviours in which the three ways home do not cross: a way home    *)
(* begins when no other is under way.  The violation runs show what        *)
(* crossing costs.  Only Start is restricted, and it has no fairness.      *)
(***************************************************************************)
OneWayHome == Cardinality(ComingHome) <= 1

SerialSpec == Init /\ [][Next /\ OneWayHome']_vars /\ Fairness
=============================================================================

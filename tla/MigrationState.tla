--------------------------- MODULE MigrationState ---------------------------
(***************************************************************************)
(* The state of the migration protocol between one owner of memory blocks  *)
(* (the "server" of rpc.c, whose lru_data blocks are lent out) and the     *)
(* machines that hold its blocks (the "clients" of rpc.c).                 *)
(*                                                                         *)
(* The program plays both roles in one process, but the two roles share no *)
(* list, tree or counter (in_remote_xxx and lru_data against from_remote_xxx  *)
(* and remote_memory), so one owner and a set of clients show every         *)
(* interaction between two machines.                                       *)
(*                                                                         *)
(* Every machine runs the thread of run(), the server thread (event_loop), *)
(* the completion thread (poll_cq) and the page-fault thread, with no lock *)
(* anywhere.  One step of the model is one handler: on_connection,         *)
(* on_completion or on_disconnect for one message, or one stretch of run() *)
(* or of the fault thread between two blocking calls.                      *)
(***************************************************************************)
EXTENDS Integers, FiniteSets

CONSTANTS
    Clients,   \* machines that pull blocks from the owner
    Blocks,    \* the owner's lru_data blocks; a block is also its address
    Bufs,      \* addresses posix_memalign may give a client's buffer (reused after free)
    Chunks,    \* addresses malloc may give a buffer_in_remote (reused after free)
    NULL,
    Ops,       \* the operations that run in this instance
    Adversity  \* what goes wrong in this instance

AllOps == {"pull", "refuse", "evict", "evicted", "pagefault", "to_ssd"}

(***************************************************************************)
(* async     an RDMA read has not landed when the next statement runs      *)
(* overtake  the disconnect event is handled before the last message       *)
(* regfail   ibv_reg_mr returns NULL                                       *)
(* connfail  the connection is rejected or another CM event is reported    *)
(* touch     the application touches a block between madvise and register  *)
(* wfail     write() to the disk fails or is short                         *)
(***************************************************************************)
AllAdversity == {"async", "overtake", "regfail", "connfail", "touch", "wfail"}

ASSUME FinitenessAssumption ==
    IsFiniteSet(Clients) /\ IsFiniteSet(Bufs) /\ IsFiniteSet(Chunks)

ASSUME ThreadAssumption == {"main", "fault"} \cap Clients = {}

ASSUME OptionAssumption == Ops \subseteq AllOps /\ Adversity \subseteq AllAdversity

VARIABLES
    \* owner: lru_data and the global cursor of rpc.c and migcomm.c
    lru,            \* lru_data.status of every block
    next_lru_data,  \* the block chosen by the last get_next_pulled_data
    \* owner: buffer_in_remote nodes, their list, their tree and their counter
    in_node, in_list, in_tree, in_remote_num,
    \* owner: what an application finds at a block's address, and its disk file
    home, file, to_ssd_num,
    fault,          \* owner: the page-fault thread
    up,             \* owner: FALSE once the process has been killed by a signal
    \* client: buffer_from_remote by buffer address (list and tree), counters
    from_remote, from_remote_num, pulled_num, need_pulled,
    mr,             \* client: memory registered for the owner's RDMA accesses
    conn            \* connections, one for every thread that can initiate one

ownerVars == <<lru, next_lru_data, in_node, in_list, in_tree, in_remote_num>>
memVars == <<home, file, to_ssd_num>>
clientVars == <<from_remote, from_remote_num, pulled_num, need_pulled, mr>>
vars == <<ownerVars, memVars, fault, up, clientVars, conn>>

-----------------------------------------------------------------------------
(* Types *)

LruStatus == {"PULLED_WAIT", "PULLING", "PULLED_DONE", "FSYNCING", "FSYNC_DONE"}

NodeStatus == {"EVICT_WAIT", "EVICTING", "EVICT_DONE"}

(***************************************************************************)
(* What a read of the block finds: its data; "absent" (released and        *)
(* registered with userfaultfd, so a read blocks on the fault thread);     *)
(* "filling" (zeros until an RDMA read lands); "junk" (something else than *)
(* the data, and no fault is raised); "freed" (returned to malloc).        *)
(***************************************************************************)
HomeState == {"data", "absent", "filling", "junk", "freed"}

FileState == {"none", "short", "full"}

(* struct buffer_in_remote; alloc is FALSE between free and malloc. *)
InNode == [blk: Blocks \cup {NULL}, ip: Clients \cup {NULL},
           raddr: Bufs \cup {NULL}, status: NodeStatus,
           evicted: BOOLEAN, alloc: BOOLEAN]

FreeNode == [blk |-> NULL, ip |-> NULL, raddr |-> NULL,
             status |-> "EVICT_DONE", evicted |-> FALSE, alloc |-> FALSE]

(* struct buffer_from_remote, by its local_addr. *)
FromNode == [blk: Blocks \cup {NULL}, status: NodeStatus]

NoNode == [blk |-> NULL, status |-> "EVICT_DONE"]

Region == [buf: Bufs, blk: Blocks]

Initiators == Clients \cup {"main", "fault"}

(***************************************************************************)
(* connect  the request travels in the private data of rdma_connect        *)
(* toInit   a message is on its way to the machine that connected          *)
(* toAcc    a message is on its way to the machine that accepted           *)
(* closing  one side has called rc_disconnect                              *)
(* hung     no message is in flight and no side will call rc_disconnect    *)
(***************************************************************************)
Phase == {"idle", "connect", "toInit", "toAcc", "closing", "hung"}

MessageId ==
    {"MEM_INFO", "MEM_INFO_RET", "PULL_REQUEST", "PULL_REQUEST_RET",
     "PULL_REQUEST_RET_NO_DATA", "PULL_REQUEST_RET_NOT_NEED",
     "PULL_REQUEST_BUT_NOT_PULL", "CLIENT_DONE", "EVICT_REQUEST",
     "EVICT_REQUEST_RET", "EVICTED_REQUEST", "EVICTED_REQUEST_RET",
     "PAGEFAULT_EVICTED_REQUEST", "PAGEFAULT_EVICTED_REQUEST_RET",
     "PAGEFAULT_EVICTED_REQUEST_DONE", "IBVREG_ERR"}

(***************************************************************************)
(* cl is the client end, blk and buf the addresses in the message, node    *)
(* the buffer_in_remote whose new_addr receives an EVICTED write, and ctx  *)
(* what the accepting side's rdma_context makes on_disconnect release:     *)
(* "app" the block itself, "mr" the registration of a client's buffer.     *)
(***************************************************************************)
Connection == [phase: Phase, msg: MessageId \cup {NULL},
               cl: Clients \cup {NULL}, blk: Blocks \cup {NULL},
               buf: Bufs \cup {NULL}, node: Chunks \cup {NULL},
               ctx: {"app", "mr", NULL}]

Idle == [phase |-> "idle", msg |-> NULL, cl |-> NULL, blk |-> NULL,
         buf |-> NULL, node |-> NULL, ctx |-> NULL]

Fault == [pc: {"idle", "search", "poll"}, blk: Blocks \cup {NULL},
          curr: Chunks \cup {NULL}]

NoFault == [pc |-> "idle", blk |-> NULL, curr |-> NULL]

ASSUME NullAssumption ==
    NULL \notin Clients \cup Blocks \cup Bufs \cup Chunks \cup MessageId \cup {"app", "mr"}
=============================================================================

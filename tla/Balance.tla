------------------------------- MODULE Balance -------------------------------
(***************************************************************************)
(* run() of migrate.c: what each machine's main thread makes of its memory *)
(* rate.  Below T1 it takes its own blocks back and then pulls others',    *)
(* between T1 and T2 it gives the others' blocks back and offers its own,  *)
(* above T2 it gives back and then writes to disk.                         *)
(*                                                                         *)
(* All machines of the cluster run the same loop.  An iteration of each    *)
(* loop in it is one step and so is a request with its answer (Migration   *)
(* is about what happens inside of one): between two steps of a machine    *)
(* the others' requests and its own applications change its lists and its  *)
(* memory, while it goes on with the rate and the node it has read.        *)
(*                                                                         *)
(* Memory is counted in blocks.                                            *)
(***************************************************************************)
EXTENDS Lists, FiniteSets

CONSTANTS
    Machines,
    Owner,       \* the machine a block belongs to
    Hot,         \* hot degrees of pulled blocks
    T1, T2,      \* the thresholds, as an amount of memory
    Usage,       \* what the applications of a machine may use besides blocks
    MaxActivity  \* bound: changes of usage and page faults in a behaviour

Blocks == Nodes

ASSUME BalanceAssumption ==
    /\ Owner \in [Blocks -> Machines]
    /\ T1 \in Nat /\ T2 \in Nat /\ T1 < T2
    /\ Usage \subseteq Nat /\ Hot \subseteq Nat /\ MaxActivity \in Nat
    /\ {"home", "settled", "disk"} \cap Machines = {}

VARIABLES
    pc, used, tmp,    \* each main thread: where it is, mem_rate, tmp_*_remote
    need_pulled,      \* global_mem_info->need_pulled of each machine
    pullable,         \* the machines whose need_pulled was 1 when asked
    in_remote, in_status,
    from_remote, from_status, hot_degree,
    place,            \* where a block is: its status in lru_data, or its host
    usage,
    activity,
    up                \* FALSE when a main thread has read a freed node

mainVars == <<pc, used, tmp, need_pulled, pullable>>
listVars == <<in_remote, in_status, from_remote, from_status, hot_degree, place>>
vars == <<mainVars, listVars, usage, activity, up>>

(* PULLED_WAIT, PULLED_DONE though at home, FSYNC_DONE *)
Place == {"home", "settled", "disk"} \cup Machines

UsedWith(at, m) ==
    usage[m] + Cardinality({b \in Blocks : at[b] = m})
             + Cardinality({b \in Blocks : Owner[b] = m /\ at[b] \in {"home", "settled"}})

Used(m) == UsedWith(place, m)

Listed(l) == {b \in Blocks : l.pre[b] # NULL}

Hosted(m) == Listed(from_remote[m])     \* from_remote_num of them

Lent(m) == Listed(in_remote[m])         \* in_remote_num

Offered(m) == {b \in Blocks : Owner[b] = m /\ place[b] = "home"}

Init ==
    /\ pc = [m \in Machines |-> "top"]
    /\ used = [m \in Machines |-> 0]
    /\ tmp = [m \in Machines |-> NULL]
    /\ need_pulled = [m \in Machines |-> FALSE]
    /\ pullable = [m \in Machines |-> {}]
    /\ in_remote = [m \in Machines |-> EmptyList]
    /\ from_remote = [m \in Machines |-> EmptyList]
    /\ in_status = [b \in Blocks |-> "EVICT_WAIT"]
    /\ from_status = [b \in Blocks |-> "EVICT_WAIT"]
    /\ hot_degree = [b \in Blocks |-> 0]
    /\ place = [b \in Blocks |-> "home"]
    /\ usage \in [Machines -> Usage]
    /\ activity = 0
    /\ up = TRUE

-----------------------------------------------------------------------------
(* What a request does to the lists of both machines. *)

Lend(b, m, h) ==
    LET o == Owner[b] IN
    /\ in_remote' = [in_remote EXCEPT ![o] = Sorting(AddToTail(@, b), [n \in Blocks |-> 0], b)]
    /\ in_status' = [in_status EXCEPT ![b] = "EVICT_WAIT"]
    /\ hot_degree' = [hot_degree EXCEPT ![b] = h]
    /\ from_remote' = [from_remote EXCEPT ![m] = Sorting(AddToTail(@, b), hot_degree', b)]
    /\ from_status' = [from_status EXCEPT ![b] = "EVICT_WAIT"]
    /\ place' = [place EXCEPT ![b] = m]

(* Both nodes are deleted, whatever the status of the other machine's. *)
ComeHome(b, p) ==
    /\ in_remote' = [in_remote EXCEPT ![Owner[b]] = Del(@, b)]
    /\ from_remote' = [from_remote EXCEPT ![place[b]] = Del(@, b)]
    /\ hot_degree' = [hot_degree EXCEPT ![b] = 0]
    /\ in_status' = [in_status EXCEPT ![b] = "EVICT_WAIT"]
    /\ from_status' = [from_status EXCEPT ![b] = "EVICT_WAIT"]
    /\ place' = [place EXCEPT ![b] = p]

(* The first node from the tail with status EVICT_WAIT, or else the head. *)
LastWaiting(l, status) ==
    LET last[n \in Listed(l) \cup {ListHead}] ==
            IF n = ListHead \/ status[n] = "EVICT_WAIT" THEN n ELSE last[l.pre[n]]
    IN  last[l.tail]

(***************************************************************************)
(* evict_data and evicted_data.  A request whose connection or whose       *)
(* registration of memory fails leaves its node EVICTING, and the second   *)
(* failure of evict_data leaves the owner's node so as well.               *)
(***************************************************************************)
EvictData(m) ==
    LET b == LastWaiting(from_remote[m], from_status) IN
    IF b \notin Hosted(m) THEN UNCHANGED listVars
    ELSE \/ ComeHome(b, "home")
         \/ /\ from_status' = [from_status EXCEPT ![b] = "EVICTING"]
            /\ in_status' \in {in_status, [in_status EXCEPT ![b] = "EVICTING"]}
            /\ UNCHANGED <<in_remote, from_remote, hot_degree, place>>

EvictedData(m) ==
    LET b == LastWaiting(in_remote[m], in_status) IN
    IF b \notin Lent(m) THEN UNCHANGED listVars
    ELSE \/ ComeHome(b, "home")
         \/ /\ in_status' = [in_status EXCEPT ![b] = "EVICTING"]
            /\ UNCHANGED <<in_remote, from_remote, from_status, hot_degree, place>>

(* get_memory_rate *)
Refresh(m) == used' = [used EXCEPT ![m] = UsedWith(place', m)]

GoTo(m, l) == pc' = [pc EXCEPT ![m] = l]

SetTmp(m, n) == tmp' = [tmp EXCEPT ![m] = n]

SetNeedPulled(m, v) == need_pulled' = [need_pulled EXCEPT ![m] = v]
-----------------------------------------------------------------------------
(* get_memory_rate and get_remote_memory at the top of the loop *)
Look(m) ==
    /\ pc[m] = "top"
    /\ used' = [used EXCEPT ![m] = Used(m)]
    /\ pullable' = [pullable EXCEPT ![m] = {p \in Machines \ {m} : need_pulled[p]}]
    /\ GoTo(m, "decide")
    /\ UNCHANGED <<tmp, need_pulled, listVars>>

(* Plausible bug: the machine goes on offering its blocks. *)
LowOffering(m) ==
    /\ pc[m] = "decide"
    /\ used[m] < T1
    /\ IF Lent(m) # {}
       THEN GoTo(m, "take_back") /\ SetTmp(m, in_remote[m].tail)
       ELSE GoTo(m, "pull") /\ UNCHANGED tmp
    /\ UNCHANGED <<used, need_pulled, pullable, listVars>>

Low(m) ==
    /\ pc[m] = "decide"
    /\ used[m] < T1
    /\ SetNeedPulled(m, FALSE)
    /\ IF Lent(m) # {}
       THEN GoTo(m, "take_back") /\ SetTmp(m, in_remote[m].tail)
       ELSE GoTo(m, "pull") /\ UNCHANGED tmp
    /\ UNCHANGED <<used, pullable, listVars>>

Middle(m) ==
    /\ pc[m] = "decide"
    /\ T1 <= used[m] /\ used[m] < T2
    /\ IF Hosted(m) = {} THEN SetNeedPulled(m, TRUE) ELSE UNCHANGED need_pulled
    /\ GoTo(m, IF Hosted(m) # {} /\ used[m] - Cardinality(Hosted(m)) > T1
               THEN "give_back" ELSE "top")
    /\ UNCHANGED <<used, tmp, pullable, listVars>>

(* Plausible bug: the hottest node left out. *)
HighFromSecond(m) ==
    /\ pc[m] = "decide"
    /\ used[m] >= T2
    /\ SetNeedPulled(m, FALSE)
    /\ IF Hosted(m) # {}
       THEN GoTo(m, "shed") /\ SetTmp(m, from_remote[m].pre[from_remote[m].tail])
       ELSE GoTo(m, "to_ssd") /\ UNCHANGED tmp
    /\ UNCHANGED <<used, pullable, listVars>>

High(m) ==
    /\ pc[m] = "decide"
    /\ used[m] >= T2
    /\ SetNeedPulled(m, FALSE)
    /\ IF Hosted(m) # {}
       THEN GoTo(m, "shed") /\ SetTmp(m, from_remote[m].tail)
       ELSE GoTo(m, "to_ssd") /\ UNCHANGED tmp
    /\ UNCHANGED <<used, pullable, listVars>>

-----------------------------------------------------------------------------
(* Below T1 *)

(* Plausible bug: room is taken to end at T2. *)
FitsBelowT2(m) == used[m] + 1 < T2

(* One more block at home must leave the rate below T1. *)
Fits(m) == used[m] + 1 < T1

InList(l, n) == n = ListHead \/ n \in Listed(l)

(* Plausible bug: tmp is moved on after evicted_data has freed the node. *)
TakeBackThenMove(m) ==
    /\ pc[m] = "take_back"
    /\ tmp[m] \in Lent(m)
    /\ Fits(m)
    /\ EvictedData(m)
    /\ SetTmp(m, IF tmp[m] \in Listed(in_remote'[m]) THEN in_remote'[m].pre[tmp[m]] ELSE tmp[m])
    /\ Refresh(m)
    /\ UNCHANGED <<pc, need_pulled, pullable>>

(* tmp is moved on before evicted_data frees nodes. *)
TakeBack(m) ==
    /\ pc[m] = "take_back"
    /\ tmp[m] \in Lent(m)
    /\ Fits(m)
    /\ SetTmp(m, in_remote[m].pre[tmp[m]])
    /\ EvictedData(m)
    /\ Refresh(m)
    /\ UNCHANGED <<pc, need_pulled, pullable>>

(* Plausible bug: the break is left out, as in the loop above T2. *)
TakeBackNeverBreaks(m) ==
    /\ pc[m] = "take_back"
    /\ InList(in_remote[m], tmp[m])
    /\ tmp[m] = ListHead
    /\ GoTo(m, IF Lent(m) = {} THEN "pull" ELSE "top")
    /\ UNCHANGED <<used, tmp, need_pulled, pullable, listVars>>

TakeBackEnds(m) ==
    /\ pc[m] = "take_back"
    /\ InList(in_remote[m], tmp[m])
    /\ tmp[m] = ListHead \/ ~Fits(m)
    /\ GoTo(m, IF Lent(m) = {} THEN "pull" ELSE "top")
    /\ UNCHANGED <<used, tmp, need_pulled, pullable, listVars>>

(***************************************************************************)
(* pull_data: from the machine, of those that want it, that has lent the   *)
(* fewest.  Both look at the memory rate they have last read: the owner    *)
(* lends if it stays above T1 without the block, the client takes it if it *)
(* stays below T1 with it; else the client looks no further.               *)
(***************************************************************************)
Fewest(m) ==
    LET pulled_num(p) == Cardinality({b \in Hosted(m) : Owner[b] = p}) IN
    {p \in pullable[m] : \A q \in pullable[m] : pulled_num(p) <= pulled_num(q)}

PullData(m) ==
    /\ pc[m] = "pull"
    /\ \/ /\ Fewest(m) = {}
          /\ UNCHANGED listVars
       \/ \E p \in Fewest(m) :
            IF Offered(p) # {} /\ used[p] - 1 > T1 /\ used[m] + 1 < T1
            THEN \E b \in Offered(p), h \in Hot : Lend(b, m, h)
            ELSE UNCHANGED listVars
    /\ GoTo(m, "top")
    /\ UNCHANGED <<used, tmp, need_pulled, pullable>>

-----------------------------------------------------------------------------
(* Between T1 and T2 *)

GiveBack(m) ==
    /\ pc[m] = "give_back"
    /\ Hosted(m) # {}
    /\ EvictData(m)
    /\ UNCHANGED mainVars

GiveBackEnds(m) ==
    /\ pc[m] = "give_back"
    /\ Hosted(m) = {}
    /\ SetNeedPulled(m, TRUE)
    /\ used' = [used EXCEPT ![m] = Used(m)]
    /\ GoTo(m, "top")
    /\ UNCHANGED <<tmp, pullable, listVars>>

-----------------------------------------------------------------------------
(* Above T2 *)

Shed(m) ==
    /\ pc[m] = "shed"
    /\ tmp[m] \in Hosted(m)
    /\ used[m] - 1 >= T1
    /\ SetTmp(m, from_remote[m].pre[tmp[m]])
    /\ EvictData(m)
    /\ Refresh(m)
    /\ UNCHANGED <<pc, need_pulled, pullable>>

ShedEnds(m) ==
    /\ pc[m] = "shed"
    /\ tmp[m] = ListHead
    /\ GoTo(m, IF used[m] > T2 THEN "to_ssd" ELSE "top")
    /\ UNCHANGED <<used, tmp, need_pulled, pullable, listVars>>

(***************************************************************************)
(* Where giving one block back would bring the rate below T1, the loop     *)
(* changes nothing and does not end.                                       *)
(***************************************************************************)
Spinning(m) == pc[m] = "shed" /\ tmp[m] # ListHead /\ used[m] - 1 < T1

(* to_ssd: down to the middle between the thresholds *)
ToSsd(m) ==
    /\ pc[m] = "to_ssd"
    /\ LET full == 2 * Used(m) > T1 + T2 IN
       IF full /\ Offered(m) # {}
       THEN /\ \E b \in Offered(m) : place' = [place EXCEPT ![b] = "disk"]
            /\ UNCHANGED pc
       ELSE GoTo(m, "top") /\ UNCHANGED place
    /\ used' = [used EXCEPT ![m] = Used(m)]
    /\ UNCHANGED <<tmp, need_pulled, pullable, in_remote, in_status, from_remote, from_status,
                   hot_degree>>

-----------------------------------------------------------------------------
(* The node tmp points to has been freed; what its fields hold is anything. *)
StaleTmp(m) ==
    /\ \/ pc[m] = "take_back" /\ ~InList(in_remote[m], tmp[m])
       \/ pc[m] = "shed" /\ ~InList(from_remote[m], tmp[m])
    /\ up' = FALSE
    /\ UNCHANGED <<mainVars, listVars, usage, activity>>

Main(m) ==
    /\ \/ Look(m) \/ Low(m) \/ Middle(m) \/ High(m)
       \/ TakeBack(m) \/ TakeBackEnds(m) \/ PullData(m)
       \/ GiveBack(m) \/ GiveBackEnds(m)
       \/ Shed(m) \/ ShedEnds(m) \/ ToSsd(m)
    /\ UNCHANGED <<usage, activity, up>>

(* The applications of a machine use more or less memory. *)
UsageChanges(m) ==
    /\ \E u \in Usage \ {usage[m]} : usage' = [usage EXCEPT ![m] = u]
    /\ UNCHANGED <<mainVars, listVars>>

(***************************************************************************)
(* A page fault brings a block back; one that was lent is not offered      *)
(* again, since update_lru_data is not called.  The client refuses while   *)
(* its node is EVICTING.                                                   *)
(***************************************************************************)
PageFault(b) ==
    /\ \/ /\ place[b] \in Machines /\ from_status[b] = "EVICT_WAIT"
          /\ ComeHome(b, "settled")
       \/ /\ place[b] = "disk"
          /\ place' = [place EXCEPT ![b] = "home"]
          /\ UNCHANGED <<in_remote, in_status, from_remote, from_status, hot_degree>>
    /\ UNCHANGED <<mainVars, usage>>

Application ==
    /\ activity < MaxActivity
    /\ activity' = activity + 1
    /\ (\E m \in Machines : UsageChanges(m)) \/ (\E b \in Blocks : PageFault(b))
    /\ UNCHANGED up

Next ==
    /\ up
    /\ (\E m \in Machines : Main(m) \/ StaleTmp(m)) \/ Application

Fairness == \A m \in Machines : WF_vars(up /\ Main(m))

Spec == Init /\ [][Next]_vars /\ Fairness
=============================================================================

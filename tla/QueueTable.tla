----------------------------- MODULE QueueTable -----------------------------
(***************************************************************************)
(* The queue table of the emulated device (emulator/src/kv_device.cpp):    *)
(* queues are created and deleted by id, a submission queue holds a        *)
(* pointer to the queue its worker posts to, and the caller holds a handle *)
(* with the id and a pointer.  Ids are chosen by the caller and may be     *)
(* used again; objects are told apart by a serial number.  Every operation *)
(* runs under m_mutex and is one step, except the destruction of all       *)
(* queues, during which the queues that remain keep working.               *)
(***************************************************************************)
EXTENDS Integers, FiniteSets

CONSTANTS
    Qids,       \* queue ids
    MaxQueues,  \* 64 * 1024 - 1
    MaxObjects, \* bound: queue objects ever created
    CqNamed,    \* TRUE: callers pair submission queues with completion queues
    NoQueue

ASSUME TableAssumption ==
    /\ NoQueue \notin Qids /\ NoQueue \notin Nat
    /\ NoQueue \notin [kind : {"SQ", "CQ"}, serial : Nat, out : Nat \cup {NoQueue}]
    /\ MaxQueues \in Nat /\ MaxObjects \in Nat /\ CqNamed \in BOOLEAN

VARIABLES
    list,     \* m_ioque_list: id -> queue object, or NoQueue
    pairs,    \* m_sq_to_cq_pairs: id -> id of the completion queue, or NoQueue
    handles,  \* the handles callers hold
    created,  \* objects created so far
    phase,    \* "open"; "closing": in shutdown_all_queues; "closed"
    ret,      \* the last return code
    renamed   \* history: kv_get_queue_handles has changed the id in a handle

tableVars == <<list, pairs, handles, created, phase, ret, renamed>>

QueueKinds == {"SQ", "CQ"}
Sizes == {"within", "over"} \* queue_size against 64 * 1024 - 1
Serials == 1..MaxObjects
Queue == [kind : QueueKinds, serial : Serials, out : Serials \cup {NoQueue}]
Handle == [qid : Qids, queue : Serials]

Live == {q \in Qids : list[q] # NoQueue}
Objects == {list[q].serial : q \in Live}

TableInit == /\ list = [q \in Qids |-> NoQueue]
             /\ pairs = [q \in Qids |-> NoQueue]
             /\ handles = {}
             /\ created = 0
             /\ phase = "open"
             /\ ret = "success"
             /\ renamed = FALSE

(***************************************************************************)
(* create_queue.  Only the existence of the completion queue's id is       *)
(* checked, not the type of the queue it names.                            *)
(***************************************************************************)
CreateCheck(kind, q, cq, size) ==
    IF Cardinality(Live) = MaxQueues THEN "maxqueue"
    ELSE IF size = "over" THEN "badsize"
    ELSE IF q \in Live THEN IF kind = "SQ" THEN "badqid" ELSE "badcqid"
    ELSE IF kind = "SQ" /\ cq \notin Live THEN "badcqid"
    ELSE "success"

CreateFails(kind, q, cq, size) ==
    /\ phase = "open"
    /\ CreateCheck(kind, q, cq, size) # "success"
    /\ ret' = CreateCheck(kind, q, cq, size)
    /\ UNCHANGED <<list, pairs, handles, created, phase, renamed>>

\* std::unordered_map::insert does not replace an entry that is there.
Create(kind, q, cq, size) ==
    /\ phase = "open"
    /\ created < MaxObjects
    /\ CreateCheck(kind, q, cq, size) = "success"
    /\ CqNamed /\ kind = "SQ" => list[cq].kind = "CQ"
    /\ created' = created + 1
    /\ list' = [list EXCEPT ![q] = [kind |-> kind, serial |-> created + 1,
                                    out |-> IF kind = "SQ" THEN list[cq].serial ELSE NoQueue]]
    /\ pairs' = IF kind = "SQ" /\ pairs[q] = NoQueue THEN [pairs EXCEPT ![q] = cq] ELSE pairs
    /\ handles' = handles \cup {[qid |-> q, queue |-> created + 1]}
    /\ ret' = "success"
    /\ UNCHANGED <<phase, renamed>>

(***************************************************************************)
(* kv_delete_queue: remove_queue, then the handle is freed in any case.    *)
(***************************************************************************)

RemoveCheck(q) ==
    IF q \notin Live THEN "badqid"
    ELSE IF list[q].kind = "CQ" /\ \E s \in Live : pairs[s] = q THEN "inuse"
    ELSE "success"

\* Mutant: the pair stays behind.
RemoveListOnly(q) == /\ list' = [list EXCEPT ![q] = NoQueue]
                     /\ UNCHANGED pairs

Remove(q) == /\ list' = [list EXCEPT ![q] = NoQueue]
             /\ pairs' = [pairs EXCEPT ![q] = NoQueue]

\* Mutant: the handle outlives its queue.
DeleteKeep(h) == /\ phase = "open"
                 /\ ret' = RemoveCheck(h.qid)
                 /\ RemoveCheck(h.qid) = "success"
                 /\ Remove(h.qid)
                 /\ UNCHANGED <<handles, created, phase, renamed>>

DeleteQueue(h) == /\ phase = "open"
                  /\ h \in handles
                  /\ ret' = RemoveCheck(h.qid)
                  /\ IF RemoveCheck(h.qid) = "success" THEN Remove(h.qid) ELSE UNCHANGED <<list, pairs>>
                  /\ handles' = handles \ {h}
                  /\ UNCHANGED <<created, phase, renamed>>

(***************************************************************************)
(* kv_get_queue_handles: the caller passes handles it holds, a handle      *)
(* being opaque to it; S are the ones the live ids reach.  They get the    *)
(* ids in the order of the hash table, the pointers stay.                  *)
(***************************************************************************)
GetQueueHandles(S, ids) ==
    /\ phase = "open"
    /\ \A g, h \in S : ids[g] = ids[h] => g = h
    /\ handles' = (handles \ S) \cup {[qid |-> ids[h], queue |-> h.queue] : h \in S}
    /\ renamed' = (renamed \/ \E h \in S : ids[h] # h.qid)
    /\ ret' = IF Cardinality(Live) > Cardinality(S) THEN "more" ELSE "success"
    /\ UNCHANGED <<list, pairs, created, phase>>

(***************************************************************************)
(* kv_cleanup_device: the destructor of the device destroys the queues in  *)
(* the order of the hash table.                                            *)
(***************************************************************************)
Cleanup == /\ phase = "open"
           /\ phase' = "closing"
           /\ UNCHANGED <<list, pairs, handles, created, ret, renamed>>

Destroy(q) == /\ phase = "closing"
              /\ q \in Live
              /\ list' = [list EXCEPT ![q] = NoQueue]
              /\ UNCHANGED <<pairs, handles, created, phase, ret, renamed>>

Finish == /\ phase = "closing"
          /\ Live = {}
          /\ phase' = "closed"
          /\ UNCHANGED <<list, pairs, handles, created, ret, renamed>>

StayClosed == phase = "closed" /\ UNCHANGED tableVars

TableNext == \/ \E kind \in QueueKinds, q \in Qids, cq \in Qids, size \in Sizes :
                    Create(kind, q, cq, size) \/ CreateFails(kind, q, cq, size)
             \/ \E h \in handles : DeleteQueue(h)
             \/ \E S \in SUBSET handles : \E ids \in [S -> Live] : GetQueueHandles(S, ids)
             \/ Cleanup
             \/ \E q \in Qids : Destroy(q)
             \/ Finish
             \/ StayClosed

TableSpec == TableInit /\ [][TableNext]_tableVars

(***************************************************************************)
(* Properties.                                                             *)
(***************************************************************************)
\* Every variable has its type: a queue table of queues, pairs of ids, handles.
TypeOK == /\ list \in [Qids -> Queue \cup {NoQueue}]
          /\ pairs \in [Qids -> Qids \cup {NoQueue}]
          /\ handles \in SUBSET Handle
          /\ created \in 0..MaxObjects
          /\ phase \in {"open", "closing", "closed"}
          /\ renamed \in BOOLEAN

\* While the device is open the queue that a submission queue's worker posts to
\* is still there, through every order of deletions and every reuse of an id.
OutLive == phase = "open" => \A s \in Live : list[s].kind = "SQ" => list[s].out \in Objects

\* m_sq_to_cq_pairs, by which deletions are refused, names for each submission
\* queue the very object that its pointer names, and nothing else.
PairsMatch == phase = "open" => \A s \in Qids :
    IF s \in Live /\ list[s].kind = "SQ"
    THEN pairs[s] \in Live /\ list[pairs[s]].serial = list[s].out
    ELSE pairs[s] = NoQueue

\* A handle that a caller holds names the queue that its pointer names.
HandlesName == phase = "open" => \A h \in handles : h.qid \in Live /\ list[h.qid].serial = h.queue

\* What kv_delete_queue removes by id is what the caller's commands went to by
\* pointer, through every order of creations and deletions and every reuse of an
\* id, until kv_get_queue_handles has put another id into a handle.
HandleExact == ~renamed => HandlesName

=============================================================================

------------------------- MODULE EmulDevice_proofs -------------------------
(***************************************************************************)
(* Proofs about the tables of the emulated device.                         *)
(*                                                                         *)
(* QueueTable, for every set of ids and every number of objects: the       *)
(* inductive invariant adds to PairsMatch that the partner of a submission *)
(* queue is a completion queue, which is the only kind whose deletion      *)
(* remove_queue refuses.                                                   *)
(*                                                                         *)
(* KvStore, for every set of keys, values, key spaces, conditions, and any *)
(* buffer and number of iterators: the invariant of a scan says that what  *)
(* it has returned lies before its position, and what it still has to      *)
(* return does not.  For the count of bytes it says which units are taken. *)
(***************************************************************************)
EXTENDS KvStore, QueueTable, FiniteSetTheorems, TLAPS

\* Most steps are first-order, so Zenon is tried first; a step that needs more cites SMT.
USE ZenonT(10), SMTT(20)

(***************************************************************************)
(* The queue table.                                                        *)
(***************************************************************************)

\* The partner of each submission queue is the completion queue it points to;
\* other ids have no partner.
PairsStrong == phase = "open" => \A s \in Qids :
    IF s \in Live /\ list[s].kind = "SQ"
    THEN /\ pairs[s] \in Live
         /\ list[pairs[s]].kind = "CQ"
         /\ list[pairs[s]].serial = list[s].out
    ELSE pairs[s] = NoQueue

\* A queue object is not NoQueue.
LEMMA QueueNotNone == NoQueue \notin Queue
<1>1. Queue \subseteq [kind : {"SQ", "CQ"}, serial : Nat, out : Nat \cup {NoQueue}]
    BY SMTT(20) DEF Queue, QueueKinds, Serials
<1> QED BY <1>1, TableAssumption

\* The table, the pairs and the handles always have the types of TypeOK.
THEOREM TableTypes == TableSpec => []TypeOK
<1>1. TableInit => TypeOK
  <2>1. 0 \in 0..MaxObjects
      BY TableAssumption, SMTT(20)
  <2> QED BY <2>1 DEF TableInit, TypeOK
<1>2. TypeOK /\ [TableNext]_tableVars => TypeOK'
  <2> SUFFICES ASSUME TypeOK, [TableNext]_tableVars PROVE TypeOK'
      OBVIOUS
  <2> USE TableAssumption DEF TypeOK
  <2>1. ASSUME NEW kind \in QueueKinds, NEW q \in Qids, NEW cq \in Qids, NEW size \in Sizes,
             Create(kind, q, cq, size)
        PROVE TypeOK'
    <3>1. created + 1 \in Serials
        BY <2>1, SMTT(20) DEF Create, Serials
    <3>2. kind = "SQ" => list[cq] \in Queue
        BY <2>1 DEF Create, CreateCheck, Live
    <3>3. [kind |-> kind, serial |-> created + 1,
           out |-> IF kind = "SQ" THEN list[cq].serial ELSE NoQueue] \in Queue
        BY <3>1, <3>2 DEF Queue
    <3>4. list' \in [Qids -> Queue \cup {NoQueue}] /\ pairs' \in [Qids -> Qids \cup {NoQueue}]
        BY <2>1, <3>3 DEF Create
    <3>5. handles' \in SUBSET Handle
        BY <2>1, <3>1, SMTT(20) DEF Create, Handle
    <3>6. created' \in 0..MaxObjects /\ phase' \in {"open", "closing", "closed"} /\ renamed' \in BOOLEAN
        BY <2>1, SMTT(20) DEF Create
    <3> QED BY <3>4, <3>5, <3>6
  <2>2. ASSUME NEW kind \in QueueKinds, NEW q \in Qids, NEW cq \in Qids, NEW size \in Sizes,
             CreateFails(kind, q, cq, size)
        PROVE TypeOK'
      BY <2>2 DEF CreateFails
  <2>3. ASSUME NEW h \in handles, DeleteQueue(h) PROVE TypeOK'
      BY <2>3 DEF DeleteQueue, Remove
  <2>4. CASE Cleanup
      BY <2>4 DEF Cleanup
  <2>5. ASSUME NEW q \in Qids, Destroy(q) PROVE TypeOK'
      BY <2>5 DEF Destroy
  <2>6. CASE Finish
      BY <2>6 DEF Finish
  <2>7. CASE UNCHANGED tableVars
      BY <2>7 DEF tableVars
  <2>8. ASSUME NEW S \in SUBSET handles, NEW ids \in [S -> Live], GetQueueHandles(S, ids) PROVE TypeOK'
    <3>1. ASSUME NEW h \in S PROVE [qid |-> ids[h], queue |-> h.queue] \in Handle
      <4>1. ids[h] \in Qids /\ h \in Handle
          BY DEF Live
      <4> QED BY <4>1, SMTT(20) DEF Handle
    <3>2. handles' \in SUBSET Handle
        BY <2>8, <3>1 DEF GetQueueHandles
    <3>3. list' = list /\ pairs' = pairs /\ created' = created /\ phase' = phase /\ renamed' \in BOOLEAN
        BY <2>8 DEF GetQueueHandles
    <3> QED BY <3>2, <3>3
  <2>9. CASE \E kind \in QueueKinds, q \in Qids, cq \in Qids, size \in Sizes :
              Create(kind, q, cq, size) \/ CreateFails(kind, q, cq, size)
      BY <2>9, <2>1, <2>2
  <2>10. CASE \E S \in SUBSET handles : \E ids \in [S -> Live] : GetQueueHandles(S, ids)
      BY <2>10, <2>8
  <2> QED BY <2>9, <2>10, <2>3, <2>4, <2>5, <2>6, <2>7 DEF TableNext, StayClosed
<1> QED BY <1>1, <1>2, PTL DEF TableSpec

\* With callers that name completion queues, the strengthened relation between
\* pairs, pointers and types survives every operation.
LEMMA PairsStep ==
    ASSUME CqNamed, TypeOK, PairsStrong, [TableNext]_tableVars
    PROVE  PairsStrong'
<1> USE TableAssumption, QueueNotNone DEF TypeOK
<1>1. ASSUME NEW kind \in QueueKinds, NEW q \in Qids, NEW cq \in Qids, NEW size \in Sizes,
             Create(kind, q, cq, size)
      PROVE PairsStrong'
  <2> DEFINE new == [kind |-> kind, serial |-> created + 1,
                     out |-> IF kind = "SQ" THEN list[cq].serial ELSE NoQueue]
  <2>1. phase = "open" /\ q \notin Live /\ pairs[q] = NoQueue
      BY <1>1 DEF Create, CreateCheck, PairsStrong
  <2>2. kind = "SQ" => cq \in Live /\ list[cq].kind = "CQ" /\ cq # q
      BY <1>1, <2>1 DEF Create, CreateCheck
  <2>3. new # NoQueue
    <3>1. new \in [kind : {"SQ", "CQ"}, serial : Nat, out : Nat \cup {NoQueue}]
      <4>1. kind = "SQ" => list[cq] \in Queue
          BY <2>2 DEF Live
      <4> QED BY <4>1, SMTT(20) DEF Queue, Serials, QueueKinds
    <3> QED BY <3>1
  <2>4. list' = [list EXCEPT ![q] = new]
      BY <1>1 DEF Create
  <2>5. Live' = Live \cup {q}
      BY <2>3, <2>4 DEF Live
  <2>6. \A s \in Qids \ {q} : list'[s] = list[s] /\ pairs'[s] = pairs[s]
      BY <1>1, <2>4 DEF Create
  <2>7. list'[q] = new /\ pairs'[q] = IF kind = "SQ" THEN cq ELSE NoQueue
      BY <1>1, <2>1, <2>4 DEF Create
  <2>8. ASSUME NEW s \in Qids
        PROVE IF s \in Live' /\ list'[s].kind = "SQ"
              THEN /\ pairs'[s] \in Live'
                   /\ list'[pairs'[s]].kind = "CQ"
                   /\ list'[pairs'[s]].serial = list'[s].out
              ELSE pairs'[s] = NoQueue
    <3>1. CASE s = q
        BY <3>1, <2>2, <2>5, <2>6, <2>7, SMTT(20) DEF Live, QueueKinds
    <3>2. CASE s # q
      <4>1. list'[s] = list[s] /\ pairs'[s] = pairs[s] /\ (s \in Live' <=> s \in Live)
          BY <3>2, <2>5, <2>6
      <4>2. s \in Live /\ list[s].kind = "SQ" =>
                pairs[s] \in Live /\ pairs[s] \in Qids /\ pairs[s] # q
          BY <2>1 DEF PairsStrong, Live
      <4> QED BY <4>1, <4>2, <2>1, <2>5, <2>6, SMTT(20) DEF PairsStrong
    <3> QED BY <3>1, <3>2
  <2> QED BY <2>8 DEF PairsStrong
<1>2. ASSUME NEW kind \in QueueKinds, NEW q \in Qids, NEW cq \in Qids, NEW size \in Sizes,
             CreateFails(kind, q, cq, size)
      PROVE PairsStrong'
    BY <1>2 DEF CreateFails, PairsStrong, Live
<1>3. ASSUME NEW h \in handles, DeleteQueue(h) PROVE PairsStrong'
  <2> DEFINE q == h.qid
  <2>1. q \in Qids /\ phase = "open" /\ phase' = "open"
      BY <1>3 DEF DeleteQueue, Handle
  <2>2. CASE RemoveCheck(q) # "success"
      BY <2>1, <2>2, <1>3 DEF DeleteQueue, PairsStrong, Live
  <2>3. CASE RemoveCheck(q) = "success"
    <3>1. Live' = Live \ {q} /\ pairs'[q] = NoQueue
        BY <2>1, <2>3, <1>3 DEF DeleteQueue, Remove, Live
    <3>2. \A s \in Qids \ {q} : list'[s] = list[s] /\ pairs'[s] = pairs[s]
        BY <2>1, <2>3, <1>3 DEF DeleteQueue, Remove
    <3>3. \A s \in Live : list[s].kind = "SQ" => pairs[s] # q
      <4>1. q \in Live /\ (list[q].kind = "CQ" => \A s \in Live : pairs[s] # q)
          BY <2>3 DEF RemoveCheck
      <4>2. \A s \in Live : list[s].kind = "SQ" => list[pairs[s]].kind = "CQ"
          BY <2>1 DEF PairsStrong, Live
      <4> QED BY <4>1, <4>2
    <3>4. ASSUME NEW s \in Qids
          PROVE IF s \in Live' /\ list'[s].kind = "SQ"
                THEN /\ pairs'[s] \in Live'
                     /\ list'[pairs'[s]].kind = "CQ"
                     /\ list'[pairs'[s]].serial = list'[s].out
                ELSE pairs'[s] = NoQueue
      <4>1. CASE s = q
          BY <4>1, <3>1
      <4>2. CASE s # q
        <5>1. list'[s] = list[s] /\ pairs'[s] = pairs[s] /\ (s \in Live' <=> s \in Live)
            BY <4>2, <3>1, <3>2
        <5>2. s \in Live /\ list[s].kind = "SQ" =>
                  pairs[s] \in Live /\ pairs[s] \in Qids /\ pairs[s] # q
            BY <2>1, <3>3 DEF PairsStrong, Live
        <5> QED BY <5>1, <5>2, <2>1, <3>1, <3>2, SMTT(20) DEF PairsStrong
      <4> QED BY <4>1, <4>2
    <3> QED BY <3>4 DEF PairsStrong
  <2> QED BY <2>2, <2>3
<1>4. CASE Cleanup \/ Finish \/ \E q \in Qids : Destroy(q)
    BY <1>4 DEF Cleanup, Finish, Destroy, PairsStrong
<1>5. CASE UNCHANGED tableVars
    BY <1>5 DEF tableVars, PairsStrong, Live
<1>6. ASSUME NEW S \in SUBSET handles, NEW ids \in [S -> Live], GetQueueHandles(S, ids) PROVE PairsStrong'
    BY <1>6 DEF GetQueueHandles, PairsStrong, Live
<1>7. CASE \E kind \in QueueKinds, q \in Qids, cq \in Qids, size \in Sizes :
              Create(kind, q, cq, size) \/ CreateFails(kind, q, cq, size)
    BY <1>7, <1>1, <1>2
<1>8. CASE \E S \in SUBSET handles : \E ids \in [S -> Live] : GetQueueHandles(S, ids)
    BY <1>8, <1>6
<1> QED BY <1>7, <1>8, <1>3, <1>4, <1>5 DEF TableNext, StayClosed

\* remove_queue never takes away the queue that a worker posts to, and the pairs
\* always name the objects the pointers name, for every sequence of operations.
THEOREM PairsCorrect == ASSUME CqNamed PROVE TableSpec => [](OutLive /\ PairsMatch)
<1>1. TableInit => PairsStrong
    BY DEF TableInit, PairsStrong, Live
<1>2. TypeOK /\ PairsStrong /\ [TableNext]_tableVars => PairsStrong'
    BY PairsStep
<1>3. PairsStrong => OutLive /\ PairsMatch
    BY DEF PairsStrong, OutLive, PairsMatch, Objects, Live
<1> QED BY <1>1, <1>2, <1>3, TableTypes, PTL DEF TableSpec

\* Until kv_get_queue_handles has changed an id, every handle a caller holds
\* names one queue by id and by pointer: what kv_delete_queue removes is what
\* the caller's commands went to.
THEOREM HandlesCorrect == TableSpec => []HandleExact
<1>1. TableInit => HandleExact
    BY DEF TableInit, HandleExact, HandlesName
<1>2. TypeOK /\ HandleExact /\ [TableNext]_tableVars => HandleExact'
  <2> SUFFICES ASSUME TypeOK, HandleExact, [TableNext]_tableVars, ~renamed' PROVE HandlesName'
      BY DEF HandleExact
  <2>0. HandlesName
    <3>1. renamed => renamed'
        BY DEF TableNext, tableVars, Create, CreateFails, DeleteQueue, GetQueueHandles,
               Cleanup, Destroy, Finish, StayClosed
    <3> QED BY <3>1 DEF HandleExact
  <2> USE <2>0, TableAssumption, QueueNotNone DEF TypeOK
  <2>1. ASSUME NEW kind \in QueueKinds, NEW q \in Qids, NEW cq \in Qids, NEW size \in Sizes,
             Create(kind, q, cq, size)
        PROVE HandlesName'
    <3> DEFINE new == [kind |-> kind, serial |-> created + 1,
                       out |-> IF kind = "SQ" THEN list[cq].serial ELSE NoQueue]
    <3>1. phase = "open" /\ q \notin Live
        BY <2>1 DEF Create, CreateCheck
    <3>2. new \in [kind : {"SQ", "CQ"}, serial : Nat, out : Nat \cup {NoQueue}]
      <4>1. kind = "SQ" => list[cq] \in Queue
          BY <2>1 DEF Create, CreateCheck, Live
      <4> QED BY <4>1, SMTT(20) DEF Queue, Serials, QueueKinds
    <3>3. list' = [list EXCEPT ![q] = new]
        BY <2>1 DEF Create
    <3>4. Live' = Live \cup {q} /\ list'[q].serial = created + 1
        BY <3>2, <3>3 DEF Live
    <3>5. ASSUME NEW h \in handles' PROVE h.qid \in Live' /\ list'[h.qid].serial = h.queue
      <4>1. CASE h \in handles
        <5>1. h.qid \in Live /\ list[h.qid].serial = h.queue /\ h.qid # q
            BY <4>1, <3>1 DEF HandlesName
        <5> QED BY <5>1, <3>3, <3>4 DEF Live
      <4>2. CASE h = [qid |-> q, queue |-> created + 1]
          BY <4>2, <3>4
      <4> QED BY <4>1, <4>2, <2>1 DEF Create
    <3> QED BY <3>5 DEF HandlesName
  <2>2. ASSUME NEW kind \in QueueKinds, NEW q \in Qids, NEW cq \in Qids, NEW size \in Sizes,
             CreateFails(kind, q, cq, size)
        PROVE HandlesName'
      BY <2>2 DEF CreateFails, HandlesName, Live
  <2>3. ASSUME NEW h \in handles, DeleteQueue(h) PROVE HandlesName'
    <3>1. phase = "open" /\ h.qid \in Qids
        BY <2>3 DEF DeleteQueue, Handle
    <3>2. CASE RemoveCheck(h.qid) # "success"
        BY <3>1, <3>2, <2>3 DEF DeleteQueue, HandlesName, Live
    <3>3. CASE RemoveCheck(h.qid) = "success"
      <4>1. \A q \in Qids \ {h.qid} : list'[q] = list[q]
          BY <3>1, <3>3, <2>3 DEF DeleteQueue, Remove
      <4>2. ASSUME NEW g \in handles' PROVE g.qid \in Live' /\ list'[g.qid].serial = g.queue
        <5>1. g \in handles /\ g # h /\ g.qid \in Live /\ list[g.qid].serial = g.queue
            BY <2>3, <3>1 DEF DeleteQueue, HandlesName
        <5>2. g.qid # h.qid
            BY <5>1, <3>1, SMTT(20) DEF HandlesName, Handle
        <5> QED BY <5>1, <5>2, <4>1 DEF Live
      <4> QED BY <4>2 DEF HandlesName
    <3> QED BY <3>2, <3>3
  <2>4. CASE Cleanup \/ Finish \/ \E q \in Qids : Destroy(q)
      BY <2>4 DEF Cleanup, Finish, Destroy, HandlesName
  <2>5. CASE UNCHANGED tableVars
      BY <2>5 DEF tableVars, HandlesName, Live
  <2>6. ASSUME NEW S \in SUBSET handles, NEW ids \in [S -> Live], GetQueueHandles(S, ids) PROVE HandlesName'
    <3>1. \A h \in S : ids[h] = h.qid /\ h \in Handle
        BY <2>6 DEF GetQueueHandles
    <3>2. \A h \in S : [qid |-> ids[h], queue |-> h.queue] = h
        BY <3>1, SMTT(20) DEF Handle
    <3>3. handles' \subseteq handles
        BY <2>6, <3>2 DEF GetQueueHandles
    <3> QED BY <2>6, <3>3 DEF GetQueueHandles, HandlesName, Live
  <2>7. CASE \E kind \in QueueKinds, q \in Qids, cq \in Qids, size \in Sizes :
              Create(kind, q, cq, size) \/ CreateFails(kind, q, cq, size)
      BY <2>7, <2>1, <2>2
  <2>8. CASE \E S \in SUBSET handles : \E ids \in [S -> Live] : GetQueueHandles(S, ids)
      BY <2>8, <2>6
  <2> QED BY <2>7, <2>8, <2>3, <2>4, <2>5 DEF TableNext, StayClosed
<1> QED BY <1>1, <1>2, TableTypes, PTL DEF TableSpec

(***************************************************************************)
(* The order of the keys.                                                  *)
(***************************************************************************)

\* A finite set that is not empty has a minimal element in every strict order.
LEMMA FiniteMinimal ==
    ASSUME NEW S, IsFiniteSet(S), S # {}, NEW R,
           \A x \in S : <<x, x>> \notin R,
           \A x, y, z \in S : <<x, y>> \in R /\ <<y, z>> \in R => <<x, z>> \in R
    PROVE  \E x \in S : \A y \in S : <<y, x>> \notin R
<1> DEFINE Down(x) == {y \in S : <<y, x>> \in R}
           D == {Down(x) : x \in S}
<1>1. IsWellFoundedOn(StrictSubsetOrdering(S), FiniteSubsetsOf(S))
    BY FS_StrictSubsetOrderingWellFounded
<1>2. D \subseteq FiniteSubsetsOf(S) /\ D # {}
    <2>1. ASSUME NEW x \in S PROVE Down(x) \subseteq S /\ IsFiniteSet(Down(x))
        <3>1. Down(x) \subseteq S
            OBVIOUS
        <3> HIDE DEF Down
        <3> QED BY <3>1, FS_Subset
    <2>2. D # {}
        <3>1. PICK x \in S : TRUE
            OBVIOUS
        <3>2. Down(x) \in D
            BY <3>1
        <3> QED BY <3>2
    <2>3. \A e \in D : e \in SUBSET S /\ IsFiniteSet(e)
        <3> HIDE DEF Down
        <3> QED BY <2>1, SMTT(20)
    <2> HIDE DEF D
    <2> QED BY <2>2, <2>3 DEF FiniteSubsetsOf
<1>3. PICK d \in D : \A e \in D : ~(<<e, d>> \in StrictSubsetOrdering(S))
    BY <1>1, <1>2, WFMin
<1>4. PICK x \in S : d = Down(x)
    OBVIOUS
<1>5. ASSUME NEW y \in S, <<y, x>> \in R PROVE FALSE
    <2>1. Down(y) \subseteq Down(x) /\ y \in Down(x) /\ y \notin Down(y)
        BY <1>5
    <2>2. Down(y) \subseteq S /\ Down(x) \subseteq S /\ Down(y) # Down(x)
        BY <2>1
    <2>3. <<Down(y), d>> \in StrictSubsetOrdering(S)
        BY <1>4, <2>1, <2>2 DEF StrictSubsetOrdering
    <2> QED BY <1>3, <2>3, SMTT(20)
<1> QED BY <1>5

\* The comparison of leading bytes as integers is a strict total order.
LEMMA LeadOrder ==
    ASSUME NEW a \in Leads, NEW b \in Leads, NEW c \in Leads
    PROVE  /\ ~LeadLess(a, a)
           /\ LeadLess(a, b) /\ LeadLess(b, c) => LeadLess(a, c)
           /\ a = b \/ LeadLess(a, b) \/ LeadLess(b, a)
<1>1. /\ \A i \in Places : a[i] \in {0, 1} /\ b[i] \in {0, 1} /\ c[i] \in {0, 1}
      /\ Places \subseteq Nat /\ IsFiniteSet(Places)
    <2>1. Places = 1 .. Lead /\ Lead \in Nat
        BY LeadAssumption DEF Places
    <2>2. IsFiniteSet(1 .. Lead)
        BY <2>1, FS_Interval, SMTT(20)
    <2> QED BY <2>1, <2>2, SMTT(20) DEF Leads, Byte
<1>2. ~LeadLess(a, a)
    BY <1>1, SMTT(20) DEF LeadLess
<1>3. ASSUME LeadLess(a, b), LeadLess(b, c) PROVE LeadLess(a, c)
    <2>1. PICK i \in Places : a[i] < b[i] /\ \A j \in Places : j > i => a[j] = b[j]
        BY <1>3 DEF LeadLess
    <2>2. PICK k \in Places : b[k] < c[k] /\ \A j \in Places : j > k => b[j] = c[j]
        BY <1>3 DEF LeadLess
    <2>3. i \in Nat /\ k \in Nat
        BY <1>1
    <2>4. CASE i < k
        <3>1. a[k] < c[k] /\ \A j \in Places : j > k => j > i
            BY <1>1, <2>1, <2>2, <2>3, <2>4, SMTT(20)
        <3> QED BY <2>1, <2>2, <3>1 DEF LeadLess
    <2>5. CASE k < i
        <3>1. a[i] < c[i] /\ \A j \in Places : j > i => j > k
            BY <1>1, <2>1, <2>2, <2>3, <2>5, SMTT(20)
        <3> QED BY <2>1, <2>2, <3>1 DEF LeadLess
    <2>6. CASE k = i
        <3>1. a[i] < c[i]
            BY <1>1, <2>1, <2>2, <2>6, SMTT(20)
        <3> QED BY <2>1, <2>2, <2>6, <3>1 DEF LeadLess
    <2> QED BY <2>3, <2>4, <2>5, <2>6, SMTT(20)
<1>4. ASSUME a # b PROVE LeadLess(a, b) \/ LeadLess(b, a)
    <2> DEFINE D == {i \in Places : a[i] # b[i]}
               R == {p \in Nat \X Nat : p[1] > p[2]}
    <2>1. IsFiniteSet(D) /\ D \subseteq Nat
        BY <1>1, FS_Subset
    <2>2. D # {}
        <3>1. a = [i \in Places |-> a[i]] /\ b = [i \in Places |-> b[i]]
            BY DEF Leads
        <3> QED BY <1>4, <3>1
    <2>3. \A x \in D : <<x, x>> \notin R
        BY <2>1, SMTT(20)
    <2>4. \A x, y, z \in D : <<x, y>> \in R /\ <<y, z>> \in R => <<x, z>> \in R
        BY <2>1, SMTT(20)
    <2>5. PICK i \in D : \A j \in D : <<j, i>> \notin R
        <3> HIDE DEF D, R
        <3> QED BY <2>1, <2>2, <2>3, <2>4, FiniteMinimal
    <2>6. \A j \in Places : j > i => a[j] = b[j]
        BY <1>1, <2>1, <2>5
    <2>7. a[i] < b[i] \/ b[i] < a[i]
        BY <1>1, SMTT(20)
    <2> QED BY <2>6, <2>7 DEF LeadLess
<1> QED BY <1>2, <1>3, <1>4

\* So is CmpEmulPrefix on keys.
LEMMA KeyOrdered ==
    ASSUME NEW a \in Key, NEW b \in Key, NEW c \in Key
    PROVE  /\ ~Less(a, a)
           /\ Less(a, b) /\ Less(b, c) => Less(a, c)
           /\ a = b \/ Less(a, b) \/ Less(b, a)
           /\ ~Less(a, b) /\ ~Less(b, c) => ~Less(a, c)
<1>1. /\ a.lead \in Leads /\ b.lead \in Leads /\ c.lead \in Leads
      /\ a.ext \in Nat /\ b.ext \in Nat /\ c.ext \in Nat
      /\ a.tail \in Nat /\ b.tail \in Nat /\ c.tail \in Nat
    BY DEF Key
<1>2. /\ a = [lead |-> a.lead, ext |-> a.ext, tail |-> a.tail]
      /\ b = [lead |-> b.lead, ext |-> b.ext, tail |-> b.tail]
    BY DEF Key
<1>3. ~Less(a, a)
    BY <1>1, SMTT(20) DEF Less
<1>4. ASSUME NEW x \in Key, NEW y \in Key, NEW z \in Key, Less(x, y), Less(y, z) PROVE Less(x, z)
    <2>1. /\ x.lead \in Leads /\ y.lead \in Leads /\ z.lead \in Leads
          /\ x.ext \in Nat /\ y.ext \in Nat /\ z.ext \in Nat
          /\ x.tail \in Nat /\ y.tail \in Nat /\ z.tail \in Nat
        BY DEF Key
    <2>2. CASE x.lead = y.lead /\ y.lead = z.lead
        BY <1>4, <2>1, <2>2, SMTT(20) DEF Less
    <2>3. CASE x.lead = y.lead /\ y.lead # z.lead
        BY <1>4, <2>3 DEF Less
    <2>4. CASE x.lead # y.lead /\ y.lead = z.lead
        BY <1>4, <2>4 DEF Less
    <2>5. CASE x.lead # y.lead /\ y.lead # z.lead
        <3>1. LeadLess(x.lead, y.lead) /\ LeadLess(y.lead, z.lead)
            BY <1>4, <2>5 DEF Less
        <3>2. LeadLess(x.lead, z.lead) /\ ~LeadLess(z.lead, z.lead)
            BY <2>1, <3>1, LeadOrder
        <3> QED BY <3>2 DEF Less
    <2> QED BY <2>2, <2>3, <2>4, <2>5
<1>5. ASSUME NEW x \in Key, NEW y \in Key PROVE x = y \/ Less(x, y) \/ Less(y, x)
    <2>1. /\ x.lead \in Leads /\ y.lead \in Leads
          /\ x.ext \in Nat /\ y.ext \in Nat /\ x.tail \in Nat /\ y.tail \in Nat
        BY DEF Key
    <2>2. CASE x.lead = y.lead
        <3>1. \/ x.ext < y.ext \/ y.ext < x.ext
              \/ x.ext = y.ext /\ (x.tail < y.tail \/ y.tail < x.tail \/ x.tail = y.tail)
            BY <2>1, SMTT(20)
        <3>2. x = [lead |-> x.lead, ext |-> x.ext, tail |-> x.tail]
              /\ y = [lead |-> y.lead, ext |-> y.ext, tail |-> y.tail]
            BY DEF Key
        <3> QED BY <2>2, <3>1, <3>2 DEF Less
    <2>3. CASE x.lead # y.lead
        BY <2>1, <2>3, LeadOrder DEF Less
    <2> QED BY <2>2, <2>3
<1>6. Less(a, b) /\ Less(b, c) => Less(a, c)
    BY <1>4
<1>7. ~Less(a, b) /\ ~Less(b, c) => ~Less(a, c)
    <2> SUFFICES ASSUME ~Less(a, b), ~Less(b, c), Less(a, c) PROVE FALSE
        OBVIOUS
    <2>1. b = a \/ Less(b, a)
        BY <1>5
    <2>2. Less(b, c)
        BY <1>4, <2>1
    <2> QED BY <2>2
<1> QED BY <1>3, <1>5, <1>6, <1>7

\* A finite set of keys has a first.
LEMMA LeastKey ==
    ASSUME NEW S \in SUBSET Key, IsFiniteSet(S), S # {}
    PROVE  Least(S) \in S /\ \A q \in S : ~Less(q, Least(S))
<1> DEFINE R == {p \in Key \X Key : Less(p[1], p[2])}
<1>1. \A x \in S : <<x, x>> \notin R
    BY KeyOrdered
<1>2. \A x, y, z \in S : <<x, y>> \in R /\ <<y, z>> \in R => <<x, z>> \in R
    BY KeyOrdered
<1>3. PICK x \in S : \A y \in S : <<y, x>> \notin R
    <2> HIDE DEF R
    <2> QED BY <1>1, <1>2, FiniteMinimal
<1>4. \A y \in S : ~Less(y, x)
    BY <1>3
<1> QED BY <1>4 DEF Least

(***************************************************************************)
(* The store: its types and the table of iterators.                        *)
(***************************************************************************)

\* The map of one key space.
Table(f) == /\ f \in [DOMAIN f -> ValLens] /\ DOMAIN f \subseteq Keys
            /\ IsFiniteSet(DOMAIN f)

Infos == [status : {0, 1}, ks : Spaces \cup {None}, m : 0 .. Lead, pat : Leads \cup {None}, eof : {0, 1}]

StoreTypes == /\ map = [s \in Spaces |-> map[s]] /\ \A s \in Spaces : Table(map[s])
              /\ iters \in [Ids -> Iterators \cup {None}]
              /\ info \in [Ids -> Infos]
              /\ scan \in [Ids -> Scans \cup {None}]
              /\ \A i \in Ids : scan[i] = None <=> iters[i] = None

\* What an open iterator and the history of its scan are made of.
LEMMA OpenFields ==
    ASSUME StoreTypes, NEW i \in Open
    PROVE  /\ i \in Ids /\ iters[i] \in Iterators /\ scan[i] \in Scans /\ iters[i] # None /\ scan[i] # None
           /\ iters[i].ks \in Spaces /\ iters[i].kind \in Kinds /\ iters[i].m \in 0 .. Lead
           /\ iters[i].pat \in Leads /\ iters[i].pos \in Key
           /\ scan[i].seen \subseteq Key /\ scan[i].stable \subseteq Key
           /\ scan[i].repeat \in BOOLEAN /\ scan[i].ended \in BOOLEAN
<1>1. i \in Ids /\ iters[i] \in Iterators /\ scan[i] \in Scans /\ iters[i] # None /\ scan[i] # None
    BY DEF Open, StoreTypes
<1>2. /\ iters[i].ks \in Spaces /\ iters[i].kind \in Kinds /\ iters[i].m \in 0 .. Lead
      /\ iters[i].pat \in Leads /\ iters[i].pos \in Key
    BY <1>1 DEF Iterators
<1>3. /\ scan[i].seen \subseteq Key /\ scan[i].stable \subseteq Key
      /\ scan[i].repeat \in BOOLEAN /\ scan[i].ended \in BOOLEAN
    BY <1>1 DEF Scans
<1> QED BY <1>1, <1>2, <1>3

\* The histories when only the map of one key space changes.
LEMMA TrackedFields ==
    ASSUME StoreTypes, NEW m, NEW i \in Open
    PROVE  /\ Tracked(m) \in [Ids -> Scans \cup {None}]
           /\ Tracked(m)[i] \in Scans /\ Tracked(m)[i] # None
           /\ Tracked(m)[i].seen = scan[i].seen /\ Tracked(m)[i].ended = scan[i].ended
           /\ Tracked(m)[i].repeat = scan[i].repeat
           /\ Tracked(m)[i].stable = scan[i].stable \cap DOMAIN m[iters[i].ks]
<1>1. ASSUME NEW sc \in Scans, NEW D
      PROVE  /\ [sc EXCEPT !.stable = @ \cap D] \in Scans
             /\ [sc EXCEPT !.stable = @ \cap D].seen = sc.seen
             /\ [sc EXCEPT !.stable = @ \cap D].ended = sc.ended
             /\ [sc EXCEPT !.stable = @ \cap D].repeat = sc.repeat
             /\ [sc EXCEPT !.stable = @ \cap D].stable = sc.stable \cap D
    BY DEF Scans
<1>2. ASSUME NEW j \in Ids
      PROVE  Tracked(m)[j] = IF scan[j] = None THEN None
                             ELSE [scan[j] EXCEPT !.stable = @ \cap DOMAIN m[iters[j].ks]]
    BY DEF Tracked
<1>3. ASSUME NEW j \in Ids, scan[j] # None
      PROVE  /\ Tracked(m)[j] \in Scans
             /\ Tracked(m)[j].seen = scan[j].seen /\ Tracked(m)[j].ended = scan[j].ended
             /\ Tracked(m)[j].repeat = scan[j].repeat
             /\ Tracked(m)[j].stable = scan[j].stable \cap DOMAIN m[iters[j].ks]
    <2>1. PICK sc \in Scans : sc = scan[j]
        BY <1>3 DEF StoreTypes
    <2>2. PICK D : D = DOMAIN m[iters[j].ks]
        OBVIOUS
    <2>3. Tracked(m)[j] = [sc EXCEPT !.stable = @ \cap D]
        BY <1>2, <1>3, <2>1, <2>2
    <2>4. /\ [sc EXCEPT !.stable = @ \cap D] \in Scans
          /\ [sc EXCEPT !.stable = @ \cap D].seen = sc.seen
          /\ [sc EXCEPT !.stable = @ \cap D].ended = sc.ended
          /\ [sc EXCEPT !.stable = @ \cap D].repeat = sc.repeat
          /\ [sc EXCEPT !.stable = @ \cap D].stable = sc.stable \cap D
        BY <1>1
    <2> QED BY <2>1, <2>2, <2>3, <2>4
<1>4. Tracked(m) \in [Ids -> Scans \cup {None}]
    <2>1. Tracked(m) = [j \in Ids |-> Tracked(m)[j]]
        BY DEF Tracked
    <2>2. \A j \in Ids : Tracked(m)[j] \in Scans \cup {None}
        BY <1>2, <1>3
    <2> QED BY <2>1, <2>2
<1>5. i \in Ids /\ scan[i] # None
    BY OpenFields
<1> QED BY <1>3, <1>4, <1>5, StoreAssumption

\* The closed ones stay without a history.
LEMMA TrackedTypes ==
    ASSUME StoreTypes, NEW m
    PROVE  /\ Tracked(m) \in [Ids -> Scans \cup {None}]
           /\ \A i \in Ids : Tracked(m)[i] = None <=> iters[i] = None
<1>1. ASSUME NEW i \in Ids
      PROVE  /\ Tracked(m)[i] \in Scans \cup {None} /\ (Tracked(m)[i] = None <=> iters[i] = None)
    <2>1. CASE iters[i] = None
        BY <2>1 DEF StoreTypes, Tracked
    <2>2. CASE iters[i] # None
        <3>1. i \in Open
            BY <2>2 DEF Open
        <3> QED BY <2>2, <3>1, TrackedFields
    <2> QED BY <2>1, <2>2
<1>2. Tracked(m) = [i \in Ids |-> Tracked(m)[i]]
    BY DEF Tracked
<1> QED BY <1>1, <1>2

\* A map of the types, with one key space changed.
LEMMA MapTypes ==
    ASSUME StoreTypes, NEW s \in Spaces, NEW f, Table(f), NEW m, m = [map EXCEPT ![s] = f]
    PROVE  m = [t \in Spaces |-> m[t]] /\ \A t \in Spaces : Table(m[t])
BY DEF StoreTypes

\* Some keys are taken out of a key space.
LEMMA WithoutTable ==
    ASSUME NEW f, Table(f), NEW S
    PROVE  Table(Without(f, S)) /\ DOMAIN Without(f, S) = DOMAIN f \ S
<1>1. DOMAIN Without(f, S) = DOMAIN f \ S
    BY DEF Without
<1>2. IsFiniteSet(DOMAIN f \ S)
    BY FS_Subset DEF Table
<1>3. Without(f, S) \in [DOMAIN f \ S -> ValLens]
    BY DEF Without, Table
<1> QED BY <1>1, <1>2, <1>3 DEF Table

\* Every write to the map but that of a scan is of this form.
LEMMA WriteShape ==
    ASSUME StoreTypes, NEW s \in Spaces,
           \/ \E k \in Keys, v \in ValLens, opt \in Options : Store(s, k, v, opt)
           \/ \E k \in Keys, strict \in BOOLEAN : Delete(s, k, strict)
           \/ Purge(s) \/ \E c \in Conds : DeleteGroup(s, c)
    PROVE  /\ UNCHANGED <<iters, info>> /\ resp'.op # "next"
           /\ \/ UNCHANGED <<map, scan>>
              \/ \E f : Table(f) /\ SetMap([map EXCEPT ![s] = f])
<1>0. Table(map[s])
    BY DEF StoreTypes
<1>1. ASSUME NEW k \in Keys, NEW v \in ValLens, NEW opt \in Options, Store(s, k, v, opt)
      PROVE  /\ UNCHANGED <<iters, info>> /\ resp'.op # "next"
             /\ \/ UNCHANGED <<map, scan>>
                \/ \E f : Table(f) /\ SetMap([map EXCEPT ![s] = f])
    <2>1. PICK g : g = map[s]
        OBVIOUS
    <2>2. PICK f : f = [q \in DOMAIN g \cup {k} |-> IF q = k THEN v ELSE g[q]]
        OBVIOUS
    <2>3. Table(f)
        <3>1. IsFiniteSet(DOMAIN g \cup {k})
            BY <1>0, <2>1, FS_AddElement DEF Table
        <3>2. DOMAIN f = DOMAIN g \cup {k} /\ f \in [DOMAIN g \cup {k} -> ValLens]
            BY <1>0, <2>1, <2>2 DEF Table
        <3>3. DOMAIN g \cup {k} \subseteq Keys
            BY <1>0, <2>1 DEF Table
        <3> QED BY <3>1, <3>2, <3>3 DEF Table
    <2>4. [map EXCEPT ![s] = [q \in DOMAIN @ \cup {k} |-> IF q = k THEN v ELSE @[q]]] = [map EXCEPT ![s] = f]
        BY <2>1, <2>2
    <2>5. UNCHANGED <<map, scan>> \/ SetMap([map EXCEPT ![s] = f])
        BY <1>1, <2>4 DEF Store
    <2>6. UNCHANGED <<iters, info>> /\ resp'.op # "next"
        BY <1>1, SMTT(20) DEF Store, Answer
    <2> QED BY <2>3, <2>5, <2>6
<1>2. ASSUME NEW k \in Keys, NEW strict \in BOOLEAN, Delete(s, k, strict)
      PROVE  /\ UNCHANGED <<iters, info>> /\ resp'.op # "next"
             /\ \/ UNCHANGED <<map, scan>>
                \/ \E f : Table(f) /\ SetMap([map EXCEPT ![s] = f])
    <2>1. PICK f : f = Without(map[s], {k})
        OBVIOUS
    <2>2. Table(f)
        BY <1>0, <2>1, WithoutTable
    <2>3. UNCHANGED <<map, scan>> \/ SetMap([map EXCEPT ![s] = f])
        BY <1>2, <2>1 DEF Delete
    <2>4. UNCHANGED <<iters, info>> /\ resp'.op # "next"
        BY <1>2, SMTT(20) DEF Delete, Answer
    <2> QED BY <2>2, <2>3, <2>4
<1>3. ASSUME Purge(s)
      PROVE  /\ UNCHANGED <<iters, info>> /\ resp'.op # "next"
             /\ \E f : Table(f) /\ SetMap([map EXCEPT ![s] = f])
    <2>1. Table(Empty)
        BY FS_EmptySet DEF Table, Empty
    <2> QED BY <1>3, <2>1 DEF Purge, Answer
<1>4. ASSUME NEW c \in Conds, DeleteGroup(s, c)
      PROVE  /\ UNCHANGED <<iters, info>> /\ resp'.op # "next"
             /\ \E f : Table(f) /\ SetMap([map EXCEPT ![s] = f])
    <2>1. PICK gone : gone = GroupKeys(s, BackMask(c.m), Reversed(c.pat))
        OBVIOUS
    <2>2. PICK f : f = Without(map[s], gone)
        OBVIOUS
    <2>3. Table(f)
        BY <1>0, <2>2, WithoutTable
    <2>4. SetMap([map EXCEPT ![s] = f]) /\ UNCHANGED <<iters, info>>
        BY <1>4, <2>1, <2>2 DEF DeleteGroup
    <2>5. resp'.op # "next"
        BY <1>4 DEF DeleteGroup, Answer
    <2> QED BY <2>3, <2>4, <2>5
<1> QED BY <1>1, <1>2, <1>3, <1>4

\* What a call of kv_iterator_next_set goes through, returns and leaves.
Rest(i) == From(iters[i].ks, iters[i].pos)
Got(i) == Batch(iters[i], Rest(i))
Left(i) == Rest(i) \ Got(i)
InGroup(i, k) == Matches(k, FrontMask(iters[i].m), iters[i].pat)
More(i) == Left(i) # {} /\ InGroup(i, Least(Left(i)))
Kept(i) == IF iters[i].kind = "kvdel" THEN [map EXCEPT ![iters[i].ks] = Without(@, Got(i))] ELSE map

\* The step in these terms.
LEMMA NextSetShape ==
    ASSUME NEW i \in Ids, NextSet(i)
    PROVE  /\ i \in Open /\ map' = Kept(i)
           /\ iters' = IF More(i) THEN [iters EXCEPT ![i].pos = Least(Left(i))] ELSE iters
           /\ info' = [info EXCEPT ![i].eof = IF More(i) THEN 0 ELSE 1]
           /\ scan' = [Tracked(Kept(i)) EXCEPT
                          ![i].seen = @ \cup Got(i),
                          ![i].repeat = @ \/ (~scan[i].ended /\ Got(i) \cap scan[i].seen # {}),
                          ![i].ended = @ \/ ~More(i)]
           /\ resp'.op = "next" /\ resp'.it = i
BY DEF NextSet, Resume, Rest, Got, Left, InGroup, More, Kept

\* The keys of a walk are keys of the map.
LEMMA RestKeys ==
    ASSUME StoreTypes, NEW i \in Open
    PROVE  /\ Rest(i) \subseteq DOMAIN map[iters[i].ks] /\ Rest(i) \subseteq Key
           /\ Got(i) \subseteq Rest(i) /\ Left(i) \subseteq Rest(i)
           /\ IsFiniteSet(Rest(i)) /\ IsFiniteSet(Left(i))
           /\ Left(i) # {} => Least(Left(i)) \in Left(i) /\ \A q \in Left(i) : ~Less(q, Least(Left(i)))
<1>1. iters[i].ks \in Spaces
    BY OpenFields
<1>2. DOMAIN map[iters[i].ks] \subseteq Keys /\ IsFiniteSet(DOMAIN map[iters[i].ks])
    BY <1>1 DEF StoreTypes, Table
<1>3. Rest(i) \subseteq DOMAIN map[iters[i].ks] /\ Rest(i) \subseteq Key
    BY <1>2, StoreAssumption DEF Rest, From
<1>4. Got(i) \subseteq Rest(i) /\ Left(i) \subseteq Rest(i)
    BY DEF Got, Left, Batch, Walk
<1>5. IsFiniteSet(Rest(i)) /\ IsFiniteSet(Left(i))
    BY <1>2, <1>3, <1>4, FS_Subset
<1>6. Left(i) # {} => Least(Left(i)) \in Left(i) /\ \A q \in Left(i) : ~Less(q, Least(Left(i)))
    BY <1>3, <1>4, <1>5, LeastKey
<1> QED BY <1>3, <1>4, <1>5, <1>6

\* The map after a call.
LEMMA KeptTypes ==
    ASSUME StoreTypes, NEW i \in Open
    PROVE  /\ Kept(i) = [s \in Spaces |-> Kept(i)[s]] /\ \A s \in Spaces : Table(Kept(i)[s])
           /\ \A s \in Spaces : DOMAIN Kept(i)[s] \subseteq DOMAIN map[s]
<1>1. CASE iters[i].kind # "kvdel"
    BY <1>1 DEF Kept, StoreTypes
<1>2. CASE iters[i].kind = "kvdel"
    <2>1. PICK s \in Spaces : s = iters[i].ks
        BY OpenFields
    <2>2. PICK f : f = Without(map[s], Got(i))
        OBVIOUS
    <2>3. Table(f) /\ DOMAIN f \subseteq DOMAIN map[s]
        <3>1. Table(map[s])
            BY DEF StoreTypes
        <3>2. Table(Without(map[s], Got(i))) /\ DOMAIN Without(map[s], Got(i)) = DOMAIN map[s] \ Got(i)
            BY <3>1, WithoutTable
        <3> QED BY <2>2, <3>2
    <2>4. Kept(i) = [map EXCEPT ![s] = f]
        BY <1>2, <2>1, <2>2 DEF Kept
    <2>5. Kept(i) = [t \in Spaces |-> Kept(i)[t]] /\ \A t \in Spaces : Table(Kept(i)[t])
        BY <2>3, <2>4, MapTypes
    <2>6. \A t \in Spaces : DOMAIN Kept(i)[t] \subseteq DOMAIN map[t]
        <3>1. Kept(i)[s] = f /\ \A t \in Spaces \ {s} : Kept(i)[t] = map[t]
            BY <2>4 DEF StoreTypes
        <3> QED BY <2>3, <3>1, SMTT(20)
    <2> QED BY <2>5, <2>6
<1> QED BY <1>1, <1>2

\* The update of one history.
LEMMA HistoryUpdate ==
    ASSUME NEW F \in [Ids -> Scans \cup {None}], NEW i \in Ids, NEW sc \in Scans, F[i] = sc,
           NEW G, NEW r \in BOOLEAN, NEW e \in BOOLEAN,
           NEW S, S = [F EXCEPT ![i].seen = @ \cup G, ![i].repeat = @ \/ r, ![i].ended = @ \/ e],
           NEW nsc, nsc = [sc EXCEPT !.seen = @ \cup G, !.repeat = @ \/ r, !.ended = @ \/ e]
    PROVE  S = [F EXCEPT ![i] = nsc]
BY DEF Scans

\* The iterator and its history after a call; the others are as Tracked leaves them.
LEMMA NextSetFields ==
    ASSUME StoreTypes, NEW i \in Ids, NextSet(i)
    PROVE  /\ iters' \in [Ids -> Iterators \cup {None}] /\ scan' \in [Ids -> Scans \cup {None}]
           /\ \A j \in Ids : iters'[j] = None <=> iters[j] = None
           /\ \A j \in Ids : scan'[j] = None <=> scan[j] = None
           /\ \A j \in Ids \ {i} : iters'[j] = iters[j] /\ scan'[j] = Tracked(Kept(i))[j]
           /\ iters'[i].ks = iters[i].ks /\ iters'[i].m = iters[i].m /\ iters'[i].pat = iters[i].pat
           /\ iters'[i].pos = IF More(i) THEN Least(Left(i)) ELSE iters[i].pos
           /\ scan'[i].seen = scan[i].seen \cup Got(i)
           /\ scan'[i].repeat = (scan[i].repeat \/ (~scan[i].ended /\ Got(i) \cap scan[i].seen # {}))
           /\ scan'[i].ended = (scan[i].ended \/ ~More(i))
           /\ scan'[i].stable = scan[i].stable \cap DOMAIN Kept(i)[iters[i].ks]
<1>1. i \in Open
    BY NextSetShape
<1>2. PICK it \in Iterators : it = iters[i] /\ it # None
    BY <1>1, OpenFields
<1>3. PICK sc \in Scans : sc = Tracked(Kept(i))[i]
    BY <1>1, TrackedFields
<1>4. /\ sc.seen = scan[i].seen /\ sc.ended = scan[i].ended /\ sc.repeat = scan[i].repeat
      /\ sc.stable = scan[i].stable \cap DOMAIN Kept(i)[iters[i].ks]
    BY <1>1, <1>3, TrackedFields
<1>5. Got(i) \subseteq Key
    BY <1>1, RestKeys
<1>6. More(i) => Least(Left(i)) \in Key
    BY <1>1, RestKeys DEF More
<1>7. PICK new : new = [it EXCEPT !.pos = Least(Left(i))]
    OBVIOUS
<1>8. More(i) => /\ new \in Iterators /\ new.ks = it.ks /\ new.m = it.m /\ new.pat = it.pat
                 /\ new.pos = Least(Left(i))
    BY <1>6, <1>7 DEF Iterators
<1>9. iters' = IF More(i) THEN [iters EXCEPT ![i] = new] ELSE iters
    BY <1>2, <1>7, NextSetShape
<1>10. PICK r \in BOOLEAN, e \in BOOLEAN :
          /\ r = (~scan[i].ended /\ Got(i) \cap scan[i].seen # {})
          /\ e = ~More(i)
    BY <1>1, OpenFields
<1>11. PICK nsc : nsc = [sc EXCEPT !.seen = @ \cup Got(i), !.repeat = @ \/ r, !.ended = @ \/ e]
    OBVIOUS
<1>12. /\ nsc \in Scans /\ nsc.seen = sc.seen \cup Got(i)
       /\ nsc.repeat = (sc.repeat \/ r) /\ nsc.ended = (sc.ended \/ e)
       /\ nsc.stable = sc.stable
    BY <1>5, <1>11 DEF Scans
<1>13. scan' = [Tracked(Kept(i)) EXCEPT ![i] = nsc]
    <2>1. PICK F \in [Ids -> Scans \cup {None}] : F = Tracked(Kept(i))
        BY TrackedTypes
    <2>2. scan' = [F EXCEPT ![i].seen = @ \cup Got(i), ![i].repeat = @ \/ r, ![i].ended = @ \/ e]
        BY <1>10, <2>1, NextSetShape
    <2>3. F[i] = sc
        BY <1>3, <2>1
    <2>4. scan' = [F EXCEPT ![i] = nsc]
        BY <1>11, <2>2, <2>3, HistoryUpdate, ZenonT(40)
    <2> QED BY <2>1, <2>4
<1>14. /\ Tracked(Kept(i)) \in [Ids -> Scans \cup {None}]
       /\ \A j \in Ids : Tracked(Kept(i))[j] = None <=> iters[j] = None
    BY TrackedTypes
<1>15. iters \in [Ids -> Iterators \cup {None}] /\ \A j \in Ids : scan[j] = None <=> iters[j] = None
    BY DEF StoreTypes
<1>16. /\ iters' \in [Ids -> Iterators \cup {None}]
       /\ \A j \in Ids : iters'[j] = None <=> iters[j] = None
       /\ \A j \in Ids \ {i} : iters'[j] = iters[j]
       /\ iters'[i].ks = iters[i].ks /\ iters'[i].m = iters[i].m /\ iters'[i].pat = iters[i].pat
       /\ iters'[i].pos = IF More(i) THEN Least(Left(i)) ELSE iters[i].pos
    <2>1. CASE More(i)
        <3>1. new # None
            BY <1>8, <2>1, StoreAssumption
        <3>2. iters' = [iters EXCEPT ![i] = new] /\ new \in Iterators
            BY <1>8, <1>9, <2>1
        <3>3. iters'[i] = new /\ \A j \in Ids \ {i} : iters'[j] = iters[j]
            BY <1>15, <3>2
        <3> QED BY <1>2, <1>8, <1>15, <2>1, <3>1, <3>2, <3>3
    <2>2. CASE ~More(i)
        BY <1>9, <1>15, <2>2
    <2> QED BY <2>1, <2>2
<1>17. /\ scan' \in [Ids -> Scans \cup {None}]
       /\ \A j \in Ids \ {i} : scan'[j] = Tracked(Kept(i))[j]
       /\ scan'[i] = nsc
    BY <1>12, <1>13, <1>14
<1>18. nsc # None
    BY <1>12, StoreAssumption
<1>19. \A j \in Ids : scan'[j] = None <=> scan[j] = None
    BY <1>1, <1>14, <1>15, <1>17, <1>18 DEF Open
<1> QED BY <1>4, <1>10, <1>12, <1>16, <1>17, <1>19

\* The id that a new iterator gets is free.
LEMMA FreeIsFree == ASSUME Open # Ids PROVE FreeId \in Ids \ Open
<1> DEFINE F == Ids \ Open
           R == {p \in Nat \X Nat : p[1] < p[2]}
<1>1. Ids \subseteq Nat /\ IsFiniteSet(Ids) /\ Open \subseteq Ids
    <2>1. MaxIter \in Nat
        BY StoreAssumption
    <2> QED BY <2>1, FS_Interval, SMTT(20) DEF Ids, Open
<1>2. F \subseteq Nat /\ F # {} /\ IsFiniteSet(F)
    BY <1>1, FS_Subset
<1>3. \A x \in F : <<x, x>> \notin R
    BY <1>2, SMTT(20)
<1>4. \A x, y, z \in F : <<x, y>> \in R /\ <<y, z>> \in R => <<x, z>> \in R
    BY <1>2, SMTT(20)
<1>5. PICK x \in F : \A y \in F : <<y, x>> \notin R
    <2> HIDE DEF F, R
    <2> QED BY <1>2, <1>3, <1>4, FiniteMinimal
<1>6. ASSUME NEW y \in F PROVE x <= y
    <2>1. x \in Nat /\ y \in Nat /\ <<y, x>> \notin R
        BY <1>2, <1>5
    <2>2. ~(y < x)
        BY <2>1
    <2> QED BY <2>1, <2>2, SMTT(20)
<1> QED BY <1>6 DEF FreeId

\* What kv_open_iterator adds to the tables.
NewIterator(s, kind, c) ==
    [ks |-> s, kind |-> kind, m |-> c.m, pat |-> c.pat, pos |-> MinKey(FrontMask(c.m), c.pat)]
NewInfo(s, c) == [status |-> 1, ks |-> s, m |-> c.m, pat |-> c.pat, eof |-> 0]

\* What kv_open_iterator enters into its two tables has the right types.
LEMMA OpenTypes ==
    ASSUME StoreTypes, NEW s \in Spaces, NEW kind \in Kinds, NEW c \in Conds
    PROVE  /\ c.m \in 0 .. Lead /\ c.pat \in Leads
           /\ MinKey(FrontMask(c.m), c.pat) \in Key
           /\ NewIterator(s, kind, c) \in Iterators /\ NewIterator(s, kind, c) # None
           /\ NewInfo(s, c) \in Infos
           /\ Fresh(s, FrontMask(c.m), c.pat) \in Scans /\ Fresh(s, FrontMask(c.m), c.pat) # None
<1>1. c.m \in 0 .. Lead /\ c.pat \in Leads
    BY StoreAssumption
<1>2. MinKey(FrontMask(c.m), c.pat) \in Key
    BY <1>1 DEF MinKey, Key, Leads, Byte
<1>3. NewIterator(s, kind, c) \in Iterators
    BY <1>1, <1>2 DEF NewIterator, Iterators
<1>4. NewInfo(s, c) \in Infos
    BY <1>1 DEF NewInfo, Infos
<1>5. DOMAIN map[s] \subseteq Key
    BY StoreAssumption DEF StoreTypes, Table
<1>6. Fresh(s, FrontMask(c.m), c.pat) \in Scans
    BY <1>5 DEF Fresh, Scans
<1> QED BY <1>1, <1>2, <1>3, <1>4, <1>6, StoreAssumption

\* An opening either changes nothing or fills the entries of a free id, for a
\* group that no open iterator has.
LEMMA OpenShape ==
    ASSUME NEW s \in Spaces, NEW kind \in Kinds, NEW c \in Conds, OpenIterator(s, kind, c)
    PROVE  /\ UNCHANGED <<map, avail>> /\ resp'.op # "next"
           /\ \/ UNCHANGED <<iters, info, scan>>
              \/ \E i \in Ids \ Open :
                    /\ SameGroup(c) = {}
                    /\ iters' = [iters EXCEPT ![i] = NewIterator(s, kind, c)]
                    /\ info' = [info EXCEPT ![i] = NewInfo(s, c)]
                    /\ scan' = [scan EXCEPT ![i] = Fresh(s, FrontMask(c.m), c.pat)]
<1>1. CASE Open = Ids \/ SameGroup(c) # {}
    BY <1>1, SMTT(20) DEF OpenIterator, Answer
<1>2. CASE Open # Ids /\ SameGroup(c) = {}
    <2>1. FreeId \in Ids \ Open
        BY <1>2, FreeIsFree
    <2>2. /\ iters' = [iters EXCEPT ![FreeId] = NewIterator(s, kind, c)]
          /\ info' = [info EXCEPT ![FreeId] = NewInfo(s, c)]
          /\ scan' = [scan EXCEPT ![FreeId] = Fresh(s, FrontMask(c.m), c.pat)]
          /\ UNCHANGED <<map, avail>>
        BY <1>2 DEF OpenIterator, NewIterator, NewInfo
    <2>3. resp'.op # "next"
        BY <1>2 DEF OpenIterator, Answer
    <2> QED BY <1>2, <2>1, <2>2, <2>3
<1> QED BY <1>1, <1>2

\* What a write leaves: the tables of iterators, and the types.
LEMMA WriteTypes ==
    ASSUME StoreTypes, NEW s \in Spaces, NEW f, Table(f), SetMap([map EXCEPT ![s] = f]),
           UNCHANGED <<iters, info>>
    PROVE  StoreTypes'
<1>1. PICK m : m = [map EXCEPT ![s] = f]
    OBVIOUS
<1>2. m = [t \in Spaces |-> m[t]] /\ \A t \in Spaces : Table(m[t])
    BY <1>1 DEF StoreTypes
<1>3. map' = m /\ scan' = Tracked(m)
    BY <1>1 DEF SetMap
<1>4. scan' \in [Ids -> Scans \cup {None}] /\ \A i \in Ids : scan'[i] = None <=> iters[i] = None
    BY <1>3, TrackedTypes
<1>5. iters' \in [Ids -> Iterators \cup {None}] /\ info' \in [Ids -> Infos]
    BY DEF StoreTypes
<1>6. map' = [t \in Spaces |-> map'[t]] /\ \A t \in Spaces : Table(map'[t])
    BY <1>2, <1>3
<1>7. iters' = iters
    OBVIOUS
<1> QED BY <1>4, <1>5, <1>6, <1>7 DEF StoreTypes, Table

\* Opening an iterator keeps the types.
LEMMA OpenKeepsTypes ==
    ASSUME StoreTypes, NEW s \in Spaces, NEW kind \in Kinds, NEW c \in Conds, NEW i \in Ids,
           iters' = [iters EXCEPT ![i] = NewIterator(s, kind, c)],
           info' = [info EXCEPT ![i] = NewInfo(s, c)],
           scan' = [scan EXCEPT ![i] = Fresh(s, FrontMask(c.m), c.pat)],
           UNCHANGED <<map, avail>>
    PROVE  StoreTypes'
<1>1. PICK it \in Iterators, ni \in Infos, sc \in Scans :
         /\ it = NewIterator(s, kind, c) /\ ni = NewInfo(s, c) /\ it # None
         /\ sc = Fresh(s, FrontMask(c.m), c.pat) /\ sc # None
    BY OpenTypes
<1>2. iters' = [iters EXCEPT ![i] = it] /\ info' = [info EXCEPT ![i] = ni] /\ scan' = [scan EXCEPT ![i] = sc]
    BY <1>1
<1> QED BY <1>1, <1>2, SMTT(20) DEF StoreTypes, Table

\* Every step keeps the types.
LEMMA StoreStep == ASSUME StoreTypes, [Next]_vars PROVE StoreTypes'
<1>1. ASSUME NEW s \in Spaces,
             \/ \E k \in Keys, v \in ValLens, opt \in Options : Store(s, k, v, opt)
             \/ \E k \in Keys, strict \in BOOLEAN : Delete(s, k, strict)
             \/ Purge(s) \/ \E c \in Conds : DeleteGroup(s, c)
      PROVE  StoreTypes'
    <2>1. /\ UNCHANGED <<iters, info>>
          /\ \/ UNCHANGED <<map, scan>>
             \/ \E f : Table(f) /\ SetMap([map EXCEPT ![s] = f])
        BY <1>1, WriteShape
    <2>2. CASE UNCHANGED <<map, scan>>
        BY <2>1, <2>2 DEF StoreTypes, Table
    <2>3. CASE \E f : Table(f) /\ SetMap([map EXCEPT ![s] = f])
        BY <2>1, <2>3, WriteTypes
    <2> QED BY <2>1, <2>2, <2>3
<1>2. ASSUME NEW s \in Spaces, NEW kind \in Kinds, NEW c \in Conds, OpenIterator(s, kind, c)
      PROVE  StoreTypes'
    <2>1. CASE UNCHANGED <<iters, info, scan>>
        BY <1>2, <2>1, OpenShape DEF StoreTypes, Table
    <2>2. CASE ~UNCHANGED <<iters, info, scan>>
        BY <1>2, <2>2, OpenShape, OpenKeepsTypes, SMTT(20)
    <2> QED BY <2>1, <2>2
<1>3. ASSUME NEW i \in Ids, CloseIterator(i) PROVE StoreTypes'
    <2>1. PICK ni \in Infos : ni = info[i]
        BY DEF StoreTypes
    <2>2. [ni EXCEPT !.status = 0] \in Infos
        BY DEF Infos
    <2>3. info' = [info EXCEPT ![i] = [ni EXCEPT !.status = 0]]
        BY <1>3, <2>1 DEF CloseIterator
    <2>4. iters' = [iters EXCEPT ![i] = None] /\ scan' = [scan EXCEPT ![i] = None] /\ map' = map
        BY <1>3 DEF CloseIterator
    <2> QED BY <2>2, <2>3, <2>4 DEF StoreTypes, Table
<1>4. ASSUME NEW i \in Ids, NextSet(i) PROVE StoreTypes'
    <2>1. i \in Open /\ map' = Kept(i)
        BY <1>4, NextSetShape
    <2>2. map' = [s \in Spaces |-> map'[s]] /\ \A s \in Spaces : Table(map'[s])
        BY <2>1, KeptTypes
    <2>3. /\ iters' \in [Ids -> Iterators \cup {None}] /\ scan' \in [Ids -> Scans \cup {None}]
          /\ \A j \in Ids : scan'[j] = None <=> iters'[j] = None
        BY <1>4, NextSetFields DEF StoreTypes
    <2>4. info' \in [Ids -> Infos]
        <3>1. PICK e \in {0, 1} : info' = [info EXCEPT ![i].eof = e]
            BY <1>4, NextSetShape
        <3>2. PICK ni \in Infos : ni = info[i]
            BY DEF StoreTypes
        <3>3. [ni EXCEPT !.eof = e] \in Infos
            BY DEF Infos
        <3>4. info' = [info EXCEPT ![i] = [ni EXCEPT !.eof = e]]
            BY <3>1, <3>2
        <3> QED BY <3>3, <3>4 DEF StoreTypes
    <2> QED BY <2>2, <2>3, <2>4 DEF StoreTypes, Table
<1>5. ASSUME NEW i \in Ids, NextClosed(i) PROVE StoreTypes'
    BY <1>5 DEF NextClosed, StoreTypes, Table
<1>6. CASE UNCHANGED vars
    BY <1>6 DEF vars, StoreTypes, Table
<1>7. CASE Write(Spaces, Keys, ValLens, Options) \/ Bulk(Spaces, Conds)
    BY <1>1, <1>7 DEF Write, Bulk
<1>8. CASE Iterate(Spaces, Kinds, Conds)
    BY <1>2, <1>3, <1>4, <1>5, <1>8 DEF Iterate
<1> QED BY <1>6, <1>7, <1>8 DEF Next

\* An empty store has its types, and its two iterator tables agree.
LEMMA StoreInit == ASSUME Init PROVE StoreTypes /\ TableMatches
<1>1. Table(Empty)
    BY FS_EmptySet DEF Table, Empty
<1>2. map = [s \in Spaces |-> map[s]] /\ \A s \in Spaces : Table(map[s])
    BY <1>1 DEF Init
<1>3. Closed \in Infos /\ Closed.status = 0
    BY LeadAssumption, SMTT(20) DEF Closed, Infos
<1>4. /\ iters = [i \in Ids |-> None] /\ info = [i \in Ids |-> Closed] /\ scan = [i \in Ids |-> None]
    BY DEF Init
<1>5. StoreTypes
    BY <1>2, <1>3, <1>4 DEF StoreTypes
<1>6. TableMatches
    BY <1>3, <1>4, SMTT(20) DEF TableMatches, Open
<1> QED BY <1>5, <1>6

\* TableMatches looks at three fields of the two tables.
LEMMA MatchesKept ==
    ASSUME TableMatches,
           \A i \in Ids : iters'[i] = None <=> iters[i] = None,
           \A i \in Ids : info'[i].status = info[i].status,
           \A i \in Ids : info'[i].ks = info[i].ks /\ info'[i].m = info[i].m /\ info'[i].pat = info[i].pat,
           \A i \in Open : /\ iters'[i].ks = iters[i].ks
                           /\ iters'[i].m = iters[i].m /\ iters'[i].pat = iters[i].pat
    PROVE  TableMatches'
<1>1. Open' = Open /\ Open \subseteq Ids
    BY DEF Open
<1> QED BY <1>1, SMTT(20) DEF TableMatches

\* Every operation keeps the two iterator tables in step.
LEMMA MatchesStep == ASSUME StoreTypes, TableMatches, [Next]_vars PROVE TableMatches'
<1>1. ASSUME UNCHANGED <<iters, info>> PROVE TableMatches'
    BY <1>1 DEF TableMatches, Open
<1>2. ASSUME NEW s \in Spaces, NEW kind \in Kinds, NEW c \in Conds, OpenIterator(s, kind, c)
      PROVE  TableMatches'
    <2>1. CASE UNCHANGED <<iters, info, scan>>
        BY <1>1, <2>1
    <2>2. CASE ~UNCHANGED <<iters, info, scan>>
        <3>1. PICK i \in Ids \ Open :
                 /\ SameGroup(c) = {}
                 /\ iters' = [iters EXCEPT ![i] = NewIterator(s, kind, c)]
                 /\ info' = [info EXCEPT ![i] = NewInfo(s, c)]
            BY <1>2, <2>2, OpenShape, SMTT(20)
        <3>2. PICK it, ni : it = NewIterator(s, kind, c) /\ ni = NewInfo(s, c)
            OBVIOUS
        <3>3. /\ it # None /\ it.ks = ni.ks /\ it.m = ni.m /\ it.pat = ni.pat
              /\ ni.status = 1 /\ ni.m = c.m /\ ni.pat = c.pat
            BY <3>2, OpenTypes DEF NewIterator, NewInfo
        <3>4. /\ iters'[i] = it /\ info'[i] = ni
              /\ \A j \in Ids \ {i} : iters'[j] = iters[j] /\ info'[j] = info[j]
            BY <3>1, <3>2 DEF StoreTypes
        <3>5. Open' = Open \cup {i} /\ Open \subseteq Ids
            BY <3>1, <3>3, <3>4 DEF Open
        <3>6. \A j \in Open : ~(info[j].m = c.m /\ info[j].pat = c.pat)
            BY <3>1, <3>5 DEF SameGroup, TableMatches
        <3>7. \A j \in Ids : j \in Open' <=> info'[j].status = 1
            BY <3>1, <3>3, <3>4, <3>5, SMTT(20) DEF TableMatches
        <3>8. \A j \in Open' : /\ iters'[j].ks = info'[j].ks
                               /\ iters'[j].m = info'[j].m /\ iters'[j].pat = info'[j].pat
            BY <3>1, <3>3, <3>4, <3>5, SMTT(20) DEF TableMatches
        <3>9. \A j, k \in Open' : info'[j].m = info'[k].m /\ info'[j].pat = info'[k].pat => j = k
            BY <3>1, <3>3, <3>4, <3>5, <3>6, SMTT(20) DEF TableMatches
        <3> QED BY <3>7, <3>8, <3>9 DEF TableMatches
    <2> QED BY <2>1, <2>2
<1>3. ASSUME NEW i \in Ids, CloseIterator(i) PROVE TableMatches'
    <2>1. PICK ni \in Infos : ni = info[i]
        BY DEF StoreTypes
    <2>2. [ni EXCEPT !.status = 0].status = 0
        BY DEF Infos
    <2>3. info' = [info EXCEPT ![i] = [ni EXCEPT !.status = 0]] /\ iters' = [iters EXCEPT ![i] = None]
        BY <1>3, <2>1 DEF CloseIterator
    <2>4. /\ iters'[i] = None /\ info'[i].status = 0
          /\ \A j \in Ids \ {i} : iters'[j] = iters[j] /\ info'[j] = info[j]
        BY <2>2, <2>3 DEF StoreTypes
    <2>5. Open' = Open \ {i} /\ Open \subseteq Ids
        BY <2>4 DEF Open
    <2> QED BY <2>4, <2>5, SMTT(20) DEF TableMatches
<1>4. ASSUME NEW i \in Ids, NextSet(i) PROVE TableMatches'
    <2>1. PICK e : info' = [info EXCEPT ![i].eof = e]
        BY <1>4, NextSetShape
    <2>2. PICK ni \in Infos : ni = info[i]
        BY DEF StoreTypes
    <2>3. PICK new : new = [ni EXCEPT !.eof = e]
        OBVIOUS
    <2>4. new.status = ni.status /\ new.ks = ni.ks /\ new.m = ni.m /\ new.pat = ni.pat
        BY <2>3 DEF Infos
    <2>5. info' = [info EXCEPT ![i] = new]
        BY <2>1, <2>2, <2>3
    <2>6. info'[i] = new /\ \A j \in Ids \ {i} : info'[j] = info[j]
        BY <2>5 DEF StoreTypes
    <2>7. \A j \in Ids : /\ info'[j].status = info[j].status /\ info'[j].ks = info[j].ks
                         /\ info'[j].m = info[j].m /\ info'[j].pat = info[j].pat
        BY <2>2, <2>4, <2>6
    <2>8. /\ \A j \in Ids : iters'[j] = None <=> iters[j] = None
          /\ \A j \in Ids : /\ iters'[j].ks = iters[j].ks
                            /\ iters'[j].m = iters[j].m /\ iters'[j].pat = iters[j].pat
        BY <1>4, NextSetFields
    <2>9. Open \subseteq Ids
        BY DEF Open
    <2> QED BY <2>7, <2>8, <2>9, MatchesKept
<1>5. ASSUME NEW i \in Ids, NextClosed(i) PROVE TableMatches'
    BY <1>1, <1>5 DEF NextClosed
<1>6. CASE UNCHANGED vars
    BY <1>1, <1>6 DEF vars
<1>7. CASE Write(Spaces, Keys, ValLens, Options) \/ Bulk(Spaces, Conds)
    BY <1>1, <1>7, WriteShape DEF Write, Bulk
<1>8. CASE Iterate(Spaces, Kinds, Conds)
    BY <1>2, <1>3, <1>4, <1>5, <1>8 DEF Iterate
<1> QED BY <1>6, <1>7, <1>8 DEF Next

\* The types of the store, for every sequence of operations.
LEMMA StoreTyped == Spec => []StoreTypes
<1>1. Init => StoreTypes
    BY StoreInit
<1>2. StoreTypes /\ [Next]_vars => StoreTypes'
    BY StoreStep
<1> QED BY <1>1, <1>2, PTL DEF Spec

\* The table of iterators that kv_open_iterator consults agrees with the map of
\* handles that the other calls use, and no two open iterators have one group.
THEOREM TableMatchesCorrect == Spec => []TableMatches
<1>1. Init => TableMatches
    BY StoreInit
<1>2. StoreTypes /\ TableMatches /\ [Next]_vars => TableMatches'
    BY MatchesStep
<1> QED BY <1>1, <1>2, StoreTyped, PTL DEF Spec

(***************************************************************************)
(* Scans.                                                                  *)
(***************************************************************************)

\* The key that a scan starts at is in the group and not above any key of it.
LEMMA GroupMin ==
    ASSUME NEW m \in 0 .. Lead, NEW pat \in Leads
    PROVE  /\ Matches(MinKey(FrontMask(m), pat), FrontMask(m), pat)
           /\ \A k \in Key : Matches(k, FrontMask(m), pat) => ~Less(k, MinKey(FrontMask(m), pat))
<1>1. FrontMask(m) \subseteq Places
    BY LeadAssumption, SMTT(20) DEF FrontMask, Places
<1>2. PICK low : low = MinKey(FrontMask(m), pat)
    OBVIOUS
<1>3. /\ low.ext = 0 /\ low.tail = 0
      /\ \A i \in Places : low.lead[i] = IF i \in FrontMask(m) THEN pat[i] ELSE 0
    BY <1>2 DEF MinKey
<1>4. Matches(low, FrontMask(m), pat)
    BY <1>1, <1>3 DEF Matches
<1>5. ASSUME NEW k \in Key, Matches(k, FrontMask(m), pat) PROVE ~Less(k, low)
    <2>1. k.ext \in Nat /\ k.tail \in Nat /\ \A i \in Places : k.lead[i] \in {0, 1}
        BY DEF Key, Leads, Byte
    <2>2. \A i \in Places : ~(k.lead[i] < low.lead[i])
        BY <1>3, <1>5, <2>1, SMTT(20) DEF Matches
    <2>3. ~LeadLess(k.lead, low.lead)
        BY <2>2 DEF LeadLess
    <2> QED BY <1>3, <2>1, <2>3, SMTT(20) DEF Less
<1> QED BY <1>2, <1>4, <1>5

\* The keys of a group given by all the leading bytes, or by none, follow each
\* other in the order: a key between two of them is one of them.
LEMMA GroupConvex ==
    ASSUME NEW m \in {0, Lead}, NEW pat \in Leads, NEW a \in Key, NEW b \in Key, NEW c \in Key,
           Matches(a, FrontMask(m), pat), Matches(c, FrontMask(m), pat), ~Less(b, a), ~Less(c, b)
    PROVE  Matches(b, FrontMask(m), pat)
<1>1. CASE m = 0
    BY <1>1, SMTT(20) DEF FrontMask, Matches
<1>2. CASE m = Lead
    <2>1. FrontMask(m) = Places
        BY <1>2 DEF FrontMask, Places
    <2>2. a.lead \in Leads /\ b.lead \in Leads /\ c.lead \in Leads
        BY DEF Key
    <2>3. a.lead = pat /\ c.lead = pat
        BY <2>1, <2>2, SMTT(20) DEF Matches, Leads
    <2>4. ASSUME b.lead # pat PROVE FALSE
        <3>1. ~LeadLess(b.lead, pat) /\ ~LeadLess(pat, b.lead)
            BY <2>3, <2>4 DEF Less
        <3> QED BY <2>2, <2>4, <3>1, LeadOrder
    <2> QED BY <2>1, <2>4 DEF Matches
<1> QED BY <1>1, <1>2

\* A call returns keys of the group, and every key on the way to one it returns.
LEMMA GotFacts ==
    ASSUME StoreTypes, NEW i \in Open
    PROVE  /\ \A k \in Got(i) : InGroup(i, k)
           /\ \A k \in Got(i), q \in Rest(i) : ~Less(k, q) => q \in Got(i)
           /\ Left(i) # {} => \A k \in Got(i) : Less(k, Least(Left(i)))
<1>1. Rest(i) \subseteq Key /\ Got(i) \subseteq Rest(i) /\ Left(i) = Rest(i) \ Got(i)
    BY RestKeys DEF Left
<1> DEFINE Fits(k) == Size(iters[i], Before(Rest(i), k)) + EntrySize(iters[i], k) <= BufSize
<1>2. \A k : k \in Got(i) <=> k \in Rest(i) /\ \A q \in Rest(i) : ~Less(k, q) => InGroup(i, q) /\ Fits(q)
    BY DEF Got, Batch, Walk, InGroup
<1> HIDE DEF Fits
<1>3. \A k \in Got(i) : InGroup(i, k)
    BY <1>1, <1>2, KeyOrdered
<1>4. ASSUME NEW k \in Got(i), NEW q \in Rest(i), ~Less(k, q) PROVE q \in Got(i)
    <2>1. \A r \in Rest(i) : ~Less(q, r) => ~Less(k, r)
        BY <1>1, <1>4, KeyOrdered
    <2> QED BY <1>2, <2>1
<1>5. ASSUME Left(i) # {}, NEW k \in Got(i) PROVE Less(k, Least(Left(i)))
    <2>1. Least(Left(i)) \in Rest(i) /\ Least(Left(i)) \notin Got(i)
        BY <1>1, <1>5, RestKeys
    <2> QED BY <1>4, <2>1
<1> QED BY <1>3, <1>4, <1>5

\* What holds of a scan between its calls: the keys it has returned are below its
\* position, which is in the group, and unless it has ended the keys it still owes
\* are not.
ScanInv(i) ==
    /\ \E c \in Conds : iters[i].m = c.m
    /\ ~scan[i].repeat
    /\ scan[i].stable \subseteq DOMAIN map[iters[i].ks]
    /\ \A k \in scan[i].stable : Matches(k, FrontMask(iters[i].m), iters[i].pat)
    /\ Matches(iters[i].pos, FrontMask(iters[i].m), iters[i].pat)
    /\ ~scan[i].ended => \A k \in scan[i].seen : Less(k, iters[i].pos)
    /\ iters[i].m \in {0, Lead} =>
          IF scan[i].ended THEN scan[i].stable \subseteq scan[i].seen
          ELSE \A k \in scan[i].stable : k \in scan[i].seen \/ ~Less(k, iters[i].pos)

ScansInv == \A i \in Open : ScanInv(i)

\* A write takes keys from what the scans owe and changes nothing else of them.
LEMMA TrackedScan ==
    ASSUME StoreTypes, NEW i \in Open, ScanInv(i), NEW m, map' = m, iters'[i] = iters[i],
           scan'[i] = Tracked(m)[i]
    PROVE  ScanInv(i)'
<1>1. /\ scan'[i].seen = scan[i].seen /\ scan'[i].ended = scan[i].ended
      /\ scan'[i].repeat = scan[i].repeat
      /\ scan'[i].stable = scan[i].stable \cap DOMAIN map'[iters[i].ks]
    BY TrackedFields, SMTT(20)
<1>2. scan'[i].stable \subseteq scan[i].stable
    BY <1>1
<1> QED BY <1>1, <1>2 DEF ScanInv

\* A scan has just been opened.
LEMMA FreshScan ==
    ASSUME StoreTypes, NEW s \in Spaces, NEW kind \in Kinds, NEW c \in Conds, NEW i \in Ids,
           iters'[i] = NewIterator(s, kind, c), scan'[i] = Fresh(s, FrontMask(c.m), c.pat), map' = map
    PROVE  ScanInv(i)'
<1>1. c.m \in 0 .. Lead /\ c.pat \in Leads
    BY OpenTypes
<1>2. /\ iters'[i].ks = s /\ iters'[i].m = c.m /\ iters'[i].pat = c.pat
      /\ iters'[i].pos = MinKey(FrontMask(c.m), c.pat)
    BY SMTT(20) DEF NewIterator
<1>3. /\ scan'[i].seen = {} /\ ~scan'[i].repeat /\ ~scan'[i].ended
      /\ scan'[i].stable = {k \in DOMAIN map[s] : Matches(k, FrontMask(c.m), c.pat)}
    BY SMTT(20) DEF Fresh
<1>4. DOMAIN map[s] \subseteq Key
    BY StoreAssumption DEF StoreTypes, Table
<1>5. /\ Matches(MinKey(FrontMask(c.m), c.pat), FrontMask(c.m), c.pat)
      /\ \A k \in scan'[i].stable : ~Less(k, MinKey(FrontMask(c.m), c.pat))
    BY <1>1, <1>3, <1>4, GroupMin
<1>6. \E d \in Conds : iters'[i].m = d.m
    BY <1>2
<1> QED BY <1>2, <1>3, <1>5, <1>6 DEF ScanInv

\* A call of kv_iterator_next_set.
LEMMA NextScan ==
    ASSUME StoreTypes, NEW i \in Ids, NextSet(i), ScanInv(i)
    PROVE  ScanInv(i)'
<1>0. i \in Open /\ map' = Kept(i)
    BY NextSetShape
<1>1. PICK pos \in Key, pat \in Leads, m \in 0 .. Lead, ks \in Spaces :
         pos = iters[i].pos /\ pat = iters[i].pat /\ m = iters[i].m /\ ks = iters[i].ks
    BY <1>0, OpenFields
<1>2. PICK seen \in SUBSET Key, stable \in SUBSET Key, ended \in BOOLEAN :
         seen = scan[i].seen /\ stable = scan[i].stable /\ ended = scan[i].ended
    BY <1>0, OpenFields
<1>3. /\ iters'[i].ks = ks /\ iters'[i].m = m /\ iters'[i].pat = pat
      /\ iters'[i].pos = IF More(i) THEN Least(Left(i)) ELSE pos
    BY <1>1, NextSetFields
<1>4. /\ scan'[i].seen = seen \cup Got(i)
      /\ scan'[i].repeat = (scan[i].repeat \/ (~ended /\ Got(i) \cap seen # {}))
      /\ scan'[i].ended = (ended \/ ~More(i))
      /\ scan'[i].stable = stable \cap DOMAIN Kept(i)[ks]
    BY <1>1, <1>2, NextSetFields
<1>5. /\ ~scan[i].repeat /\ stable \subseteq DOMAIN map[ks]
      /\ \A k \in stable : Matches(k, FrontMask(m), pat)
      /\ Matches(pos, FrontMask(m), pat)
      /\ ~ended => \A k \in seen : Less(k, pos)
      /\ m \in {0, Lead} => IF ended THEN stable \subseteq seen
                            ELSE \A k \in stable : k \in seen \/ ~Less(k, pos)
    BY <1>1, <1>2 DEF ScanInv
<1>6. /\ Rest(i) = {k \in DOMAIN map[ks] : ~Less(k, pos)} /\ Rest(i) \subseteq Key
      /\ Got(i) \subseteq Rest(i) /\ Left(i) = Rest(i) \ Got(i)
    BY <1>0, <1>1, RestKeys DEF Rest, From, Left
<1>7. Left(i) # {} => /\ Least(Left(i)) \in Left(i) /\ Least(Left(i)) \in Key
                      /\ ~Less(Least(Left(i)), pos)
                      /\ \A q \in Left(i) : ~Less(q, Least(Left(i)))
                      /\ \A k \in Got(i) : Less(k, Least(Left(i)))
    BY <1>0, <1>6, RestKeys, GotFacts
<1>8. More(i) <=> Left(i) # {} /\ Matches(Least(Left(i)), FrontMask(m), pat)
    BY <1>1 DEF More, InGroup
<1>9. ~scan'[i].repeat
    BY <1>4, <1>5, <1>6
<1>10. /\ scan'[i].stable \subseteq DOMAIN map'[iters'[i].ks]
       /\ \A k \in scan'[i].stable : Matches(k, FrontMask(iters'[i].m), iters'[i].pat)
       /\ Matches(iters'[i].pos, FrontMask(iters'[i].m), iters'[i].pat)
    BY <1>0, <1>3, <1>4, <1>5, <1>8
<1>11. ASSUME ~scan'[i].ended, NEW k \in scan'[i].seen PROVE Less(k, iters'[i].pos)
    <2>1. ~ended /\ More(i) /\ Left(i) # {} /\ iters'[i].pos = Least(Left(i))
        BY <1>3, <1>4, <1>8, <1>11
    <2>2. CASE k \in Got(i)
        BY <1>7, <2>1, <2>2
    <2>3. CASE k \in seen
        <3>1. k \in Key /\ Less(k, pos) /\ ~Less(Least(Left(i)), pos) /\ Least(Left(i)) \in Key
            BY <1>5, <1>7, <2>1, <2>3
        <3> QED BY <2>1, <3>1, KeyOrdered
    <2> QED BY <1>4, <2>2, <2>3, <1>11
<1>12. ASSUME m \in {0, Lead}, NEW k \in scan'[i].stable
       PROVE  IF scan'[i].ended THEN k \in scan'[i].seen
              ELSE k \in scan'[i].seen \/ ~Less(k, iters'[i].pos)
    <2>1. k \in stable /\ k \in DOMAIN map[ks] /\ k \in Key
        BY <1>4, <1>5, <1>12
    <2>2. CASE k \in seen \cup Got(i)
        BY <1>4, <2>2
    <2>3. CASE k \notin seen \cup Got(i)
        <3>1. ~ended /\ ~Less(k, pos)
            BY <1>5, <1>12, <2>1, <2>3
        <3>2. k \in Left(i) /\ Left(i) # {}
            BY <1>6, <2>1, <2>3, <3>1
        <3>3. Matches(Least(Left(i)), FrontMask(m), pat)
            BY <1>5, <1>7, <1>12, <2>1, <3>2, GroupConvex
        <3>4. More(i) /\ ~Less(k, Least(Left(i)))
            BY <1>7, <1>8, <3>2, <3>3
        <3> QED BY <1>3, <1>4, <3>1, <3>4
    <2> QED BY <2>2, <2>3
<1>13. iters'[i].m \in {0, Lead} =>
          IF scan'[i].ended THEN scan'[i].stable \subseteq scan'[i].seen
          ELSE \A k \in scan'[i].stable : k \in scan'[i].seen \/ ~Less(k, iters'[i].pos)
    BY <1>3, <1>12
<1>14. \E c \in Conds : iters'[i].m = c.m
    BY <1>1, <1>3 DEF ScanInv
<1> QED BY <1>9, <1>10, <1>11, <1>13, <1>14 DEF ScanInv

\* Every operation keeps the account of every scan.
LEMMA ScansStep == ASSUME StoreTypes, ScansInv, [Next]_vars PROVE ScansInv'
<1>0. Open \subseteq Ids
    BY DEF Open
<1>1. ASSUME UNCHANGED <<map, iters, scan>> PROVE ScansInv'
    BY <1>1 DEF ScansInv, ScanInv, Open
<1>2. ASSUME NEW s \in Spaces,
             \/ \E k \in Keys, v \in ValLens, opt \in Options : Store(s, k, v, opt)
             \/ \E k \in Keys, strict \in BOOLEAN : Delete(s, k, strict)
             \/ Purge(s) \/ \E c \in Conds : DeleteGroup(s, c)
      PROVE  ScansInv'
    <2>1. /\ UNCHANGED <<iters, info>>
          /\ \/ UNCHANGED <<map, scan>>
             \/ \E f : Table(f) /\ SetMap([map EXCEPT ![s] = f])
        BY <1>2, WriteShape
    <2>2. CASE UNCHANGED <<map, scan>>
        BY <1>1, <2>1, <2>2
    <2>3. CASE \E f : Table(f) /\ SetMap([map EXCEPT ![s] = f])
        <3>1. PICK m : map' = m /\ scan' = Tracked(m)
            BY <2>3 DEF SetMap
        <3>2. ASSUME NEW i \in Open PROVE ScanInv(i)'
            BY <2>1, <3>1, TrackedScan DEF ScansInv
        <3>3. Open' = Open
            BY <2>1 DEF Open
        <3> QED BY <3>2, <3>3 DEF ScansInv
    <2> QED BY <2>1, <2>2, <2>3
<1>3. ASSUME NEW s \in Spaces, NEW kind \in Kinds, NEW c \in Conds, OpenIterator(s, kind, c)
      PROVE  ScansInv'
    <2>1. CASE UNCHANGED <<iters, info, scan>>
        BY <1>1, <1>3, <2>1, OpenShape
    <2>2. CASE ~UNCHANGED <<iters, info, scan>>
        <3>1. PICK i \in Ids \ Open :
                 /\ iters' = [iters EXCEPT ![i] = NewIterator(s, kind, c)]
                 /\ scan' = [scan EXCEPT ![i] = Fresh(s, FrontMask(c.m), c.pat)]
                 /\ map' = map
            BY <1>3, <2>2, OpenShape, SMTT(20)
        <3>2. /\ iters'[i] = NewIterator(s, kind, c) /\ scan'[i] = Fresh(s, FrontMask(c.m), c.pat)
              /\ \A j \in Ids \ {i} : iters'[j] = iters[j] /\ scan'[j] = scan[j]
            BY <3>1 DEF StoreTypes
        <3>3. ScanInv(i)'
            BY <3>1, <3>2, FreshScan
        <3>4. ASSUME NEW j \in Open PROVE ScanInv(j)'
            <4>1. iters'[j] = iters[j] /\ scan'[j] = scan[j] /\ map' = map
                BY <1>0, <3>1, <3>2
            <4> QED BY <4>1 DEF ScansInv, ScanInv
        <3>5. Open' \subseteq Open \cup {i}
            BY <3>2 DEF Open
        <3> QED BY <3>3, <3>4, <3>5 DEF ScansInv
    <2> QED BY <2>1, <2>2
<1>4. ASSUME NEW i \in Ids, CloseIterator(i) PROVE ScansInv'
    <2>1. iters' = [iters EXCEPT ![i] = None] /\ scan' = [scan EXCEPT ![i] = None] /\ map' = map
        BY <1>4 DEF CloseIterator
    <2>2. iters'[i] = None /\ \A j \in Ids \ {i} : iters'[j] = iters[j] /\ scan'[j] = scan[j]
        BY <2>1 DEF StoreTypes
    <2>3. ASSUME NEW j \in Open, j # i PROVE ScanInv(j)'
        <3>1. iters'[j] = iters[j] /\ scan'[j] = scan[j] /\ map' = map
            BY <1>0, <2>1, <2>2, <2>3
        <3> QED BY <3>1 DEF ScansInv, ScanInv
    <2>4. Open' \subseteq Open \ {i}
        BY <2>2 DEF Open
    <2> QED BY <2>3, <2>4 DEF ScansInv
<1>5. ASSUME NEW i \in Ids, NextSet(i) PROVE ScansInv'
    <2>1. i \in Open /\ map' = Kept(i)
        BY <1>5, NextSetShape
    <2>2. ScanInv(i)'
        BY <1>5, <2>1, NextScan DEF ScansInv
    <2>3. ASSUME NEW j \in Open, j # i PROVE ScanInv(j)'
        <3>1. iters'[j] = iters[j] /\ scan'[j] = Tracked(Kept(i))[j]
            BY <1>0, <1>5, <2>3, NextSetFields
        <3>2. PICK m : m = Kept(i)
            OBVIOUS
        <3>3. scan'[j] = Tracked(m)[j] /\ map' = m
            BY <2>1, <3>1, <3>2
        <3> QED BY <3>1, <3>3, TrackedScan DEF ScansInv
    <2>4. Open' = Open
        BY <1>5, NextSetFields DEF Open
    <2> QED BY <2>2, <2>3, <2>4 DEF ScansInv
<1>6. ASSUME NEW i \in Ids, NextClosed(i) PROVE ScansInv'
    BY <1>1, <1>6 DEF NextClosed
<1>7. CASE UNCHANGED vars
    BY <1>1, <1>7 DEF vars
<1>8. CASE Write(Spaces, Keys, ValLens, Options) \/ Bulk(Spaces, Conds)
    BY <1>2, <1>8 DEF Write, Bulk
<1>9. CASE Iterate(Spaces, Kinds, Conds)
    BY <1>3, <1>4, <1>5, <1>6, <1>9 DEF Iterate
<1> QED BY <1>7, <1>8, <1>9 DEF Next

\* The account of a scan is right at all times.
LEMMA ScansCorrect == Spec => []ScansInv
<1>1. Init => ScansInv
    BY DEF Init, ScansInv, Open
<1>2. StoreTypes /\ ScansInv /\ [Next]_vars => ScansInv'
    BY ScansStep
<1> QED BY <1>1, <1>2, StoreTyped, PTL DEF Spec

\* The scans of a whole key space, and of the group of one four-byte prefix.
WholeScanComplete ==
    \A i \in Open : iters[i].m \in {0, Lead} /\ scan[i].ended => scan[i].stable \subseteq scan[i].seen

\* kv_iterator_next_set: a scan of a whole key space or of one full prefix that has
\* reported its end has returned every key that was there all the time, whatever
\* other groups are scanned and deleted beside it, for all keys, values and buffers.
THEOREM WholeScanCorrect == Spec => []WholeScanComplete
<1>1. StoreTypes /\ ScansInv => WholeScanComplete
    BY DEF ScansInv, ScanInv, WholeScanComplete
<1> QED BY <1>1, StoreTyped, ScansCorrect, PTL

\* When all the groups that are scanned are of that kind, every scan is complete.
\* Groups named by fewer bytes are not contiguous in the order of CmpEmulPrefix.
THEOREM ScanCompleteCorrect ==
    ASSUME \A c \in Conds : c.m \in {0, Lead} PROVE Spec => []ScanComplete
<1>1. ScansInv => ScanComplete
    BY DEF ScansInv, ScanInv, ScanComplete
<1> QED BY <1>1, ScansCorrect, PTL

\* The buffer is empty before its first entry.
LEMMA SizeEmpty == ASSUME NEW it PROVE Size(it, {}) = 0
BY DEF Size, FoldSet, MapThenFoldSet

\* A call that does not report the end gets past its starting position, unless the
\* pair there is larger than the buffer; then it returns nothing.
LEMMA PastStart ==
    ASSUME StoreTypes, NEW i \in Open, More(i)
    PROVE  \/ Less(iters[i].pos, Least(Left(i)))
           \/ /\ iters[i].pos \in DOMAIN map[iters[i].ks]
              /\ EntrySize(iters[i], iters[i].pos) > BufSize
              /\ Got(i) = {} /\ Least(Left(i)) = iters[i].pos
<1>1. PICK pos \in Key, low \in Key : pos = iters[i].pos /\ low = Least(Left(i))
    BY OpenFields, RestKeys DEF More
<1>2. /\ Rest(i) \subseteq Key /\ low \in Rest(i) /\ low \notin Got(i) /\ ~Less(low, pos)
      /\ \A q \in Rest(i) : ~Less(q, pos)
      /\ Rest(i) \subseteq DOMAIN map[iters[i].ks]
    BY <1>1, RestKeys DEF More, Left, Rest, From
<1>3. InGroup(i, low)
    BY <1>1 DEF More
<1>4. ASSUME low = pos PROVE EntrySize(iters[i], low) > BufSize /\ Got(i) = {}
    <2>1. Before(Rest(i), low) = {}
        BY <1>2, <1>4 DEF Before
    <2>2. Size(iters[i], Before(Rest(i), low)) = 0
        BY <2>1, SizeEmpty
    <2>3. EntrySize(iters[i], low) \in Int /\ BufSize \in Int
        <3>1. PICK s \in Spaces, kind \in Kinds : s = iters[i].ks /\ kind = iters[i].kind
            BY OpenFields
        <3>2. low \in Keys /\ map[s][low] \in ValLens
            BY <1>2, <3>1 DEF StoreTypes, Table
        <3>3. KeyLen(low) \in Nat /\ map[s][low] \in Nat /\ BufSize \in Nat
            <4>1. low.ext \in Nat
                BY DEF Key
            <4>2. KeyLen(low) \in Nat
                BY <4>1, LeadAssumption, SMTT(20) DEF KeyLen
            <4>3. ValLens \subseteq Nat /\ BufSize \in Nat
                BY StoreAssumption
            <4> QED BY <3>2, <4>2, <4>3
        <3> QED BY <3>1, <3>3, SMTT(20) DEF EntrySize
    <2>4. \A q \in Rest(i) : ~Less(low, q) => q = low
        BY <1>2, <1>4, KeyOrdered
    <2>5. ~(Size(iters[i], Before(Rest(i), low)) + EntrySize(iters[i], low) <= BufSize)
        BY <1>2, <1>3, <2>4 DEF Got, Batch, Walk, InGroup
    <2>6. EntrySize(iters[i], low) > BufSize
        BY <2>2, <2>3, <2>5, SMTT(20)
    <2>7. \A k \in Got(i) : Less(k, low) /\ k \in Rest(i)
        BY <1>1, GotFacts, RestKeys DEF More
    <2> QED BY <1>2, <1>4, <2>6, <2>7
<1>5. CASE low = pos
    BY <1>1, <1>2, <1>4, <1>5
<1>6. CASE low # pos
    BY <1>1, <1>2, <1>6, KeyOrdered
<1> QED BY <1>5, <1>6

\* Every call of a scan reports the end, moves up the order of the keys or stands at
\* a pair larger than the buffer, and none returns a key twice, for buffers and
\* pairs of every size.
THEOREM ScanAdvancesCorrect == Spec => ScanAdvances
<1> DEFINE Advance == \A i \in Open : resp'.op = "next" /\ resp'.it = i =>
               /\ info'[i].eof = 1 \/ Less(iters[i].pos, iters'[i].pos) \/ Stuck(i)
               /\ ~scan'[i].repeat
<1>1. ASSUME StoreTypes, ScansInv', Next, NEW i \in Open, resp'.op = "next", resp'.it = i
      PROVE  /\ info'[i].eof = 1 \/ Less(iters[i].pos, iters'[i].pos) \/ Stuck(i)
             /\ ~scan'[i].repeat
    <2>1. NextSet(i)
        <3>1. ~(Write(Spaces, Keys, ValLens, Options) \/ Bulk(Spaces, Conds))
            BY <1>1, WriteShape DEF Write, Bulk
        <3>2. PICK j \in Ids : CloseIterator(j) \/ NextSet(j) \/ NextClosed(j)
            BY <1>1, <3>1, OpenShape DEF Next, Iterate
        <3>3. ~CloseIterator(j)
            BY <1>1 DEF CloseIterator, Answer
        <3>4. CASE NextSet(j)
            BY <1>1, <3>4, NextSetShape
        <3>5. CASE NextClosed(j)
            BY <1>1, <3>5 DEF NextClosed, Answer
        <3> QED BY <3>2, <3>3, <3>4, <3>5
    <2>2. i \in Ids /\ info' = [info EXCEPT ![i].eof = IF More(i) THEN 0 ELSE 1]
        BY <1>1, <2>1, NextSetShape DEF Open
    <2>3. ~More(i) => info'[i].eof = 1
        <3>1. PICK ni \in Infos : ni = info[i]
            BY <1>1, <2>2 DEF StoreTypes
        <3>2. ~More(i) => info' = [info EXCEPT ![i] = [ni EXCEPT !.eof = 1]]
            BY <2>2, <3>1
        <3>3. [ni EXCEPT !.eof = 1].eof = 1
            BY DEF Infos
        <3> QED BY <1>1, <2>2, <3>2, <3>3 DEF StoreTypes
    <2>4. More(i) => Less(iters[i].pos, iters'[i].pos) \/ Stuck(i)
        <3>1. More(i) => iters'[i].pos = Least(Left(i))
            BY <1>1, <2>1, <2>2, NextSetFields
        <3>2. resp'.keys = Got(i)
            BY <2>1 DEF NextSet, Got, Rest
        <3> QED BY <1>1, <3>1, <3>2, PastStart DEF Stuck
    <2>5. i \in Open'
        BY <1>1, <2>1, <2>2, NextSetFields DEF Open
    <2> QED BY <1>1, <2>3, <2>4, <2>5 DEF ScansInv, ScanInv
<1>2. StoreTypes /\ ScansInv' /\ [Next]_vars => [Advance]_vars
    BY <1>1
<1>3. Spec => [][Advance]_vars
    BY <1>2, StoreTyped, ScansCorrect, PTL DEF Spec
<1> QED BY <1>3 DEF ScanAdvances

(***************************************************************************)
(* The count of bytes.                                                     *)
(***************************************************************************)

\* The remainder and its quotient.
LEMMA ModDef ==
    ASSUME NEW w \in Nat, w > 0, NEW x \in Int
    PROVE  (x % w) \in 0 .. w - 1 /\ \E q \in Int : x = q * w + (x % w)
<1>1. (x % w) \in 0 .. w - 1
    BY SMTT(20)
<1>2. x = (x \div w) * w + (x % w) /\ (x \div w) \in Int
    BY SMTT(20)
<1> QED BY <1>1, <1>2

\* There is only one remainder.
LEMMA ModUnique ==
    ASSUME NEW w \in Nat, w > 0, NEW r \in 0 .. w - 1, NEW x \in Int, NEW q \in Int, r = x + q * w
    PROVE  r = x % w
<1>1. PICK d \in Int, t \in 0 .. w - 1 : t = x % w /\ x = d * w + t
    BY ModDef
<1>2. PICK n \in Int : n = q + d
    BY SMTT(20)
<1>3. r - t = n * w
    BY <1>1, <1>2, SMTT(20)
<1>4. n = 0
    BY <1>3, SMTT(20)
<1> QED BY <1>1, <1>3, <1>4, SMTT(20)

\* A counter kept modulo w may be reduced at every step or once at the end.
LEMMA ModAdd ==
    ASSUME NEW w \in Nat, w > 0, NEW x \in Int, NEW y \in Int, NEW a, a = x % w
    PROVE  (a + y) % w = (x + y) % w
<1>1. PICK q \in Int : a \in Int /\ x = q * w + a
    BY ModDef, SMTT(20)
<1>2. PICK e \in Int, r \in 0 .. w - 1 : r = (x + y) % w /\ x + y = e * w + r
    BY ModDef, SMTT(20)
<1>3. PICK z \in Int, n \in Int : z = a + y /\ n = q - e
    BY <1>1, SMTT(20)
<1>4. r = z + n * w
    BY <1>1, <1>2, <1>3, SMTT(20)
<1>5. r = z % w
    BY <1>4, ModUnique
<1> QED BY <1>2, <1>3, <1>5

\* One pair takes up as many units as it is long.
LEMMA OnePair ==
    ASSUME NEW p, NEW n \in Nat
    PROVE  IsFiniteSet({p} \X (1..n)) /\ Cardinality({p} \X (1..n)) = n
<1>1. IsFiniteSet(1..n) /\ Cardinality(1..n) = n
    BY FS_Interval, SMTT(20)
<1>2. IsFiniteSet({p}) /\ Cardinality({p}) = 1
    BY FS_Singleton
<1>3. PICK I, J : I = 1..n /\ J = {p}
    OBVIOUS
<1>4. IsFiniteSet(J) /\ IsFiniteSet(I) /\ Cardinality(J) = 1 /\ Cardinality(I) = n
    BY <1>1, <1>2, <1>3
<1>5. IsFiniteSet(J \X I) /\ Cardinality(J \X I) = Cardinality(J) * Cardinality(I)
    BY <1>4, FS_Product
<1> QED BY <1>3, <1>4, <1>5, SMTT(20)

\* Two disjoint finite sets.
LEMMA DisjointSum ==
    ASSUME NEW S, NEW T, IsFiniteSet(S), IsFiniteSet(T), S \cap T = {}
    PROVE  IsFiniteSet(S \cup T) /\ Cardinality(S \cup T) = Cardinality(S) + Cardinality(T)
<1>1. Cardinality(S) \in Nat /\ Cardinality(T) \in Nat
    BY FS_CardinalityType
<1>2. /\ IsFiniteSet(S \cup T)
      /\ Cardinality(S \cup T) = Cardinality(S) + Cardinality(T) - Cardinality(S \cap T)
    BY FS_Union
<1>3. Cardinality(S \cap T) = 0
    BY FS_EmptySet
<1> QED BY <1>1, <1>2, <1>3, SMTT(20)

\* No unit belongs to two pairs.
LEMMA UnitsSplit ==
    ASSUME NEW P, NEW Q \in SUBSET P, IsFiniteSet(Units(P))
    PROVE  /\ IsFiniteSet(Units(P \ Q)) /\ IsFiniteSet(Units(Q))
           /\ Cardinality(Units(P)) = Cardinality(Units(P \ Q)) + Cardinality(Units(Q))
<1>1. Units(P) = Units(P \ Q) \cup Units(Q)
    BY DEF Units
<1>2. Units(P \ Q) \cap Units(Q) = {}
    BY SMTT(20) DEF Units
<1>3. Units(P \ Q) \in SUBSET Units(P) /\ Units(Q) \in SUBSET Units(P)
    BY <1>1
<1>4. IsFiniteSet(Units(P \ Q)) /\ IsFiniteSet(Units(Q))
    BY <1>3, FS_Subset
<1> QED BY <1>1, <1>2, <1>4, DisjointSum

\* The length of a pair.
LEMMA PairNat ==
    ASSUME NEW k \in Keys, NEW v \in ValLens
    PROVE  KeyLen(k) \in Nat /\ v \in Nat /\ KeyLen(k) + v \in Nat
<1>1. k.ext \in Nat /\ v \in Nat
    BY StoreAssumption DEF Key
<1> QED BY <1>1, LeadAssumption, SMTT(20) DEF KeyLen

\* The keys S leave the space s, and their units with them.
LEMMA UnitsRemoved ==
    ASSUME StoreTypes, NEW s \in Spaces, NEW S \in SUBSET DOMAIN map[s],
           IsFiniteSet(Units(Stored)), map' = [map EXCEPT ![s] = Without(@, S)]
    PROVE  /\ IsFiniteSet(Units(Stored)') /\ IsFiniteSet(Units({s} \X S))
           /\ Cardinality(Units(Stored)) = Cardinality(Units(Stored)') + Cardinality(Units({s} \X S))
<1>1. /\ \A t \in Spaces : DOMAIN map'[t] = IF t = s THEN DOMAIN map[s] \ S ELSE DOMAIN map[t]
      /\ \A t \in Spaces : \A k \in DOMAIN map'[t] : map'[t][k] = map[t][k]
    BY DEF StoreTypes, Without
<1>2. Stored' = Stored \ ({s} \X S)
    BY <1>1, SMTT(20) DEF Stored
<1>3. {s} \X S \in SUBSET Stored
    BY SMTT(20) DEF Stored
<1>4. ASSUME NEW p \in Stored' PROVE (PairLen(p[1], p[2]))' = PairLen(p[1], p[2])
    <2>1. PICK t \in Spaces : \E k \in DOMAIN map'[t] : p = <<t, k>>
        BY SMTT(20) DEF Stored
    <2> QED BY <1>1, <2>1, SMTT(20) DEF PairLen, KeyLen
<1>5. Units(Stored)' = Units(Stored')
    BY <1>4 DEF Units
<1> QED BY <1>2, <1>3, <1>5, UnitsSplit

\* A new pair comes into the space s, and its units with it.
LEMMA UnitsAdded ==
    ASSUME StoreTypes, NEW s \in Spaces, NEW k \in Keys \ DOMAIN map[s], NEW v \in ValLens,
           IsFiniteSet(Units(Stored)),
           map' = [map EXCEPT ![s] = [q \in DOMAIN @ \cup {k} |-> IF q = k THEN v ELSE @[q]]]
    PROVE  /\ IsFiniteSet(Units(Stored)')
           /\ Cardinality(Units(Stored)') = Cardinality(Units(Stored)) + (KeyLen(k) + v)
<1>1. /\ \A t \in Spaces : DOMAIN map'[t] = IF t = s THEN DOMAIN map[s] \cup {k} ELSE DOMAIN map[t]
      /\ \A t \in Spaces : \A q \in DOMAIN map[t] : map'[t][q] = map[t][q]
      /\ map'[s][k] = v
    BY SMTT(20) DEF StoreTypes
<1>2. PICK p : p = <<s, k>>
    OBVIOUS
<1>3. Stored' = Stored \cup {p} /\ p \notin Stored
    BY <1>1, <1>2, SMTT(20) DEF Stored
<1>4. ASSUME NEW r \in Stored PROVE (PairLen(r[1], r[2]))' = PairLen(r[1], r[2])
    <2>1. PICK t \in Spaces : \E q \in DOMAIN map[t] : r = <<t, q>>
        BY SMTT(20) DEF Stored
    <2> QED BY <1>1, <2>1, SMTT(20) DEF PairLen, KeyLen
<1>5. (PairLen(p[1], p[2]))' = KeyLen(k) + v
    BY <1>1, <1>2 DEF PairLen, KeyLen
<1>6. PICK U : U = {p} \X (1 .. KeyLen(k) + v)
    OBVIOUS
<1>7. Units(Stored)' = Units(Stored) \cup U
    BY <1>3, <1>4, <1>5, <1>6 DEF Units
<1>8. Units(Stored) \cap U = {}
    BY <1>3, <1>6, SMTT(20) DEF Units
<1>9. IsFiniteSet(U) /\ Cardinality(U) = KeyLen(k) + v
    BY <1>6, PairNat, OnePair
<1> QED BY <1>7, <1>8, <1>9, DisjointSum

\* Only the space s is in use, no scan deletes what it reads, and every byte is counted.
CountInv(s) ==
    /\ \A t \in Spaces \ {s} : DOMAIN map[t] = {}
    /\ \A i \in Open : iters[i].kind # "kvdel"
    /\ IsFiniteSet(Units(Stored))
    /\ AvailableExact

\* What one store, delete or group deletion does to the count.
LEMMA CountMoves ==
    ASSUME AvailableExact, IsFiniteSet(Units(Stored)), IsFiniteSet(Units(Stored)'), NEW y \in Int,
           avail' = (avail + y) % Word,
           Cardinality(Units(Stored)') = Cardinality(Units(Stored)) - y
    PROVE  AvailableExact'
<1>1. PICK u \in Nat, w \in Nat : u = Cardinality(Units(Stored)) /\ w = Cardinality(Units(Stored)')
    BY FS_CardinalityType
<1>2. PICK x \in Int : x = Capacity - u
    BY <1>1, StoreAssumption, SMTT(20)
<1>3. avail = x % Word
    BY <1>1, <1>2 DEF AvailableExact
<1>4. Word \in Nat /\ Word > 0
    BY StoreAssumption, SMTT(20)
<1>5. (avail + y) % Word = (x + y) % Word
    BY <1>3, <1>4, ModAdd
<1>6. x + y = Capacity - w
    BY <1>1, <1>2, StoreAssumption, SMTT(20)
<1>7. avail' = (Capacity - w) % Word
    BY <1>5, <1>6
<1> QED BY <1>1, <1>7 DEF AvailableExact

\* An operation on s that overwrites nothing, or one of an iterator that deletes nothing.
CountNext(s) ==
    \/ Counted(s, Keys, ValLens, Conds)
    \/ Iterate({s}, Kinds \ {"kvdel"}, Conds)

CountSpec(s) == Init /\ [][CountNext(s)]_vars

\* Every operation on the pairs keeps the count.
LEMMA CountWrites ==
    ASSUME StoreTypes, NEW s \in Spaces, CountInv(s), Counted(s, Keys, ValLens, Conds)
    PROVE  IsFiniteSet(Units(Stored)') /\ AvailableExact'
<1> USE DEF CountInv
<1>1. ASSUME NEW k \in Keys, NEW v \in ValLens, NEW opt \in Options \cap {"idempotent"}, Store(s, k, v, opt)
      PROVE  IsFiniteSet(Units(Stored)') /\ AvailableExact'
    <2>1. CASE UNCHANGED <<map, avail>>
        BY <2>1, SMTT(20) DEF AvailableExact, Units, Stored, PairLen
    <2>2. CASE ~UNCHANGED <<map, avail>>
        <3>1. k \notin DOMAIN map[s]
            BY <1>1, <2>2 DEF Store
        <3>2. map' = [map EXCEPT ![s] = [q \in DOMAIN @ \cup {k} |-> IF q = k THEN v ELSE @[q]]]
            BY <1>1, <2>2 DEF Store, SetMap
        <3>3. avail' = (avail - (KeyLen(k) + v)) % Word
            BY <1>1, <2>2, <3>1 DEF Store, Charge
        <3>4. PICK n \in Nat : n = KeyLen(k) + v
            BY PairNat
        <3>5. /\ IsFiniteSet(Units(Stored)')
              /\ Cardinality(Units(Stored)') = Cardinality(Units(Stored)) + n
            BY <3>1, <3>2, <3>4, UnitsAdded
        <3>6. PICK y \in Int : y = 0 - n
            BY SMTT(20)
        <3>7. avail \in Int /\ Cardinality(Units(Stored)) \in Int
            <4>1. Cardinality(Units(Stored)) \in Nat
                BY FS_CardinalityType
            <4> QED BY <4>1, ModDef, StoreAssumption, SMTT(20) DEF AvailableExact
        <3>8. avail - n = avail + y /\ Cardinality(Units(Stored)) + n = Cardinality(Units(Stored)) - y
            BY <3>6, <3>7, SMTT(20)
        <3>9. avail' = (avail + y) % Word
            BY <3>3, <3>4, <3>8
        <3> QED BY <3>5, <3>8, <3>9, CountMoves
    <2> QED BY <2>1, <2>2
<1>2. ASSUME NEW S \in SUBSET DOMAIN map[s], map' = [map EXCEPT ![s] = Without(@, S)],
             avail' = (avail + Cardinality(Units({s} \X S))) % Word
      PROVE  IsFiniteSet(Units(Stored)') /\ AvailableExact'
    <2>1. /\ IsFiniteSet(Units(Stored)') /\ IsFiniteSet(Units({s} \X S))
          /\ Cardinality(Units(Stored)) = Cardinality(Units(Stored)') + Cardinality(Units({s} \X S))
        BY <1>2, UnitsRemoved
    <2>2. PICK y \in Nat, w \in Nat : y = Cardinality(Units({s} \X S)) /\ w = Cardinality(Units(Stored)')
        BY <2>1, FS_CardinalityType
    <2>3. y \in Int /\ w = (w + y) - y
        BY SMTT(20)
    <2>4. Cardinality(Units(Stored)') = Cardinality(Units(Stored)) - y
        BY <2>1, <2>2, <2>3
    <2>5. avail' = (avail + y) % Word
        BY <1>2, <2>2
    <2> QED BY <2>1, <2>3, <2>4, <2>5, CountMoves
<1>3. ASSUME NEW k \in Keys, NEW strict \in BOOLEAN, Delete(s, k, strict)
      PROVE  IsFiniteSet(Units(Stored)') /\ AvailableExact'
    <2>1. CASE k \notin DOMAIN map[s]
        BY <1>3, <2>1, SMTT(20) DEF Delete, AvailableExact, Units, Stored, PairLen
    <2>2. CASE k \in DOMAIN map[s]
        <3>1. map[s][k] \in ValLens
            BY <2>2 DEF StoreTypes, Table
        <3>2. PICK p : p = <<s, k>>
            OBVIOUS
        <3>3. PICK Q : Q = {s} \X {k} /\ Q = {p}
            <4>1. {s} \X {k} = {p}
                BY <3>2, SMTT(20)
            <4> QED BY <4>1
        <3>4. PICK n \in Nat : n = PairLen(s, k)
            BY <3>1, PairNat DEF PairLen
        <3>5. Units({p}) = {p} \X (1..n)
            <4>1. Units({p}) = {p} \X (1..PairLen(p[1], p[2]))
                BY DEF Units
            <4> QED BY <3>2, <3>4, <4>1
        <3>6. Cardinality({p} \X (1..n)) = n
            BY OnePair
        <3>7. Cardinality(Units(Q)) = PairLen(s, k)
            BY <3>3, <3>4, <3>5, <3>6
        <3>8. PICK S \in SUBSET DOMAIN map[s] : S = {k}
            BY <2>2
        <3>9. /\ map' = [map EXCEPT ![s] = Without(@, S)]
              /\ avail' = (avail + Cardinality(Units({s} \X S))) % Word
            BY <1>3, <2>2, <3>3, <3>7, <3>8 DEF Delete, SetMap
        <3> QED BY <1>2, <3>9
    <2> QED BY <2>1, <2>2
<1>4. ASSUME Purge(s) PROVE IsFiniteSet(Units(Stored)') /\ AvailableExact'
    <2>1. \A t \in Spaces : DOMAIN map'[t] = {}
        BY <1>4 DEF Purge, SetMap, StoreTypes, Empty
    <2>2. Stored' = {}
        BY <2>1, SMTT(20) DEF Stored
    <2>3. Units(Stored)' = {}
        BY <2>2 DEF Units
    <2>4. IsFiniteSet(Units(Stored)') /\ Cardinality(Units(Stored)') = 0
        BY <2>3, FS_EmptySet
    <2>5. Capacity = (Capacity - 0) % Word
        BY StoreAssumption, SMTT(20)
    <2> QED BY <1>4, <2>4, <2>5 DEF Purge, AvailableExact
<1>5. ASSUME NEW c \in Conds, DeleteGroup(s, c)
      PROVE  IsFiniteSet(Units(Stored)') /\ AvailableExact'
    <2>1. PICK S : S = GroupKeys(s, BackMask(c.m), Reversed(c.pat))
        OBVIOUS
    <2>2. S \in SUBSET DOMAIN map[s]
        BY <2>1 DEF GroupKeys, Walk, From
    <2>3. /\ map' = [map EXCEPT ![s] = Without(@, S)]
          /\ avail' = (avail + Cardinality(Units({s} \X S))) % Word
        BY <1>5, <2>1 DEF DeleteGroup, SetMap
    <2> QED BY <1>2, <2>2, <2>3
<1> QED BY <1>1, <1>3, <1>4, <1>5 DEF Counted, Write, Bulk

\* Operations on the pairs of s, and those of its iterators, keep CountInv.
LEMMA CountStep ==
    ASSUME StoreTypes, NEW s \in Spaces, CountInv(s), [CountNext(s)]_vars
    PROVE  CountInv(s)'
<1> USE DEF CountInv
<1>1. CASE Counted(s, Keys, ValLens, Conds)
    <2>1. /\ UNCHANGED <<iters, info>>
          /\ UNCHANGED <<map, scan>> \/ \E f : Table(f) /\ SetMap([map EXCEPT ![s] = f])
        <3>1. \/ \E k \in Keys, v \in ValLens, opt \in Options : Store(s, k, v, opt)
              \/ \E k \in Keys, strict \in BOOLEAN : Delete(s, k, strict)
              \/ Purge(s) \/ \E c \in Conds : DeleteGroup(s, c)
            BY <1>1 DEF Counted, Write, Bulk
        <3> QED BY <3>1, WriteShape
    <2>2. \A t \in Spaces \ {s} : map'[t] = map[t]
        BY <2>1 DEF SetMap, StoreTypes
    <2>3. \A i \in Open' : iters'[i].kind # "kvdel"
        BY <2>1 DEF Open
    <2> QED BY <1>1, <2>2, <2>3, CountWrites
<1>2. ASSUME UNCHANGED <<map, avail>>, \A i \in Open' : iters'[i].kind # "kvdel"
      PROVE  CountInv(s)'
    BY <1>2, SMTT(20) DEF AvailableExact, Units, Stored, PairLen
<1>3. ASSUME NEW kind \in Kinds \ {"kvdel"}, NEW c \in Conds, OpenIterator(s, kind, c)
      PROVE  CountInv(s)'
    <2>1. UNCHANGED <<map, avail>>
        BY <1>3 DEF OpenIterator
    <2>2. CASE iters' = iters
        BY <1>2, <2>1, <2>2 DEF Open
    <2>3. CASE iters' # iters
        <3>1. PICK j \in Ids : \E it : iters' = [iters EXCEPT ![j] = it] /\ it.kind # "kvdel"
            <4>1. PICK new : new = [ks |-> s, kind |-> kind, m |-> c.m, pat |-> c.pat,
                                    pos |-> MinKey(FrontMask(c.m), c.pat)]
                OBVIOUS
            <4>2. FreeId \in Ids /\ iters' = [iters EXCEPT ![FreeId] = new]
                BY <1>3, <2>3, <4>1, FreeIsFree DEF OpenIterator
            <4>3. new.kind # "kvdel"
                BY <4>1
            <4> QED BY <4>2, <4>3
        <3>2. \A i \in Open' : iters'[i].kind # "kvdel"
            BY <3>1 DEF Open, StoreTypes
        <3> QED BY <1>2, <2>1, <3>2
    <2> QED BY <2>2, <2>3
<1>4. ASSUME NEW i \in Ids, CloseIterator(i) PROVE CountInv(s)'
    <2>1. UNCHANGED <<map, avail>> /\ iters' = [iters EXCEPT ![i] = None]
        BY <1>4 DEF CloseIterator
    <2>2. \A j \in Open' : iters'[j].kind # "kvdel"
        BY <2>1 DEF Open, StoreTypes
    <2> QED BY <1>2, <2>1, <2>2
<1>5. ASSUME NEW i \in Ids, NextSet(i) PROVE CountInv(s)'
    <2>1. i \in Open /\ map' = Kept(i) /\ avail' = avail
        BY <1>5, NextSetShape DEF NextSet
    <2>2. map' = map
        BY <2>1 DEF Kept
    <2>3. iters' = iters \/ \E k : iters' = [iters EXCEPT ![i].pos = k]
        BY <1>5, NextSetShape
    <2>4. \A j \in Open' : j \in Open /\ iters'[j].kind = iters[j].kind
        <3>1. CASE iters' = iters
            BY <3>1 DEF Open
        <3>2. ASSUME NEW k, iters' = [iters EXCEPT ![i].pos = k]
              PROVE  \A j \in Open' : j \in Open /\ iters'[j].kind = iters[j].kind
            <4>1. PICK it \in Iterators : it = iters[i]
                BY <2>1, OpenFields
            <4>2. [it EXCEPT !.pos = k].kind = it.kind
                BY DEF Iterators
            <4>3. iters' = [iters EXCEPT ![i] = [it EXCEPT !.pos = k]]
                BY <3>2, <4>1
            <4> QED BY <2>1, <4>1, <4>2, <4>3 DEF Open, StoreTypes
        <3> QED BY <2>3, <3>1, <3>2
    <2> QED BY <1>2, <2>1, <2>2, <2>4
<1>6. ASSUME NEW i \in Ids, NextClosed(i) PROVE CountInv(s)'
    BY <1>2, <1>6 DEF NextClosed, Open
<1>7. CASE UNCHANGED vars
    BY <1>2, <1>7 DEF vars, Open
<1>8. CASE Iterate({s}, Kinds \ {"kvdel"}, Conds)
    BY <1>3, <1>4, <1>5, <1>6, <1>8 DEF Iterate
<1> QED BY <1>1, <1>7, <1>8 DEF CountNext

\* Stores of new keys, deletions, group deletions and purges of one key space, with
\* scans between them: m_available is the capacity without every byte of every pair,
\* through any number of wraps of the counter.
THEOREM AvailableCorrect ==
    ASSUME NEW s \in Spaces PROVE CountSpec(s) => []AvailableExact
<1>1. Init => StoreTypes /\ CountInv(s)
  <2> SUFFICES ASSUME Init PROVE StoreTypes /\ CountInv(s)
      OBVIOUS
  <2>1. StoreTypes
      BY StoreInit
  <2>2. \A t \in Spaces : DOMAIN map[t] = {}
      BY DEF Init, Empty
  <2>3. \A i \in Open : iters[i].kind # "kvdel"
      BY DEF Init, Open
  <2>4. Stored = {}
      BY <2>2, SMTT(20) DEF Stored
  <2>5. Units(Stored) = {}
      BY <2>4 DEF Units
  <2>6. IsFiniteSet(Units(Stored)) /\ Cardinality(Units(Stored)) = 0
      BY <2>5, FS_EmptySet
  <2>7. Capacity = (Capacity - 0) % Word
      BY StoreAssumption, SMTT(20)
  <2>8. AvailableExact
      BY <2>6, <2>7 DEF AvailableExact, Init
  <2> QED BY <2>1, <2>2, <2>3, <2>6, <2>8 DEF CountInv
<1>2. CountNext(s) => Next
  <2>1. Counted(s, Keys, ValLens, Conds) => Write(Spaces, Keys, ValLens, Options) \/ Bulk(Spaces, Conds)
      BY DEF Counted, Write, Bulk
  <2>2. Iterate({s}, Kinds \ {"kvdel"}, Conds) => Iterate(Spaces, Kinds, Conds)
      BY DEF Iterate
  <2> QED BY <2>1, <2>2 DEF CountNext, Next
<1>3. StoreTypes /\ CountInv(s) /\ [CountNext(s)]_vars => StoreTypes' /\ CountInv(s)'
    BY <1>2, StoreStep, CountStep
<1>4. CountInv(s) => AvailableExact
    BY DEF CountInv
<1> QED BY <1>1, <1>3, <1>4, PTL DEF CountSpec

============================================================================

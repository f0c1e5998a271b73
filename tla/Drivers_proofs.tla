--------------------------- MODULE Drivers_proofs --------------------------
(***************************************************************************)
(* Proofs about the driver adapters of the API.                            *)
(*                                                                         *)
(* EmulDriver, for any number of requests, contexts, threads and places in *)
(* the queues: no context is lost or shared while the device is open, no   *)
(* synchronous call returns another's result, and with one context for     *)
(* each place in the queues, one for each thread and two for the callback  *)
(* no call waits for a context.                                            *)
(*                                                                         *)
(* KvpCalls and SsdCalls, the tuple calls over the three drivers, for any  *)
(* keys, lengths, offsets and number of calls in flight: every call is a   *)
(* step of the map that KvMap promises, and what kvs_retrieve_kvp and      *)
(* kvs_exist_kv_pairs deliver is exact.                                    *)
(***************************************************************************)
EXTENDS EmulDriver, SsdCalls, FiniteSetTheorems, TLAPS

\* Most steps are first-order, so Zenon is tried first; a step that needs more cites SMT.
USE ZenonT(10), SMTT(20)

(***************************************************************************)
(* The adapter of the emulator.                                            *)
(***************************************************************************)
\* The command of request r is in the queue pair.
Pending(r) == \E i \in Len(posted) + 1 .. Len(accepted) : accepted[i] = r

Types ==
    /\ accepted \in Seq(Cmds) /\ posted \in Seq(Cmds) /\ Len(posted) <= Len(accepted) /\ open \in BOOLEAN
    /\ \A i, j \in DOMAIN accepted : accepted[i] = accepted[j] => i = j
    /\ (\E C \in Pools : result \in [C -> Cmds \cup {Null}]) /\ pool \in Seq(Ctxs)
    /\ pc \in [Cmds -> {"idle", "alloc", "prep", "wait", "done"}]
    /\ ctxOf \in [Cmds -> Ctxs \cup {Null}]
    /\ reaper \in [pc : {"loop", "callback", "gone"}, req : Cmds \cup {Null}]
    /\ reaper.pc = "callback" => reaper.req \in Cmds
    /\ returned \in [Cmds -> {"none", "own", "other", "queued", "refused"}]

\* Every context has one place: the pool or one request.
Placed ==
    /\ \A i, j \in DOMAIN pool : pool[i] = pool[j] => i = j
    /\ \A r \in Cmds, i \in DOMAIN pool : pool[i] # ctxOf[r]
    /\ \A r, q \in Cmds : ctxOf[r] # Null /\ ctxOf[r] = ctxOf[q] => r = q
    /\ open => \A c \in Ctxs : (\E i \in DOMAIN pool : pool[i] = c) \/ \E r \in Cmds : ctxOf[r] = c

\* What request r has where it stands.
Stands(r) ==
    /\ pc[r] \in {"idle", "alloc"} => ctxOf[r] = Null
    /\ pc[r] = "prep" => ctxOf[r] # Null /\ ctxOf[r] \notin done
    /\ pc[r] = "wait" => ctxOf[r] # Null /\ r \in Sync /\ (ctxOf[r] \in done => result[ctxOf[r]] = r)
    /\ Pending(r) => /\ ctxOf[r] # Null
                     /\ IF r \in Sync THEN pc[r] = "wait" /\ ctxOf[r] \notin done ELSE pc[r] = "done"
    /\ reaper.pc = "callback" /\ reaper.req = r => ctxOf[r] # Null /\ pc[r] = "done" /\ ~Pending(r)
    /\ returned[r] # "other"

\* The inductive invariant.
Strong == Types /\ Placed /\ \A r \in Cmds : Stands(r)

\* No context is the null pointer.
LEMMA CtxsReal ==
    ASSUME Types
    PROVE  /\ Null \notin Ctxs /\ IsFiniteSet(Ctxs) /\ Ctxs \in Pools
           /\ result \in [Ctxs -> Cmds \cup {Null}]
<1>1. PICK C \in Pools : result \in [C -> Cmds \cup {Null}]
    BY DEF Types
<1>2. Ctxs = C
    BY <1>1 DEF Ctxs
<1> QED BY <1>1, <1>2, DriverAssumption

\* KvEmulator::init pushes every context once.
LEMMA PoolFilled ==
    ASSUME NEW C, IsFiniteSet(C)
    PROVE  /\ Filled(C) \in Seq(C)
           /\ \A i, j \in DOMAIN Filled(C) : Filled(C)[i] = Filled(C)[j] => i = j
           /\ \A c \in C : \E i \in DOMAIN Filled(C) : Filled(C)[i] = c
<1> DEFINE n == Cardinality(C)
<1>1. n \in Nat /\ \E f \in [1 .. n -> C] : IsInjective(f)
    BY FS_CardinalityType DEF ExistsBijection, Bijection, Injection
<1>2. PICK f \in [1 .. n -> C] : f = Filled(C) /\ IsInjective(f)
    BY <1>1 DEF Filled
<1> HIDE DEF n
<1>3. IsFiniteSet(1 .. n) /\ Cardinality(1 .. n) = n
    BY <1>1, FS_Interval, SMTT(20)
<1>4. f \in Injection(1 .. n, C)
    BY <1>2 DEF Injection
<1>5. f \in Surjection(1 .. n, C)
    BY <1>3, <1>4, FS_Injection DEF n
<1>6. DOMAIN f = 1 .. n /\ f \in Seq(C)
    BY <1>1, SMTT(20)
<1>7. \A c \in C : \E i \in DOMAIN f : f[i] = c
    BY <1>5, <1>6 DEF Surjection
<1> QED BY <1>2, <1>6, <1>7 DEF IsInjective

\* The invariant holds when the pool is made.
LEMMA InitStrong == DriverInit => Strong
<1> SUFFICES ASSUME DriverInit PROVE Strong
    OBVIOUS
<1>1. PICK C \in Pools : result = [c \in C |-> Null]
    BY DEF DriverInit
<1>2. Ctxs = C /\ IsFiniteSet(C) /\ Null \notin C /\ result \in [C -> Cmds \cup {Null}]
    BY <1>1, DriverAssumption DEF Ctxs
<1>3. pool = Filled(C) /\ accepted = <<>> /\ posted = <<>> /\ open = TRUE
    BY <1>2 DEF DriverInit, FifoInit
<1>4. /\ pool \in Seq(C) /\ \A i, j \in DOMAIN pool : pool[i] = pool[j] => i = j
      /\ \A c \in C : \E i \in DOMAIN pool : pool[i] = c
    BY <1>2, <1>3, PoolFilled
<1>5. /\ pc = [r \in Cmds |-> "idle"] /\ ctxOf = [r \in Cmds |-> Null] /\ done = {}
      /\ reaper = [pc |-> "loop", req |-> Null] /\ returned = [r \in Cmds |-> "none"]
    BY DEF DriverInit
<1>6. \A i \in DOMAIN pool : pool[i] # Null
    BY <1>2, <1>4, SMTT(20)
<1>7. Placed
    BY <1>2, <1>4, <1>5, <1>6 DEF Placed
<1>8. \A r : ~Pending(r)
    BY <1>3, SMTT(20) DEF Pending
<1>9. \A r \in Cmds : Stands(r)
    BY <1>5, <1>8 DEF Stands
<1>10. Types
    <2>1. accepted \in Seq(Cmds) /\ posted \in Seq(Cmds) /\ Len(posted) <= Len(accepted) /\ DOMAIN accepted = {}
        BY <1>3, SMTT(20)
    <2>2. reaper \in [pc : {"loop", "callback", "gone"}, req : Cmds \cup {Null}] /\ reaper.pc # "callback"
        BY <1>5
    <2>3. /\ pc \in [Cmds -> {"idle", "alloc", "prep", "wait", "done"}]
          /\ ctxOf \in [Cmds -> Ctxs \cup {Null}]
          /\ returned \in [Cmds -> {"none", "own", "other", "queued", "refused"}]
        BY <1>5
    <2> QED BY <1>2, <1>3, <1>4, <2>1, <2>2, <2>3 DEF Types
<1> QED BY <1>7, <1>9, <1>10 DEF Strong

\* malloc_context takes the oldest context of the pool.
LEMMA TakeStrong ==
    ASSUME Strong, NEW r \in Cmds, pc[r] \in {"idle", "alloc"}, pool # <<>>, TakeContext(r),
           UNCHANGED <<result, reaper, returned, accepted, posted, open>>
    PROVE  Strong'
<1>1. /\ pool \in Seq(Ctxs) /\ pc \in [Cmds -> {"idle", "alloc", "prep", "wait", "done"}]
      /\ ctxOf \in [Cmds -> Ctxs \cup {Null}] /\ Ctxs' = Ctxs /\ Null \notin Ctxs /\ ctxOf[r] = Null
    BY CtxsReal DEF Strong, Types, Ctxs, Stands
<1>2. /\ Len(pool) \in Nat /\ Len(pool) > 0 /\ DOMAIN pool = 1 .. Len(pool)
      /\ pool' \in Seq(Ctxs) /\ DOMAIN pool' = 1 .. Len(pool) - 1
      /\ \A i \in DOMAIN pool' : i + 1 \in DOMAIN pool /\ pool'[i] = pool[i + 1]
    BY <1>1, SMTT(20) DEF TakeContext
<1> PICK c \in Ctxs : c = Head(pool) /\ c = pool[1] /\ 1 \in DOMAIN pool
    BY <1>1, <1>2, SMTT(20)
<1>3. /\ ctxOf' = [ctxOf EXCEPT ![r] = c] /\ done' = done \ {c} /\ pc' = [pc EXCEPT ![r] = "prep"]
    BY DEF TakeContext
<1>4. /\ ctxOf'[r] = c /\ pc'[r] = "prep" /\ \A q \in Cmds : q # r => ctxOf'[q] = ctxOf[q] /\ pc'[q] = pc[q]
      /\ \A q \in Cmds : ctxOf[q] # c
    BY <1>1, <1>3 DEF Strong, Placed
<1>5. Types'
    BY <1>1, <1>2, <1>3 DEF Strong, Types
<1>6. Placed'
    <2>1. \A i, j \in DOMAIN pool' : pool'[i] = pool'[j] => i = j
        <3> SUFFICES ASSUME NEW i \in DOMAIN pool', NEW j \in DOMAIN pool', pool'[i] = pool'[j] PROVE i = j
            OBVIOUS
        <3>1. i + 1 = j + 1
            BY <1>2, SMTT(20) DEF Strong, Placed
        <3> QED BY <1>2, <3>1, SMTT(20)
    <2>2. \A q \in Cmds, i \in DOMAIN pool' : pool'[i] # ctxOf'[q]
        <3> SUFFICES ASSUME NEW q \in Cmds, NEW i \in DOMAIN pool' PROVE pool'[i] # ctxOf'[q]
            OBVIOUS
        <3>1. i + 1 \in DOMAIN pool /\ i + 1 # 1 /\ pool'[i] = pool[i + 1]
            BY <1>2, SMTT(20)
        <3>2. pool'[i] # c
            BY <3>1 DEF Strong, Placed
        <3> QED BY <1>4, <3>1, <3>2, SMTT(20) DEF Strong, Placed
    <2>3. \A q, p \in Cmds : ctxOf'[q] # Null /\ ctxOf'[q] = ctxOf'[p] => q = p
        BY <1>4, SMTT(20) DEF Strong, Placed
    <2>4. ASSUME open, NEW d \in Ctxs PROVE (\E i \in DOMAIN pool' : pool'[i] = d) \/ \E q \in Cmds : ctxOf'[q] = d
        <3>1. CASE d = c
            BY <1>4, <3>1
        <3>2. CASE \E q \in Cmds : ctxOf[q] = d
            BY <1>1, <1>4, <3>2
        <3>3. ASSUME NEW i \in DOMAIN pool, pool[i] = d, d # c PROVE \E j \in DOMAIN pool' : pool'[j] = d
            <4>1. i - 1 \in DOMAIN pool' /\ (i - 1) + 1 = i
                BY <1>2, <3>3, SMTT(20)
            <4> QED BY <1>2, <3>3, <4>1
        <3> QED BY <2>4, <3>1, <3>2, <3>3 DEF Strong, Placed
    <2> QED BY <1>1, <2>1, <2>2, <2>3, <2>4 DEF Placed
<1>7. ASSUME NEW q \in Cmds PROVE Stands(q)'
    <2>1. Pending(q)' <=> Pending(q)
        BY DEF Pending
    <2>2. CASE q = r
        BY <1>1, <1>3, <1>4, <2>1, <2>2 DEF Strong, Stands
    <2>3. CASE q # r
        BY <1>3, <1>4, <2>1, <2>3, SMTT(20) DEF Strong, Stands
    <2> QED BY <2>2, <2>3
<1> QED BY <1>5, <1>6, <1>7 DEF Strong

\* free_context gives back the context of a request that has no command left.
LEMMA FreeStrong ==
    ASSUME Strong, NEW r \in Cmds, ctxOf[r] # Null, ~Pending(r), FreeContext(r),
           UNCHANGED <<done, accepted, posted, open>>,
           pc' \in [Cmds -> {"idle", "alloc", "prep", "wait", "done"}], pc'[r] = "done",
           returned' \in [Cmds -> {"none", "own", "other", "queued", "refused"}], returned'[r] # "other",
           \A q \in Cmds : q # r => pc'[q] = pc[q] /\ returned'[q] = returned[q],
           \/ reaper' = [pc |-> "loop", req |-> Null]
           \/ UNCHANGED reaper /\ ~(reaper.pc = "callback" /\ reaper.req = r)
    PROVE  Strong'
<1>1. /\ pool \in Seq(Ctxs) /\ ctxOf \in [Cmds -> Ctxs \cup {Null}] /\ Null \notin Ctxs
      /\ result \in [Ctxs -> Cmds \cup {Null}] /\ Ctxs \in Pools
    BY CtxsReal DEF Strong, Types
<1> PICK c \in Ctxs : c = ctxOf[r]
    BY <1>1
<1>2. /\ result' = [result EXCEPT ![c] = Null] /\ pool' = Append(pool, c) /\ ctxOf' = [ctxOf EXCEPT ![r] = Null]
    BY DEF FreeContext
<1>3. Ctxs' = Ctxs /\ result' \in [Ctxs -> Cmds \cup {Null}] /\ \A d \in Ctxs : d # c => result'[d] = result[d]
    BY <1>1, <1>2 DEF Ctxs
<1> DEFINE n == Len(pool)
<1>4. /\ n \in Nat /\ DOMAIN pool = 1 .. n /\ pool' \in Seq(Ctxs) /\ DOMAIN pool' = 1 .. n + 1
      /\ pool'[n + 1] = c /\ \A i \in DOMAIN pool : pool'[i] = pool[i]
    BY <1>1, <1>2, SMTT(20)
<1> HIDE DEF n
<1>5. \A i \in DOMAIN pool' : i = n + 1 \/ i \in DOMAIN pool
    BY <1>4, SMTT(20)
<1>6. ctxOf'[r] = Null /\ \A q \in Cmds : q # r => ctxOf'[q] = ctxOf[q] /\ ctxOf[q] # c
    BY <1>1, <1>2 DEF Strong, Placed
<1>7. Types'
    <2>1. reaper' \in [pc : {"loop", "callback", "gone"}, req : Cmds \cup {Null}] /\ (reaper'.pc = "callback" => reaper'.req \in Cmds)
        BY SMTT(20) DEF Strong, Types
    <2>2. ctxOf' \in [Cmds -> Ctxs \cup {Null}]
        BY <1>1, <1>2
    <2> QED BY <1>1, <1>3, <1>4, <2>1, <2>2 DEF Strong, Types
<1>8. Placed'
    <2>1. \A i \in DOMAIN pool : pool[i] # c
        BY DEF Strong, Placed
    <2>2. \A i, j \in DOMAIN pool' : pool'[i] = pool'[j] => i = j
        BY <1>4, <1>5, <2>1, SMTT(20) DEF Strong, Placed
    <2>3. \A q \in Cmds, i \in DOMAIN pool' : pool'[i] # ctxOf'[q]
        <3> SUFFICES ASSUME NEW q \in Cmds, NEW i \in DOMAIN pool' PROVE pool'[i] # ctxOf'[q]
            OBVIOUS
        <3>1. CASE q = r
            BY <1>1, <1>4, <1>6, <3>1, SMTT(20)
        <3>2. CASE q # r
            BY <1>4, <1>5, <1>6, <3>2, SMTT(20) DEF Strong, Placed
        <3> QED BY <3>1, <3>2
    <2>4. \A q, p \in Cmds : ctxOf'[q] # Null /\ ctxOf'[q] = ctxOf'[p] => q = p
        BY <1>6, SMTT(20) DEF Strong, Placed
    <2>5. ASSUME open, NEW d \in Ctxs PROVE (\E i \in DOMAIN pool' : pool'[i] = d) \/ \E q \in Cmds : ctxOf'[q] = d
        <3>1. CASE d = c
            <4>1. n + 1 \in DOMAIN pool'
                BY <1>4, SMTT(20)
            <4> QED BY <1>4, <3>1, <4>1
        <3>2. CASE \E q \in Cmds : ctxOf[q] = d /\ d # c
            BY <1>6, <3>2
        <3>3. ASSUME NEW i \in DOMAIN pool, pool[i] = d PROVE \E j \in DOMAIN pool' : pool'[j] = d
            <4>1. i \in DOMAIN pool'
                BY <1>4, SMTT(20)
            <4> QED BY <1>4, <3>3, <4>1
        <3> QED BY <2>5, <3>1, <3>2, <3>3 DEF Strong, Placed
    <2> QED BY <1>3, <2>2, <2>3, <2>4, <2>5 DEF Placed
<1>9. ASSUME NEW q \in Cmds PROVE Stands(q)'
    <2>1. Pending(q)' <=> Pending(q)
        BY DEF Pending
    <2>2. CASE q = r
        <3>1. ~(reaper'.pc = "callback" /\ reaper'.req = q)
            BY <2>2, SMTT(20)
        <3> QED BY <2>1, <2>2, <3>1 DEF Stands
    <2>3. CASE q # r
        <3>1. pc'[q] = pc[q] /\ returned'[q] = returned[q] /\ ctxOf'[q] = ctxOf[q] /\ ctxOf[q] # c
            BY <1>6, <2>3
        <3>2. ctxOf[q] # Null => result'[ctxOf[q]] = result[ctxOf[q]]
            BY <1>1, <1>3, <3>1
        <3>3. reaper'.pc = "callback" => reaper' = reaper
            BY SMTT(20)
        <3> QED BY <2>1, <3>1, <3>2, <3>3 DEF Strong, Stands
    <2> QED BY <2>2, <2>3
<1> QED BY <1>7, <1>8, <1>9 DEF Strong

\* The ADI call queues the command of a request that has its context.
LEMMA SubmitStrong ==
    ASSUME Strong, NEW r \in Cmds, SubmitCommand(r)
    PROVE  Strong'
<1>1. /\ accepted \in Seq(Cmds) /\ posted \in Seq(Cmds) /\ Len(posted) <= Len(accepted)
      /\ pc \in [Cmds -> {"idle", "alloc", "prep", "wait", "done"}]
      /\ returned \in [Cmds -> {"none", "own", "other", "queued", "refused"}]
    BY DEF Strong, Types
<1>2. /\ pc[r] = "prep" /\ accepted' = Append(accepted, r) /\ UNCHANGED <<posted, open, pool, ctxOf, result, done, reaper>>
      /\ \A i \in DOMAIN accepted : accepted[i] # r
      /\ Ctxs' = Ctxs
    BY DEF SubmitCommand, FifoAccept, Ctxs
<1>3. /\ pc'[r] = IF r \in Sync THEN "wait" ELSE "done"
      /\ returned'[r] # "other"
      /\ \A q \in Cmds : q # r => pc'[q] = pc[q] /\ returned'[q] = returned[q]
      /\ pc' \in [Cmds -> {"idle", "alloc", "prep", "wait", "done"}]
      /\ returned' \in [Cmds -> {"none", "own", "other", "queued", "refused"}]
    <2>1. returned[r] # "other"
        BY DEF Strong, Stands
    <2> QED BY <1>1, <2>1 DEF SubmitCommand
<1> DEFINE n == Len(accepted)
<1>4. /\ n \in Nat /\ DOMAIN accepted = 1 .. n /\ accepted' \in Seq(Cmds) /\ Len(accepted') = n + 1 /\ DOMAIN accepted' = 1 .. n + 1
      /\ accepted'[n + 1] = r /\ (\A i \in 1 .. n : accepted'[i] = accepted[i]) /\ Len(posted) \in Nat /\ Len(posted) <= n
    BY <1>1, <1>2, SMTT(20)
<1>5. \A q \in Cmds : Pending(q)' <=> Pending(q) \/ q = r
    <2> SUFFICES ASSUME NEW q \in Cmds PROVE Pending(q)' <=> Pending(q) \/ q = r
        OBVIOUS
    <2>1. Pending(q)' <=> \E i \in Len(posted) + 1 .. n + 1 : accepted'[i] = q
        BY <1>2, <1>4 DEF Pending
    <2>2. (\E i \in Len(posted) + 1 .. n + 1 : accepted'[i] = q) <=> (\E i \in Len(posted) + 1 .. n : accepted[i] = q) \/ q = r
        <3> HIDE DEF n
        <3> QED BY <1>4, SMTT(20)
    <2> QED BY <2>1, <2>2 DEF Pending
<1> HIDE DEF n
<1>6. Types'
    <2>1. \A i, j \in DOMAIN accepted' : accepted'[i] = accepted'[j] => i = j
        <3>1. \A i \in DOMAIN accepted' : i = n + 1 \/ i \in DOMAIN accepted
            BY <1>4, SMTT(20)
        <3> QED BY <1>2, <1>4, <3>1, SMTT(20) DEF Strong, Types
    <2> QED BY <1>2, <1>3, <1>4, <2>1, SMTT(20) DEF Strong, Types
<1>7. Placed'
    BY <1>2 DEF Strong, Placed
<1>8. ASSUME NEW q \in Cmds PROVE Stands(q)'
    <2>1. CASE q = r
        BY <1>2, <1>3, <1>5, <2>1 DEF Strong, Stands
    <2>2. CASE q # r
        BY <1>2, <1>3, <1>5, <2>2 DEF Strong, Stands
    <2> QED BY <2>1, <2>2
<1> QED BY <1>6, <1>7, <1>8 DEF Strong

\* on_io_complete writes into the context of the oldest command, which only that
\* request has.
LEMMA CompleteStrong ==
    ASSUME Strong, CompleteSync \/ CompleteAsync
    PROVE  Strong'
<1>1. /\ accepted \in Seq(Cmds) /\ posted \in Seq(Cmds) /\ Len(posted) < Len(accepted)
      /\ posted' = Append(posted, Oldest) /\ UNCHANGED <<accepted, open, pool, pc, ctxOf, returned>>
      /\ \A i, j \in DOMAIN accepted : accepted[i] = accepted[j] => i = j
      /\ reaper.pc = "loop"
    BY DEF CompleteSync, CompleteAsync, FifoPost, Oldest, Strong, Types
<1> DEFINE n == Len(posted)
<1>2. /\ n \in Nat /\ Len(accepted) \in Nat /\ n + 1 \in DOMAIN accepted /\ Oldest = accepted[n + 1] /\ Oldest \in Cmds
      /\ posted' \in Seq(Cmds) /\ Len(posted') = n + 1 /\ n + 1 <= Len(accepted) /\ DOMAIN accepted = 1 .. Len(accepted)
    BY <1>1, SMTT(20) DEF Oldest
<1> PICK o \in Cmds : o = Oldest
    BY <1>2
<1>3. Pending(o) /\ \A q \in Cmds : Pending(q)' <=> Pending(q) /\ q # o
    <2>1. Pending(o)
        BY <1>2, SMTT(20) DEF Pending
    <2>2. ASSUME NEW q \in Cmds PROVE Pending(q)' <=> Pending(q) /\ q # o
        <3>1. Pending(q)' <=> \E i \in n + 2 .. Len(accepted) : accepted[i] = q
            BY <1>1, <1>2, SMTT(20) DEF Pending
        <3>2. Pending(q) <=> \E i \in n + 1 .. Len(accepted) : accepted[i] = q
            BY DEF Pending
        <3> HIDE DEF n
        <3>3. \A i \in n + 2 .. Len(accepted) : i \in DOMAIN accepted /\ accepted[i] # o /\ i \in n + 1 .. Len(accepted)
            BY <1>1, <1>2, SMTT(20)
        <3>4. \A i \in n + 1 .. Len(accepted) : accepted[i] # o => i \in n + 2 .. Len(accepted)
            BY <1>2, SMTT(20)
        <3> QED BY <3>1, <3>2, <3>3, <3>4
    <2> QED BY <2>1, <2>2
<1> HIDE DEF n
<1>4. /\ ctxOf \in [Cmds -> Ctxs \cup {Null}] /\ Null \notin Ctxs /\ result \in [Ctxs -> Cmds \cup {Null}] /\ Ctxs \in Pools
      /\ ctxOf[o] # Null /\ (IF o \in Sync THEN pc[o] = "wait" /\ ctxOf[o] \notin done ELSE pc[o] = "done")
    BY <1>3, CtxsReal DEF Strong, Types, Stands
<1> PICK c \in Ctxs : c = ctxOf[o]
    BY <1>4
<1>5. result' = [result EXCEPT ![c] = o] /\ result' \in [Ctxs -> Cmds \cup {Null}] /\ Ctxs' = Ctxs
    BY <1>4 DEF CompleteSync, CompleteAsync, Ctxs
<1>6. \A q \in Cmds : q # o => ctxOf[q] # c
    BY <1>4 DEF Strong, Placed
<1>7. \/ o \in Sync /\ done' = done \cup {c} /\ UNCHANGED reaper
      \/ o \notin Sync /\ done' = done /\ reaper' = [pc |-> "callback", req |-> o]
    BY DEF CompleteSync, CompleteAsync
<1>8. Types'
    <2>1. reaper' \in [pc : {"loop", "callback", "gone"}, req : Cmds \cup {Null}] /\ (reaper'.pc = "callback" => reaper'.req \in Cmds)
        BY <1>7, SMTT(20) DEF Strong, Types
    <2> QED BY <1>1, <1>2, <1>4, <1>5, <2>1 DEF Strong, Types
<1>9. Placed'
    BY <1>1, <1>5 DEF Strong, Placed
<1>10. ASSUME NEW q \in Cmds PROVE Stands(q)'
    <2>1. CASE q = o
        <3>1. result'[c] = o
            BY <1>4, <1>5
        <3>2. returned[o] # "other"
            BY DEF Strong, Stands
        <3> QED BY <1>1, <1>3, <1>4, <1>7, <2>1, <3>1, <3>2 DEF Stands
    <2>2. CASE q # o
        <3>1. ctxOf[q] # c /\ (ctxOf[q] # Null => result'[ctxOf[q]] = result[ctxOf[q]])
            BY <1>4, <1>5, <1>6, <2>2
        <3>2. ~(reaper'.pc = "callback" /\ reaper'.req = q)
            BY <1>1, <1>7, <2>2, SMTT(20)
        <3>3. ctxOf[q] \in done' <=> ctxOf[q] \in done
            BY <1>7, <3>1
        <3> QED BY <1>1, <1>3, <2>2, <3>1, <3>2, <3>3 DEF Strong, Stands
    <2> QED BY <2>1, <2>2
<1> QED BY <1>8, <1>9, <1>10 DEF Strong

\* Every step keeps the invariant.
LEMMA NextStrong == Strong /\ [DriverNext]_driverVars => Strong'
<1> SUFFICES ASSUME Strong, [DriverNext]_driverVars PROVE Strong'
    OBVIOUS
<1> USE DEF fifoVars
<1>1. /\ pc \in [Cmds -> {"idle", "alloc", "prep", "wait", "done"}]
      /\ returned \in [Cmds -> {"none", "own", "other", "queued", "refused"}]
      /\ reaper \in [pc : {"loop", "callback", "gone"}, req : Cmds \cup {Null}]
    BY DEF Strong, Types
<1>2. ASSUME NEW r \in Cmds, Call(r) PROVE Strong'
    <2>1. CASE pool # <<>>
        BY <1>2, <2>1, TakeStrong DEF Call
    <2>2. CASE pool = <<>>
        <3>1. /\ UNCHANGED <<pool, ctxOf, done, result, reaper, returned, accepted, posted, open>>
              /\ pc' = [pc EXCEPT ![r] = "alloc"] /\ pc[r] = "idle" /\ Ctxs' = Ctxs
            BY <1>2, <2>2 DEF Call, Ctxs
        <3>2. Types' /\ Placed'
            BY <3>1 DEF Strong, Types, Placed
        <3>3. \A q \in Cmds : Pending(q)' <=> Pending(q)
            BY <3>1 DEF Pending
        <3>4. \A q \in Cmds : Stands(q)'
            BY <1>1, <3>1, <3>3 DEF Strong, Stands
        <3> QED BY <3>2, <3>4 DEF Strong
    <2> QED BY <2>1, <2>2
<1>3. ASSUME NEW r \in Cmds, Alloc(r) PROVE Strong'
    BY <1>3, TakeStrong DEF Alloc
<1>4. ASSUME NEW r \in Cmds, RefuseCommand(r) \/ Wake(r) PROVE Strong'
    <2>1. /\ FreeContext(r) /\ UNCHANGED <<done, reaper, accepted, posted, open>>
          /\ pc' = [pc EXCEPT ![r] = "done"] /\ pc[r] \in {"prep", "wait"}
        BY <1>4 DEF RefuseCommand, Wake
    <2>2. ctxOf[r] # Null /\ ~Pending(r) /\ ~(reaper.pc = "callback" /\ reaper.req = r)
        BY <1>4, <2>1 DEF RefuseCommand, Wake, Strong, Stands
    <2>3. returned' = [returned EXCEPT ![r] = "refused"] \/ returned' = [returned EXCEPT ![r] = "own"]
        BY <1>4, <2>2 DEF RefuseCommand, Wake, Strong, Stands
    <2> QED BY <1>1, <2>1, <2>2, <2>3, FreeStrong
<1>5. CASE CallbackReturn
    <2> PICK r \in Cmds : r = reaper.req
        BY <1>5 DEF CallbackReturn, Strong, Types
    <2>1. /\ FreeContext(r) /\ UNCHANGED <<pc, done, returned, accepted, posted, open>>
          /\ reaper' = [pc |-> "loop", req |-> Null] /\ reaper.pc = "callback"
        BY <1>5 DEF CallbackReturn
    <2>2. ctxOf[r] # Null /\ ~Pending(r) /\ pc[r] = "done" /\ returned[r] # "other"
        BY <2>1 DEF Strong, Stands
    <2> QED BY <1>1, <2>1, <2>2, FreeStrong
<1>6. CASE Close
    <2>1. /\ pool' = <<>> /\ open' = FALSE
          /\ UNCHANGED <<pc, ctxOf, result, done, reaper, returned, accepted, posted>> /\ Ctxs' = Ctxs
        BY <1>6 DEF Close, FifoShutdown, Ctxs
    <2>2. pool' \in Seq(Ctxs) /\ DOMAIN pool' = {}
        BY <2>1, SMTT(20)
    <2>3. Types' /\ Placed'
        BY <2>1, <2>2 DEF Strong, Types, Placed
    <2>4. \A q \in Cmds : Pending(q)' <=> Pending(q)
        BY <2>1 DEF Pending
    <2>5. \A q \in Cmds : Stands(q)'
        BY <2>1, <2>4 DEF Strong, Stands
    <2> QED BY <2>3, <2>5 DEF Strong
<1>7. CASE Join \/ UNCHANGED driverVars
    <2>1. UNCHANGED <<pool, pc, ctxOf, result, done, returned, accepted, posted, open>> /\ Ctxs' = Ctxs
        BY <1>7 DEF Join, driverVars, Ctxs
    <2>2. /\ reaper' \in [pc : {"loop", "callback", "gone"}, req : Cmds \cup {Null}]
          /\ reaper'.pc = "callback" => reaper' = reaper
        BY <1>1, <1>7 DEF Join, driverVars
    <2>3. Types' /\ Placed'
        BY <2>1, <2>2 DEF Strong, Types, Placed
    <2>4. \A q \in Cmds : Pending(q)' <=> Pending(q)
        BY <2>1 DEF Pending
    <2>5. \A q \in Cmds : Stands(q)'
        BY <2>1, <2>2, <2>4 DEF Strong, Stands
    <2> QED BY <2>3, <2>5 DEF Strong
<1> QED BY <1>2, <1>3, <1>4, <1>5, <1>6, <1>7, SubmitStrong, CompleteStrong DEF DriverNext, CallStep, ReaperStep

\* malloc_context and free_context: while the device is open every context is in the
\* pool, once, or with exactly one request.
THEOREM PoolCorrect == DriverSpec => []PoolPartition
<1>1. Strong => PoolPartition
    <2> SUFFICES ASSUME Strong, open
                 PROVE  /\ IsInjective(pool)
                        /\ \A r \in Holders : ctxOf[r] \notin Range(pool)
                        /\ \A r, q \in Holders : ctxOf[r] = ctxOf[q] => r = q
                        /\ Range(pool) \cup {ctxOf[r] : r \in Holders} = Ctxs
        BY DEF PoolPartition
    <2>1. Null \notin Ctxs /\ ctxOf \in [Cmds -> Ctxs \cup {Null}] /\ \A i \in DOMAIN pool : pool[i] \in Ctxs
        BY CtxsReal, SMTT(20) DEF Strong, Types
    <2>2. IsInjective(pool)
        BY DEF Strong, Placed, IsInjective
    <2>3. \A r \in Holders : ctxOf[r] \notin Range(pool)
        BY DEF Strong, Placed, Holders, Range
    <2>4. Range(pool) \cup {ctxOf[r] : r \in Holders} = Ctxs
        BY <2>1, SMTT(20) DEF Strong, Placed, Holders, Range
    <2> QED BY <2>2, <2>3, <2>4 DEF Strong, Placed, Holders
<1> QED BY <1>1, InitStrong, NextStrong, PTL DEF DriverSpec

\* on_io_complete and the wait for done_sync: a synchronous call returns the result
\* of its own command.
THEOREM OwnResultCorrect == DriverSpec => []OwnResult
<1>1. Strong => OwnResult
    BY DEF Strong, Stands, OwnResult
<1> QED BY <1>1, InitStrong, NextStrong, PTL DEF DriverSpec

(***************************************************************************)
(* How many contexts are in use.                                           *)
(***************************************************************************)
Callers == {q \in Cmds \ Nested : Inside(q)}
Inner == {q \in Nested : Inside(q)}
Queued == {accepted[i] : i \in Len(posted) + 1 .. Len(accepted)}
InCallback == {r \in Cmds : reaper.pc = "callback" /\ reaper.req = r}

\* A request that has a context is inside its call, in the queues or in its callback.
\* The threads bound the first, Room the second, and the callback is one; it makes
\* one call at a time.
Counts == /\ Outstanding <= Room
          /\ IsFiniteSet(Callers) /\ Cardinality(Callers) <= Threads
          /\ \A q, r \in Inner : q = r
          /\ Holders \subseteq Callers \cup Inner \cup Queued \cup InCallback

\* A set of which any two elements are the same has at most one.
LEMMA AtMostOne ==
    ASSUME NEW S, \A x, y \in S : x = y
    PROVE  IsFiniteSet(S) /\ Cardinality(S) \in {0, 1} /\ (S = {} => Cardinality(S) = 0)
<1>1. CASE S = {}
    BY <1>1, FS_EmptySet
<1>2. CASE \E x : S = {x}
    BY <1>2, FS_Singleton
<1> QED BY <1>1, <1>2, SMTT(20)

\* The size of a union is at most the sum of the sizes.
LEMMA UnionBound ==
    ASSUME NEW S, NEW T, IsFiniteSet(S), IsFiniteSet(T), NEW m \in Nat, NEW n \in Nat,
           Cardinality(S) <= m, Cardinality(T) <= n
    PROVE  IsFiniteSet(S \cup T) /\ Cardinality(S \cup T) <= m + n
<1>1. IsFiniteSet(S \cap T) /\ Cardinality(S \cap T) \in Nat /\ Cardinality(S) \in Nat /\ Cardinality(T) \in Nat
    BY FS_Intersection, FS_CardinalityType
<1>2. IsFiniteSet(S \cup T) /\ Cardinality(S \cup T) = Cardinality(S) + Cardinality(T) - Cardinality(S \cap T)
    BY FS_Union
<1> QED BY <1>1, <1>2, SMTT(20)

\* The queues hold at most Room requests.
LEMMA QueuedFew ==
    ASSUME Types, Outstanding <= Room
    PROVE  IsFiniteSet(Queued) /\ Cardinality(Queued) <= Room
<1>1. Len(posted) \in Nat /\ Len(accepted) \in Nat /\ Len(posted) <= Len(accepted) /\ Room \in Nat
    BY DriverAssumption, SMTT(20) DEF Types
<1> DEFINE I == Len(posted) + 1 .. Len(accepted)
           f == [i \in I |-> accepted[i]]
<1>2. IsFiniteSet(I) /\ Cardinality(I) = Len(accepted) - Len(posted)
    <2>1. Len(posted) + 1 \in Int /\ Len(accepted) \in Int
        BY <1>1, SMTT(20)
    <2>2. IsFiniteSet(I) /\ Cardinality(I) = IF Len(posted) + 1 > Len(accepted) THEN 0 ELSE Len(accepted) - (Len(posted) + 1) + 1
        BY <2>1, FS_Interval
    <2> QED BY <1>1, <2>2, SMTT(20)
<1>3. f \in Surjection(I, Queued)
    BY DEF Surjection, Queued
<1>4. IsFiniteSet(Queued) /\ Cardinality(Queued) <= Cardinality(I)
    BY <1>2, <1>3, FS_Surjection
<1>5. Cardinality(Queued) \in Nat
    BY <1>4, FS_CardinalityType
<1> QED BY <1>1, <1>2, <1>4, <1>5, SMTT(20) DEF Outstanding

\* With an empty pool of an open device, every context is counted.
LEMMA EmptyPool ==
    ASSUME Strong, Counts, open, pool = <<>>, NEW t \in Nat, NEW n \in Nat,
           Cardinality(Callers) <= t, Cardinality(Inner) <= n
    PROVE  Cardinality(Ctxs) <= Room + t + n + 1
<1>1. Types /\ Room \in Nat
    BY DriverAssumption DEF Strong
<1>2. IsFiniteSet(Inner)
    BY AtMostOne DEF Counts
<1>3. IsFiniteSet(InCallback) /\ Cardinality(InCallback) <= 1
    <2>1. \A x, y \in InCallback : x = y
        BY DEF InCallback
    <2> QED BY <2>1, AtMostOne, SMTT(20)
<1>4. IsFiniteSet(Queued) /\ Cardinality(Queued) <= Room
    BY <1>1, QueuedFew DEF Counts
<1> DEFINE A == Callers \cup Inner
           B == Queued \cup InCallback
<1>5. IsFiniteSet(A) /\ Cardinality(A) <= t + n
    BY <1>2, UnionBound DEF Counts
<1>6. IsFiniteSet(B) /\ Cardinality(B) <= Room + 1
    BY <1>1, <1>3, <1>4, UnionBound
<1>7. t + n \in Nat /\ Room + 1 \in Nat /\ (t + n) + (Room + 1) = Room + t + n + 1
    BY <1>1, SMTT(20)
<1>8. Holders \subseteq A \cup B
    BY DEF Counts
<1> HIDE DEF A, B
<1>9. IsFiniteSet(A \cup B) /\ Cardinality(A \cup B) <= (t + n) + (Room + 1)
    BY <1>5, <1>6, <1>7, UnionBound
<1>10. /\ IsFiniteSet(Holders) /\ Cardinality(Holders) <= Cardinality(A \cup B)
       /\ Cardinality(Holders) \in Nat /\ Cardinality(A \cup B) \in Nat
    BY <1>8, <1>9, FS_Subset, FS_CardinalityType
<1> DEFINE f == [r \in Holders |-> ctxOf[r]]
<1>11. f \in Surjection(Holders, Ctxs)
    <2>1. Null \notin Ctxs /\ ctxOf \in [Cmds -> Ctxs \cup {Null}]
        BY <1>1, CtxsReal DEF Types
    <2>2. DOMAIN pool = {}
        BY SMTT(20)
    <2>3. \A c \in Ctxs : \E r \in Holders : f[r] = c
        BY <2>1, <2>2 DEF Strong, Placed, Holders
    <2>4. f \in [Holders -> Ctxs]
        BY <2>1 DEF Holders
    <2> QED BY <2>3, <2>4 DEF Surjection
<1>12. IsFiniteSet(Ctxs) /\ Cardinality(Ctxs) <= Cardinality(Holders)
    BY <1>10, <1>11, FS_Surjection
<1>13. Cardinality(Ctxs) \in Nat
    BY <1>12, FS_CardinalityType
<1> QED BY <1>7, <1>9, <1>10, <1>12, <1>13, SMTT(20)

\* A step after which nobody else is inside a call and no request has got a context
\* except by being inside one.
LEMMA CountsKept ==
    ASSUME Counts, Outstanding' <= Room, Callers' \subseteq Callers, Inner' \subseteq Inner,
           (Holders \subseteq Callers \cup Inner \cup Queued \cup InCallback)'
    PROVE  Counts'
<1>1. IsFiniteSet(Callers') /\ Cardinality(Callers') <= Cardinality(Callers)
    BY FS_Subset DEF Counts
<1>2. Cardinality(Callers) \in Nat /\ Cardinality(Callers') \in Nat /\ Threads \in Nat
    BY <1>1, FS_CardinalityType, DriverAssumption DEF Counts
<1> QED BY <1>1, <1>2, SMTT(20) DEF Counts

\* A call begins: one more thread is inside, and only if there was room for it; or the
\* callback's first call.
LEMMA CallCounts ==
    ASSUME Strong, Counts, NEW r \in Cmds, Call(r)
    PROVE  Counts'
<1>1. /\ pc \in [Cmds -> {"idle", "alloc", "prep", "wait", "done"}] /\ ctxOf \in [Cmds -> Ctxs \cup {Null}]
      /\ pc[r] = "idle" /\ UNCHANGED <<accepted, posted, reaper>>
      /\ pc'[r] \in {"prep", "alloc"} /\ \A q \in Cmds : q # r => pc'[q] = pc[q] /\ ctxOf'[q] = ctxOf[q]
    BY DEF Strong, Types, Call, TakeContext, fifoVars
<1>2. Queued' = Queued /\ InCallback' = InCallback /\ Outstanding' = Outstanding
    BY <1>1 DEF Queued, InCallback, Outstanding
<1>3. \A q \in Cmds : Inside(q)' <=> Inside(q) \/ q = r
    BY <1>1 DEF Inside
<1>4. (Holders \subseteq Callers \cup Inner \cup Queued \cup InCallback)'
    <2> SUFFICES ASSUME NEW q \in Cmds, ctxOf'[q] # Null
                 PROVE  q \in Callers' \cup Inner' \cup Queued' \cup InCallback'
        BY DEF Holders
    <2>1. CASE q = r
        BY <1>3, <2>1 DEF Callers, Inner
    <2>2. CASE q # r
        <3>1. q \in Callers \cup Inner \cup Queued \cup InCallback
            BY <1>1, <2>2 DEF Counts, Holders
        <3> QED BY <1>2, <1>3, <3>1 DEF Callers, Inner
    <2> QED BY <2>1, <2>2
<1>5. CASE r \in Nested
    <2>1. Inner = {} /\ MayCall(r)
        BY <1>5 DEF Call, MayCall, Inner
    <2>2. Callers' = Callers /\ \A q, p \in Inner' : q = p
        BY <1>3, <1>5, <2>1, DriverAssumption DEF Callers, Inner
    <2> QED BY <1>2, <1>4, <2>2 DEF Counts
<1>6. CASE r \notin Nested
    <2>1. Callers' = Callers \cup {r} /\ Inner' = Inner
        BY <1>3, <1>6, DriverAssumption DEF Callers, Inner
    <2>2. Cardinality(Callers) < Threads /\ r \notin Callers
        BY <1>1, <1>6 DEF Call, MayCall, Callers, Inside
    <2>3. IsFiniteSet(Callers') /\ Cardinality(Callers') = Cardinality(Callers) + 1 /\ Cardinality(Callers) \in Nat
        BY <2>1, <2>2, FS_AddElement, FS_CardinalityType DEF Counts
    <2>4. Cardinality(Callers') <= Threads
        BY <2>2, <2>3, DriverAssumption, SMTT(20)
    <2> QED BY <1>2, <1>4, <2>1, <2>3, <2>4 DEF Counts
<1> QED BY <1>5, <1>6

\* Every other step of a call: nobody comes inside, and a request leaves with its
\* context returned or its command queued.
LEMMA CallStepCounts ==
    ASSUME Strong, Counts, NEW r \in Cmds, Alloc(r) \/ RefuseCommand(r) \/ SubmitCommand(r) \/ Wake(r)
    PROVE  Counts'
<1>1. /\ pc \in [Cmds -> {"idle", "alloc", "prep", "wait", "done"}] /\ ctxOf \in [Cmds -> Ctxs \cup {Null}]
      /\ accepted \in Seq(Cmds) /\ posted \in Seq(Cmds) /\ Len(posted) <= Len(accepted)
      /\ Inside(r) /\ UNCHANGED <<posted, reaper>>
      /\ \A q \in Cmds : q # r => pc'[q] = pc[q] /\ ctxOf'[q] = ctxOf[q]
    BY DEF Strong, Types, Alloc, RefuseCommand, SubmitCommand, Wake, TakeContext, FreeContext, FifoAccept, fifoVars, Inside
<1>2. /\ \A q \in Cmds : Inside(q)' => Inside(q)
      /\ \A q \in Cmds : q # r => (Inside(q)' <=> Inside(q))
    BY <1>1 DEF Inside
<1>3. Callers' \subseteq Callers /\ Inner' \subseteq Inner
    BY <1>2, DriverAssumption DEF Callers, Inner
<1>4. /\ Outstanding' <= Room /\ InCallback' = InCallback /\ Queued \subseteq Queued'
      /\ ctxOf'[r] = Null \/ Inside(r)' \/ r \in Queued'
    <2>1. InCallback' = InCallback
        BY <1>1 DEF InCallback
    <2>2. CASE SubmitCommand(r)
        <3>1. accepted' = Append(accepted, r) /\ Outstanding < Room
            BY <2>2 DEF SubmitCommand, FifoAccept
        <3>2. /\ Len(accepted) \in Nat /\ Len(accepted') = Len(accepted) + 1 /\ accepted'[Len(accepted) + 1] = r
              /\ \A i \in 1 .. Len(accepted) : accepted'[i] = accepted[i]
              /\ Len(posted) \in Nat /\ Room \in Nat
            BY <1>1, <3>1, DriverAssumption, SMTT(20)
        <3>3. Outstanding' <= Room
            BY <1>1, <3>1, <3>2, SMTT(20) DEF Outstanding
        <3>4. r \in Queued'
            <4>1. Len(accepted) + 1 \in Len(posted') + 1 .. Len(accepted')
                BY <1>1, <3>2, SMTT(20)
            <4> QED BY <3>2, <4>1 DEF Queued
        <3>5. Queued \subseteq Queued'
            <4> SUFFICES ASSUME NEW i \in Len(posted) + 1 .. Len(accepted) PROVE accepted[i] \in Queued'
                BY DEF Queued
            <4>1. i \in Len(posted') + 1 .. Len(accepted') /\ accepted'[i] = accepted[i]
                BY <1>1, <3>2, SMTT(20)
            <4> QED BY <4>1 DEF Queued
        <3> QED BY <2>1, <3>3, <3>4, <3>5
    <2>3. CASE Alloc(r) \/ RefuseCommand(r) \/ Wake(r)
        <3>1. UNCHANGED accepted
            BY <2>3 DEF Alloc, RefuseCommand, Wake, fifoVars
        <3>2. Queued' = Queued /\ Outstanding' <= Room
            BY <1>1, <3>1 DEF Queued, Outstanding, Counts
        <3>3. ctxOf'[r] = Null \/ Inside(r)'
            BY <1>1, <2>3 DEF Alloc, RefuseCommand, Wake, TakeContext, FreeContext, Inside
        <3> QED BY <2>1, <3>2, <3>3
    <2> QED BY <2>2, <2>3
<1>5. (Holders \subseteq Callers \cup Inner \cup Queued \cup InCallback)'
    <2> SUFFICES ASSUME NEW q \in Cmds, ctxOf'[q] # Null
                 PROVE  q \in Callers' \cup Inner' \cup Queued' \cup InCallback'
        BY DEF Holders
    <2>1. CASE q = r
        BY <1>4, <2>1 DEF Callers, Inner
    <2>2. CASE q # r
        <3>1. q \in Callers \cup Inner \cup Queued \cup InCallback
            BY <1>1, <2>2 DEF Counts, Holders
        <3> QED BY <1>2, <1>4, <2>2, <3>1 DEF Callers, Inner
    <2> QED BY <2>1, <2>2
<1> QED BY <1>3, <1>4, <1>5, CountsKept

\* on_io_complete: the oldest command leaves the queues, and its request is a caller
\* that waits or the one in the callback.
LEMMA CompleteCounts ==
    ASSUME Strong, Counts, CompleteSync \/ CompleteAsync
    PROVE  Counts'
<1>1. /\ accepted \in Seq(Cmds) /\ posted \in Seq(Cmds) /\ Len(posted) < Len(accepted) /\ reaper.pc = "loop"
      /\ posted' = Append(posted, Oldest) /\ UNCHANGED <<accepted, pc, ctxOf>>
    BY DEF CompleteSync, CompleteAsync, FifoPost, Oldest, Strong, Types
<1>2. /\ Len(posted) \in Nat /\ Len(accepted) \in Nat /\ Len(posted') = Len(posted) + 1 /\ Oldest \in Cmds
      /\ Oldest = accepted[Len(posted) + 1] /\ Len(posted) + 1 \in Len(posted) + 1 .. Len(accepted)
    BY <1>1, SMTT(20) DEF Oldest
<1>3. Outstanding' <= Room
    BY <1>1, <1>2, DriverAssumption, SMTT(20) DEF Outstanding, Counts
<1>4. Callers' = Callers /\ Inner' = Inner
    BY <1>1 DEF Callers, Inner, Inside
<1>5. Oldest \in Callers \cup InCallback'
    <2>1. Pending(Oldest)
        BY <1>2 DEF Pending
    <2>2. CASE Oldest \in Sync
        BY <1>2, <2>1, <2>2, DriverAssumption DEF Strong, Stands, Callers, Inside
    <2>3. CASE Oldest \notin Sync
        <3>1. reaper' = [pc |-> "callback", req |-> Oldest]
            BY <2>3 DEF CompleteSync, CompleteAsync
        <3> QED BY <1>2, <3>1 DEF InCallback
    <2> QED BY <2>2, <2>3
<1>6. \A q \in Queued : q \in Queued' \/ q = Oldest
    <2> SUFFICES ASSUME NEW i \in Len(posted) + 1 .. Len(accepted), accepted[i] # Oldest
                 PROVE  accepted[i] \in Queued'
        BY DEF Queued
    <2>1. i \in Len(posted') + 1 .. Len(accepted')
        BY <1>1, <1>2, SMTT(20)
    <2> QED BY <1>1, <2>1 DEF Queued
<1>7. InCallback = {}
    BY <1>1 DEF InCallback
<1>8. (Holders \subseteq Callers \cup Inner \cup Queued \cup InCallback)'
    BY <1>1, <1>4, <1>5, <1>6, <1>7 DEF Counts, Holders
<1> QED BY <1>3, <1>4, <1>8, CountsKept

\* Every step keeps the counts.
LEMMA NextCounts == Strong /\ Counts /\ [DriverNext]_driverVars => Counts'
<1> SUFFICES ASSUME Strong, Counts, [DriverNext]_driverVars PROVE Counts'
    OBVIOUS
<1>1. CASE CallbackReturn
    <2>1. /\ UNCHANGED <<pc, accepted, posted>> /\ reaper' = [pc |-> "loop", req |-> Null] /\ reaper.pc = "callback"
          /\ ctxOf' = [ctxOf EXCEPT ![reaper.req] = Null] /\ ctxOf \in [Cmds -> Ctxs \cup {Null}] /\ reaper.req \in Cmds
        BY <1>1 DEF CallbackReturn, FreeContext, fifoVars, Strong, Types
    <2>2. Callers' = Callers /\ Inner' = Inner /\ Queued' = Queued /\ Outstanding' = Outstanding
        BY <2>1 DEF Callers, Inner, Queued, Outstanding, Inside
    <2>3. \A q \in Cmds : ctxOf'[q] # Null => ctxOf[q] # Null /\ q \notin InCallback
        BY <2>1 DEF InCallback
    <2>4. (Holders \subseteq Callers \cup Inner \cup Queued \cup InCallback)'
        BY <2>2, <2>3 DEF Counts, Holders
    <2> QED BY <2>2, <2>4 DEF Counts
<1>2. CASE Close \/ Join \/ UNCHANGED driverVars
    <2>1. UNCHANGED <<pc, ctxOf, accepted, posted>> /\ (reaper.pc = "callback" => UNCHANGED reaper)
        BY <1>2 DEF Close, Join, driverVars, FifoShutdown, fifoVars
    <2>2. Callers' = Callers /\ Inner' = Inner /\ Queued' = Queued /\ Outstanding' = Outstanding /\ Holders' = Holders
        BY <2>1 DEF Callers, Inner, Queued, Outstanding, Inside, Holders
    <2>3. InCallback \subseteq InCallback'
        BY <2>1 DEF InCallback
    <2> QED BY <2>2, <2>3 DEF Counts
<1> QED BY <1>1, <1>2, CallCounts, CallStepCounts, CompleteCounts DEF DriverNext, CallStep, ReaperStep

\* malloc_context: with Room + Threads + 2 contexts no call waits for one while the
\* device is open, whatever mix of synchronous, asynchronous and refused requests and of
\* requests made by callbacks is under way.
THEOREM NeverStarvedCorrect == DriverSpec => []NeverStarved
<1>1. DriverInit => Counts /\ NeverStarved
    <2> SUFFICES ASSUME DriverInit PROVE Counts /\ NeverStarved
        OBVIOUS
    <2>1. accepted = <<>> /\ posted = <<>> /\ pc = [r \in Cmds |-> "idle"] /\ ctxOf = [r \in Cmds |-> Null]
        BY DEF DriverInit, FifoInit
    <2>2. Callers = {} /\ Inner = {} /\ Holders = {} /\ Outstanding = 0
        BY <2>1, DriverAssumption, SMTT(20) DEF Callers, Inner, Holders, Inside, Outstanding
    <2>3. Counts
        BY <2>2, FS_EmptySet, DriverAssumption, SMTT(20) DEF Counts
    <2> QED BY <2>1, <2>3 DEF NeverStarved
<1>2. Strong /\ Counts /\ NeverStarved /\ [DriverNext]_driverVars => NeverStarved'
    <2> SUFFICES ASSUME Strong, Counts, NeverStarved, [DriverNext]_driverVars, open',
                        (Cardinality(Ctxs) >= Room + Threads + 2)', NEW r \in Cmds, pc'[r] = "alloc"
                 PROVE  FALSE
        BY DEF NeverStarved
    <2>1. /\ pc \in [Cmds -> {"idle", "alloc", "prep", "wait", "done"}]
          /\ (\E C \in Pools : result \in [C -> Cmds \cup {Null}])
        BY DEF Strong, Types
    <2>2. open /\ Ctxs' = Ctxs /\ (pc[r] = "alloc" \/ (Call(r) /\ pool = <<>>))
        <3>1. ASSUME NEW q \in Cmds, CallStep(q)
              PROVE  open /\ Ctxs' = Ctxs /\ (pc[r] = "alloc" \/ (Call(r) /\ pool = <<>>))
            <4>1. CASE Call(q)
                BY <2>1, <4>1 DEF Call, TakeContext, fifoVars, Ctxs
            <4>2. CASE Alloc(q) \/ SubmitCommand(q)
                BY <2>1, <4>2 DEF Alloc, SubmitCommand, TakeContext, FifoAccept, fifoVars, Ctxs
            <4>3. CASE RefuseCommand(q) \/ Wake(q)
                BY <2>1, <4>3 DEF RefuseCommand, Wake, FreeContext, fifoVars, Ctxs
            <4> QED BY <3>1, <4>1, <4>2, <4>3 DEF CallStep
        <3>2. CASE ReaperStep
            BY <3>2 DEF ReaperStep, CompleteSync, CompleteAsync, CallbackReturn, FreeContext, FifoPost, fifoVars, Ctxs
        <3>3. CASE Close \/ Join \/ UNCHANGED driverVars
            BY <3>3 DEF Close, Join, FifoShutdown, fifoVars, driverVars, Ctxs
        <3> QED BY <3>1, <3>2, <3>3 DEF DriverNext
    <2>3. Call(r) /\ pool = <<>>
        BY <2>2 DEF NeverStarved
    <2>4. Room \in Nat /\ Threads \in Nat /\ Threads # 0 /\ IsFiniteSet(Ctxs) /\ Cardinality(Ctxs) \in Nat
        BY CtxsReal, FS_CardinalityType, DriverAssumption DEF Strong
    <2>5. /\ Cardinality(Inner) \in {0, 1} /\ Cardinality(Callers) \in Nat /\ Cardinality(Callers) <= Threads
          /\ Inner = {} => Cardinality(Inner) = 0
        BY AtMostOne, FS_CardinalityType DEF Counts
    <2>6. CASE r \in Nested
        <3>1. Inner = {}
            BY <2>3, <2>6 DEF Call, MayCall, Inner
        <3>2. PICK n \in Nat : n = 0 /\ Cardinality(Inner) <= n
            BY <2>5, <3>1, SMTT(20)
        <3>3. Cardinality(Ctxs) <= Room + Threads + n + 1
            BY <2>2, <2>3, <2>4, <2>5, <3>2, EmptyPool
        <3> QED BY <2>2, <2>4, <3>2, <3>3, SMTT(20)
    <2>7. CASE r \notin Nested
        <3>1. Cardinality(Callers) <= Threads - 1 /\ Threads - 1 \in Nat /\ Cardinality(Inner) <= 1
            <4>1. Cardinality(Callers) < Threads
                BY <2>3, <2>7 DEF Call, MayCall, Callers
            <4> QED BY <2>4, <2>5, <4>1, SMTT(20)
        <3>2. Cardinality(Ctxs) <= Room + (Threads - 1) + 1 + 1
            BY <2>2, <2>3, <3>1, EmptyPool
        <3> QED BY <2>2, <2>4, <3>2, SMTT(20)
    <2> QED BY <2>6, <2>7
<1> QED BY <1>1, <1>2, InitStrong, NextStrong, NextCounts, PTL DEF DriverSpec

(***************************************************************************)
(* The tuple calls.                                                        *)
(***************************************************************************)
\* The call was not refused by the driver it was made through.
Passed(c) == IF driver = "emul" THEN Checked(c) = "success" ELSE DriverCheck(c) = "success"

\* The inductive invariant: pairs and calls in flight have their types, and a call
\* in flight has passed the checks.
Typed == /\ kv \in [Places -> Values \cup {None}]
         /\ flight \in Seq(Calls)
         /\ \A i \in DOMAIN flight : Passed(flight[i])

\* What the fields of a call are.
LEMMA CallFields ==
    ASSUME NEW c \in Calls
    PROVE  /\ c.op \in {"store", "retrieve", "delete", "exist"}
           /\ c.op = "exist" => c.space \in Spaces /\ c.keys \in KeyLists /\ c.size \in Sizes
           /\ c.op # "exist" => c.at \in Places
           /\ c.op \in {"store", "retrieve"} => c.len \in Lens /\ c.off \in Offsets
           /\ c.op = "store" => c.fill \in Bytes
BY DEF Calls

\* What a refusal may say: nothing about the pair.
Refusals == {"param", "keylength", "valuelength", "misaligned", "small", "sysio", "option"}

\* A check refuses with one of the codes for refusals.
LEMMA CheckCodes ==
    ASSUME NEW c
    PROVE  /\ Checked(c) \in Refusals \cup {"success"}
           /\ DriverCheck(c) \in Refusals \cup {"success"}
BY DEF Checked, DriverCheck, FrontCheck, DeviceCheck, ValueCheck, KernelCheck, UserCheck, Refusals

\* uint32_t subtraction does not wrap when the offset lies within the value.
LEMMA MinusExact ==
    ASSUME NEW a \in Nat, NEW b \in Nat, b <= a, a < Word
    PROVE  Minus(a, b) = a - b
BY CallsAssumption, SMTT(20) DEF Minus

\* The end of a sequence.
LEMMA SuffixIs ==
    ASSUME NEW S, NEW f \in Seq(S), NEW i \in 1 .. Len(f)
    PROVE  /\ SubSeq(f, i + 1, Len(f)) \in Seq(S) /\ Len(SubSeq(f, i + 1, Len(f))) = Len(f) - i
           /\ \A j \in 1 .. Len(f) - i : SubSeq(f, i + 1, Len(f))[j] = f[i + j]
<1> DEFINE t == SubSeq(f, i + 1, Len(f))
<1>1. t = [j \in 1 .. Len(f) - i |-> f[i + j]]
    <2>1. t = [j \in 1 .. (Len(f) - (i + 1) + 1) |-> f[j + (i + 1) - 1]]
        BY SMTT(20) DEF SubSeq
    <2> QED BY <2>1, SMTT(20)
<1>2. Len(f) - i \in Nat /\ \A j \in 1 .. Len(f) - i : f[i + j] \in S
    BY SMTT(20)
<1> HIDE DEF t
<1>3. t \in [1 .. Len(f) - i -> S]
    BY <1>1, <1>2
<1>4. t \in Seq(S) /\ Len(t) = Len(f) - i
    BY <1>2, <1>3, SMTT(20)
<1> QED BY <1>1, <1>4 DEF t

\* The calls in flight when one of them is taken out.
LEMMA TakenOut ==
    ASSUME NEW S, NEW f \in Seq(S), NEW i \in DOMAIN f
    PROVE  /\ Without(f, i) \in Seq(S) /\ Len(Without(f, i)) = Len(f) - 1
           /\ \A j \in DOMAIN Without(f, i) : \E k \in DOMAIN f : Without(f, i)[j] = f[k]
<1>1. i \in 1 .. Len(f) /\ Len(f) \in Nat /\ DOMAIN f = 1 .. Len(f)
    BY SMTT(20)
<1>2. /\ SubSeq(f, 1, i - 1) \in Seq(S) /\ Len(SubSeq(f, 1, i - 1)) = i - 1
      /\ \A j \in 1 .. i - 1 : SubSeq(f, 1, i - 1)[j] = f[j]
    BY <1>1, SMTT(20)
<1>3. PICK a \in Seq(S), b \in Seq(S) : a = SubSeq(f, 1, i - 1) /\ b = SubSeq(f, i + 1, Len(f))
    BY <1>1, <1>2, SuffixIs
<1>4. /\ Len(a) = i - 1 /\ \A j \in 1 .. i - 1 : a[j] = f[j]
      /\ Len(b) = Len(f) - i /\ \A j \in 1 .. Len(f) - i : b[j] = f[i + j]
    BY <1>1, <1>2, <1>3, SuffixIs
<1>5. /\ a \o b \in Seq(S) /\ Len(a \o b) = Len(a) + Len(b)
      /\ \A j \in 1 .. Len(a) + Len(b) : (a \o b)[j] = IF j <= Len(a) THEN a[j] ELSE b[j - Len(a)]
    BY SMTT(20)
<1>6. Len(a) + Len(b) = Len(f) - 1
    BY <1>1, <1>4, SMTT(20)
<1>7. ASSUME NEW j \in 1 .. Len(f) - 1 PROVE \E k \in DOMAIN f : (a \o b)[j] = f[k]
    <2>1. CASE j < i
        <3>1. (a \o b)[j] = a[j] /\ j \in 1 .. i - 1 /\ j \in DOMAIN f
            BY <1>1, <1>4, <1>5, <1>6, <2>1, SMTT(20)
        <3> QED BY <1>4, <3>1
    <2>2. CASE ~(j < i)
        <3>1. (a \o b)[j] = b[j - (i - 1)] /\ j - (i - 1) \in 1 .. Len(f) - i
            BY <1>1, <1>4, <1>5, <1>6, <2>2, SMTT(20)
        <3>2. i + (j - (i - 1)) = j + 1 /\ j + 1 \in DOMAIN f
            BY <1>1, SMTT(20)
        <3> QED BY <1>4, <3>1, <3>2
    <2> QED BY <2>1, <2>2
<1>8. Without(f, i) = a \o b
    BY <1>3 DEF Without
<1>9. DOMAIN Without(f, i) = 1 .. Len(f) - 1 /\ Len(Without(f, i)) = Len(f) - 1
      /\ Without(f, i) \in Seq(S)
    <2>1. ASSUME NEW r \in Seq(S), Len(r) = Len(f) - 1 PROVE DOMAIN r = 1 .. Len(f) - 1
        BY <2>1, SMTT(20)
    <2> QED BY <1>5, <1>6, <1>8, <2>1
<1> QED BY <1>7, <1>8, <1>9

(***************************************************************************)
(* The invariant is inductive.                                             *)
(***************************************************************************)

\* The calls in flight after one of them was answered, at the front or anywhere.
LEMMA FirstOut ==
    ASSUME NEW S, NEW f \in Seq(S), f # <<>>
    PROVE  /\ Head(f) \in S /\ 1 \in DOMAIN f /\ Head(f) = f[1]
           /\ Tail(f) \in Seq(S) /\ Len(Tail(f)) = Len(f) - 1
           /\ \A j \in DOMAIN Tail(f) : \E k \in DOMAIN f : Tail(f)[j] = f[k]
<1>1. Len(f) \in Nat \ {0} /\ DOMAIN f = 1 .. Len(f) /\ Tail(f) \in Seq(S) /\ Len(Tail(f)) = Len(f) - 1
    BY SMTT(20)
<1>2. DOMAIN Tail(f) = 1 .. Len(f) - 1
    BY <1>1, SMTT(20)
<1>3. ASSUME NEW j \in 1 .. Len(f) - 1 PROVE Tail(f)[j] = f[j + 1] /\ j + 1 \in DOMAIN f
    BY <1>1, SMTT(20)
<1>4. Head(f) \in S /\ 1 \in DOMAIN f /\ Head(f) = f[1]
    BY <1>1, SMTT(20)
<1> QED BY <1>1, <1>2, <1>3, <1>4

\* A call leaves the calls in flight: those that remain have passed the checks.
LEMMA LeftTyped ==
    ASSUME Typed, NEW g \in Seq(Calls), flight' = g,
           \A j \in DOMAIN g : \E k \in DOMAIN flight : g[j] = flight[k],
           kv' \in [Places -> Values \cup {None}], driver' = driver
    PROVE  Typed'
<1>1. ASSUME NEW j \in DOMAIN g PROVE Passed(g[j])
    BY DEF Typed
<1>2. (\A j \in DOMAIN flight : Passed(flight[j]))' BY <1>1 DEF Passed, DriverCheck
<1> QED BY <1>2 DEF Typed

\* A call joins them.
LEMMA JoinedTyped ==
    ASSUME Typed, NEW c \in Calls, Passed(c), flight' = Append(flight, c),
           kv' = kv, driver' = driver
    PROVE  Typed'
<1>1. \A d : Passed(d)' = Passed(d) BY DEF Passed, DriverCheck
<1>2. /\ Append(flight, c) \in Seq(Calls)
      /\ \A j \in DOMAIN Append(flight, c) :
            \/ j \in DOMAIN flight /\ Append(flight, c)[j] = flight[j]
            \/ Append(flight, c)[j] = c
    BY SMTT(20) DEF Typed
<1>3. \A j \in DOMAIN flight' : Passed(flight'[j]) BY <1>2 DEF Typed
<1> QED BY <1>1, <1>2, <1>3 DEF Typed

\* What the device may write at a place.
LEMMA WrittenTyped ==
    ASSUME Typed, NEW c \in Calls
    PROVE  /\ c.op = "store" => [kv EXCEPT ![c.at] = [fill |-> c.fill, len |-> c.len]]
                                    \in [Places -> Values \cup {None}]
           /\ c.op = "delete" => [kv EXCEPT ![c.at] = None] \in [Places -> Values \cup {None}]
<1>1. c.op = "store" => [fill |-> c.fill, len |-> c.len] \in Values
    BY CallFields DEF Values
<1>2. c.op \in {"store", "delete"} => c.at \in Places
    BY CallFields
<1>3. kv \in [Places -> Values \cup {None}]
    BY DEF Typed
<1> HIDE DEF Values, Places
<1> QED BY <1>1, <1>2, <1>3

\* Every call in flight is a call.
LEMMA InFlight ==
    ASSUME Typed, NEW i \in DOMAIN flight
    PROVE  flight[i] \in Calls
BY SMTT(20) DEF Typed

\* Refusals leave all but the answer alone.
LEMMA SameTyped ==
    ASSUME Typed, kv' = kv, flight' = flight, driver' = driver
    PROVE  Typed'
<1>1. \A d : Passed(d)' = Passed(d) BY DEF Passed, DriverCheck
<1> QED BY <1>1 DEF Typed

\* Every step keeps the types.
LEMMA TypedNext == Typed /\ [AllNext]_vars => Typed'
<1> SUFFICES ASSUME Typed, [AllNext]_vars PROVE Typed'
    OBVIOUS
<1>1. ASSUME NEW c \in Calls, Step(c) PROVE Typed'
    <2>1. CASE Refuse(c) BY <2>1, SameTyped DEF Refuse
    <2>2. CASE Submit(c) BY <2>2, JoinedTyped DEF Submit, Passed
    <2> QED BY <1>1, <2>1, <2>2 DEF Step
<1>2. ASSUME NEW c \in Calls, SsdStep(c) PROVE Typed'
    <2>1. CASE SsdRefuse(c) BY <2>1, SameTyped DEF SsdRefuse
    <2>2. CASE SsdSubmit(c) BY <2>2, JoinedTyped DEF SsdSubmit, Passed, DeviceDriver
    <2>3. CASE SsdSubmitFails(c) BY <2>3, SameTyped DEF SsdSubmitFails
    <2> QED BY <1>2, <2>1, <2>2, <2>3 DEF SsdStep
<1>3. CASE Execute
    <2>1. flight # <<>> BY <1>3 DEF Execute, ExecuteWrite, ExecuteRead
    <2>2. /\ Head(flight) \in Calls /\ Tail(flight) \in Seq(Calls)
          /\ \A j \in DOMAIN Tail(flight) : \E k \in DOMAIN flight : Tail(flight)[j] = flight[k]
        BY <2>1, FirstOut DEF Typed
    <2>3. flight' = Tail(flight) /\ driver' = driver
        BY <1>3 DEF Execute, ExecuteWrite, ExecuteRead
    <2>4. kv' \in [Places -> Values \cup {None}]
        <3>1. CASE ExecuteRead BY <3>1 DEF ExecuteRead, Typed
        <3>2. CASE ExecuteWrite
            BY <2>2, <3>2, WrittenTyped, SMTT(20) DEF ExecuteWrite, StoreEffect, DeleteEffect, Typed
        <3> QED BY <1>3, <3>1, <3>2 DEF Execute
    <2> QED BY <2>2, <2>3, <2>4, LeftTyped
<1>4. ASSUME NEW i \in DOMAIN flight, SsdWrite(i) \/ SsdRetrieve(i) \/ SsdExist(i) \/ SsdFails(i)
      PROVE  Typed'
    <2>1. /\ flight[i] \in Calls /\ Without(flight, i) \in Seq(Calls)
          /\ \A j \in DOMAIN Without(flight, i) : \E k \in DOMAIN flight : Without(flight, i)[j] = flight[k]
        BY InFlight, TakenOut, SMTT(20) DEF Typed
    <2>2. flight' = Without(flight, i) /\ driver' = driver
        BY <1>4 DEF SsdWrite, SsdRetrieve, SsdExist, SsdFails
    <2>3. kv' \in [Places -> Values \cup {None}]
        <3>1. CASE SsdWrite(i) BY <2>1, <3>1, WrittenTyped DEF SsdWrite, Put, Typed
        <3>2. CASE ~SsdWrite(i) BY <1>4, <3>2 DEF SsdRetrieve, SsdExist, SsdFails, Typed
        <3> QED BY <3>1, <3>2
    <2> QED BY <2>1, <2>2, <2>3, LeftTyped
<1>5. CASE UNCHANGED vars BY <1>5, SameTyped DEF vars
<1> QED BY <1>1, <1>2, <1>3, <1>4, <1>5 DEF AllNext, Next, SsdExecute

\* Pairs and calls in flight keep their types, and a call in flight has passed the
\* checks of the driver it was made through.
THEOREM TypedCorrect == AllSpec => []Typed
<1>1. Init => Typed
    BY SMTT(20) DEF Init, Typed, Places
<1> QED BY <1>1, TypedNext, PTL DEF AllSpec

(***************************************************************************)
(* The tuple calls implement the map.                                      *)
(***************************************************************************)

\* What the map sees of the call that a step answers.
LEMMA ForwardedNext ==
    ASSUME driver' = driver, NEW c, reply'.call = c
    PROVE  (Forwarded(reply.call))' = Forwarded(c)
BY DEF Forwarded

\* A call is forwarded as it is, but for a retrieve that KDDriver does not let delete.
LEMMA ForwardedFields ==
    ASSUME NEW c \in Calls
    PROVE  /\ Forwarded(c).op = c.op /\ Forwarded(c).at = c.at
           /\ c.op # "retrieve" => Forwarded(c) = c
           /\ c.op = "retrieve" /\ (c.opt = "delete" => driver = "kernel") => Forwarded(c).opt # "delete"
<1>1. CASE c.op # "retrieve"
    BY <1>1 DEF Forwarded
<1>2. CASE c.op = "retrieve"
    <2>1. c \in [op : {"retrieve"}, at : Places, len : Lens, off : Offsets, opt : {"keep", "delete", "null"}]
        BY <1>2 DEF Calls
    <2> QED BY <1>2, <2>1 DEF Forwarded
<1> QED BY <1>1, <1>2

\* A step that changes no pair and answers a call that did not succeed, or that only
\* reads, with a code that is true of the pair.
LEMMA AnswerStep ==
    ASSUME kv' = kv, driver' = driver, NEW c \in Calls, reply'.call = c, reply'.code \in Codes,
           reply'.code = "success" => \/ c.op = "exist"
                                      \/ c.op = "retrieve" /\ (c.opt = "delete" => driver = "kernel"),
           reply'.code = "notexist" => kv[c.at] = None,
           reply'.code \in {"exists", "badoffset"} => kv[c.at] # None
    PROVE  Map!MapNext
<1>1. PICK f : f = Forwarded(c) /\ (Forwarded(reply.call))' = f
    BY ForwardedNext
<1>2. /\ f.op = c.op /\ f.at = c.at
      /\ c.op = "retrieve" /\ (c.opt = "delete" => driver = "kernel") => f.opt # "delete"
    BY <1>1, ForwardedFields
<1> QED BY <1>1, <1>2 DEF Map!MapNext, Map!MapAnswer

\* A store that succeeds under the condition of its option.
LEMMA StoreStep ==
    ASSUME driver' = driver, NEW c \in Calls, c.op = "store", reply'.call = c, reply'.code = "success",
           c.opt = "nooverwrite" => kv[c.at] = None,
           c.opt = "update" => kv[c.at] # None,
           kv' = [kv EXCEPT ![c.at] = [fill |-> c.fill, len |-> c.len]]
    PROVE  Map!MapNext
<1>1. (Forwarded(reply.call))' = c
    BY ForwardedNext, ForwardedFields
<1> QED BY <1>1 DEF Map!MapNext, Map!MapStore

\* A deletion that succeeds under the condition of its option.
LEMMA DeleteStep ==
    ASSUME driver' = driver, NEW c \in Calls, c.op = "delete", reply'.call = c, reply'.code = "success",
           c.opt = "error" => kv[c.at] # None,
           kv' = [kv EXCEPT ![c.at] = None]
    PROVE  Map!MapNext
<1>1. (Forwarded(reply.call))' = c
    BY ForwardedNext, ForwardedFields
<1> QED BY <1>1 DEF Map!MapNext, Map!MapDelete

\* A refusal says nothing about the pair.
LEMMA RefusalStep ==
    ASSUME kv' = kv, driver' = driver, NEW c \in Calls, NEW code \in Refusals, reply' = Reply(c, code)
    PROVE  Map!MapNext
<1>1. reply'.call = c /\ reply'.code = code
    BY DEF Reply
<1>2. code \in Codes /\ code \notin {"success", "notexist", "exists", "badoffset"}
    BY DEF Refusals, Codes
<1> QED BY <1>1, <1>2, AnswerStep

\* The worker of the emulator executes a store, or a deletion.
LEMMA EmulWrites ==
    ASSUME Typed, ExecuteWrite
    PROVE  Map!MapNext
<1>0. flight # <<>> /\ driver' = driver
    BY DEF ExecuteWrite
<1>1. PICK c \in Calls : c = Head(flight)
    BY <1>0, SMTT(20) DEF Typed
<1>2. CASE c.op = "store"
    <2>1. kv' = StoreEffect(c).kv /\ reply' = Reply(c, StoreEffect(c).code)
        BY <1>1, <1>2 DEF ExecuteWrite
    <2>2. reply'.call = c /\ reply'.code = StoreEffect(c).code
        BY <2>1 DEF Reply
    <2>3. CASE StoreEffect(c).code = "success"
        <3>1. /\ kv' = [kv EXCEPT ![c.at] = [fill |-> c.fill, len |-> c.len]]
              /\ c.opt = "nooverwrite" => kv[c.at] = None
              /\ c.opt # "update"
            BY <2>1, <2>3 DEF StoreEffect
        <3> QED BY <1>0, <1>2, <2>2, <2>3, <3>1, StoreStep
    <2>4. CASE StoreEffect(c).code # "success"
        <3>1. /\ kv' = kv /\ reply'.code \in {"option", "exists"}
              /\ reply'.code = "exists" => kv[c.at] # None
            BY <2>1, <2>2, <2>4 DEF StoreEffect
        <3>2. reply'.code \in Codes /\ reply'.code \notin {"success", "notexist", "badoffset"}
            BY <3>1 DEF Codes
        <3> QED BY <1>0, <2>2, <3>1, <3>2, AnswerStep
    <2> QED BY <2>3, <2>4
<1>3. CASE c.op = "delete"
    <2>1. kv' = DeleteEffect(c).kv /\ reply' = Reply(c, DeleteEffect(c).code)
        BY <1>1, <1>3 DEF ExecuteWrite
    <2>2. reply'.call = c /\ reply'.code = DeleteEffect(c).code
        BY <2>1 DEF Reply
    <2>3. CASE DeleteEffect(c).code = "success"
        <3>1. kv' = [kv EXCEPT ![c.at] = None] /\ (c.opt = "error" => kv[c.at] # None)
            BY <2>1, <2>3 DEF DeleteEffect
        <3> QED BY <1>0, <1>3, <2>2, <2>3, <3>1, DeleteStep
    <2>4. CASE DeleteEffect(c).code # "success"
        <3>1. kv' = kv /\ reply'.code = "notexist" /\ kv[c.at] = None
            BY <2>1, <2>2, <2>4 DEF DeleteEffect
        <3> QED BY <1>0, <2>2, <3>1, AnswerStep DEF Codes
    <2> QED BY <2>3, <2>4
<1> QED BY <1>1, <1>2, <1>3 DEF ExecuteWrite

\* What on_io_complete may answer to a retrieve and to an exist.
LEMMA EmulReads ==
    ASSUME Typed, ExecuteRead
    PROVE  Map!MapNext
<1>0. flight # <<>> /\ kv' = kv /\ driver' = driver
    BY DEF ExecuteRead
<1>1. PICK c \in Calls : c = Head(flight)
    BY <1>0, SMTT(20) DEF Typed
<1>2. c.op \in {"retrieve", "exist"}
    BY <1>1 DEF ExecuteRead
<1>3. CASE c.op = "retrieve"
    <2>1. reply' = Retrieve(c)
        BY <1>1, <1>3 DEF ExecuteRead
    <2>2. /\ reply'.call = c
          /\ reply'.code \in {"option", "notexist", "badoffset", "small", "success"}
          /\ reply'.code = "success" => c.opt # "delete"
          /\ reply'.code = "notexist" => kv[c.at] = None
          /\ reply'.code = "badoffset" => kv[c.at] # None
        BY <2>1 DEF Retrieve, Reply
    <2>3. reply'.code \in Codes /\ reply'.code # "exists"
        BY <2>2 DEF Codes
    <2> QED BY <1>0, <1>3, <2>2, <2>3, AnswerStep
<1>4. CASE c.op = "exist"
    <2>1. reply' = Exist(c)
        BY <1>1, <1>4 DEF ExecuteRead
    <2>2. reply'.call = c /\ reply'.code \in {"small", "success"}
        BY <2>1 DEF Exist, Reply
    <2>3. reply'.code \in Codes /\ reply'.code \notin {"notexist", "exists", "badoffset"}
        BY <2>2 DEF Codes
    <2> QED BY <1>0, <1>4, <2>2, <2>3, AnswerStep
<1> QED BY <1>2, <1>3, <1>4

\* The status of the device is true of the pair.
LEMMA StatusTrue ==
    ASSUME NEW c, c.op \in {"store", "delete", "retrieve"}
    PROVE  /\ DeviceStatus(c) \in {"exists", "notexist", "badoffset", "success"}
           /\ DeviceStatus(c) = "notexist" => kv[c.at] = None
           /\ DeviceStatus(c) \in {"exists", "badoffset"} => kv[c.at] # None
           /\ c.op = "retrieve" /\ DeviceStatus(c) = "success" => kv[c.at] # None
           /\ DeviceStatus(c) = "success" /\ c.op = "store" =>
                /\ c.opt = "nooverwrite" => kv[c.at] = None
                /\ c.opt = "update" => kv[c.at] # None
           /\ DeviceStatus(c) = "success" /\ c.op = "delete" =>
                (c.opt = "error" => kv[c.at] # None)
BY DEF DeviceStatus

\* A real device executes a store or a deletion.
LEMMA SsdWrites ==
    ASSUME Typed, NEW i \in DOMAIN flight, SsdWrite(i)
    PROVE  Map!MapNext
<1>1. PICK c \in Calls : c = flight[i]
    BY InFlight
<1>2. /\ c.op \in {"store", "delete"} /\ reply' = Reply(c, DeviceStatus(c))
      /\ kv' = IF DeviceStatus(c) # "success" THEN kv
               ELSE IF c.op = "store" THEN Put(c) ELSE [kv EXCEPT ![c.at] = None]
      /\ driver' = driver
    BY <1>1 DEF SsdWrite
<1>3. reply'.call = c /\ reply'.code = DeviceStatus(c)
    BY <1>2 DEF Reply
<1>4. CASE DeviceStatus(c) = "success" /\ c.op = "store"
    <2>1. /\ c.opt = "nooverwrite" => kv[c.at] = None
          /\ c.opt = "update" => kv[c.at] # None
        BY <1>4, StatusTrue, SMTT(20)
    <2>2. kv' = [kv EXCEPT ![c.at] = [fill |-> c.fill, len |-> c.len]]
        BY <1>2, <1>4 DEF Put
    <2> QED BY <1>2, <1>3, <1>4, <2>1, <2>2, StoreStep
<1>5. CASE DeviceStatus(c) = "success" /\ c.op = "delete"
    <2>1. c.opt = "error" => kv[c.at] # None
        BY <1>5, StatusTrue, SMTT(20)
    <2>2. kv' = [kv EXCEPT ![c.at] = None]
        BY <1>2, <1>5
    <2> QED BY <1>2, <1>3, <1>5, <2>1, <2>2, DeleteStep
<1>6. CASE DeviceStatus(c) # "success"
    <2>1. /\ DeviceStatus(c) \in {"exists", "notexist", "badoffset"}
          /\ DeviceStatus(c) = "notexist" => kv[c.at] = None
          /\ DeviceStatus(c) \in {"exists", "badoffset"} => kv[c.at] # None
        BY <1>2, <1>6, StatusTrue, SMTT(20)
    <2>2. DeviceStatus(c) \in Codes
        BY <2>1 DEF Codes
    <2> QED BY <1>2, <1>3, <1>6, <2>1, <2>2, AnswerStep
<1> QED BY <1>2, <1>4, <1>5, <1>6

\* The answers of the two drivers to a retrieve: the code of the device, or "small".
LEMMA RetrievedCodes ==
    ASSUME NEW c, NEW code
    PROVE  /\ KernelRetrieved(c, code).call = c /\ KernelRetrieved(c, code).code \in {code, "small"}
           /\ UserRetrieved(c, code).call = c /\ UserRetrieved(c, code).code \in {code, "small"}
BY DEF KernelRetrieved, UserRetrieved, Reply

\* A retrieve or exist of a device leaves the map alone.
LEMMA SsdReads ==
    ASSUME Typed, DeviceDriver, NEW i \in DOMAIN flight, SsdRetrieve(i) \/ SsdExist(i)
    PROVE  Map!MapNext
<1>1. PICK c \in Calls : c = flight[i]
    BY InFlight
<1>2. kv' = kv /\ driver' = driver BY DEF SsdRetrieve, SsdExist
<1>3. CASE SsdRetrieve(i)
    <2>1. /\ c.op = "retrieve"
          /\ reply' = IF driver = "kernel" THEN KernelRetrieved(c, DeviceStatus(c))
                      ELSE UserRetrieved(c, DeviceStatus(c))
        BY <1>1, <1>3 DEF SsdRetrieve
    <2>2. reply'.call = c /\ reply'.code \in {DeviceStatus(c), "small"}
        BY <2>1, RetrievedCodes
    <2>3. c.opt = "delete" => driver = "kernel"
        <3>1. Passed(c)
            BY <1>1 DEF Typed
        <3> QED BY <2>1, <3>1 DEF Passed, DeviceDriver, DriverCheck, UserCheck
    <2>4. /\ reply'.code \in {"exists", "notexist", "badoffset", "success", "small"}
          /\ reply'.code = "notexist" => kv[c.at] = None
          /\ reply'.code \in {"exists", "badoffset"} => kv[c.at] # None
        BY <2>1, <2>2, StatusTrue, SMTT(20)
    <2>5. reply'.code \in Codes
        BY <2>4 DEF Codes
    <2> QED BY <1>2, <2>1, <2>2, <2>3, <2>4, <2>5, AnswerStep
<1>4. CASE SsdExist(i)
    <2>1. c.op = "exist" /\ reply'.call = c /\ reply'.code = "success"
        BY <1>1, <1>4 DEF SsdExist, Reply
    <2> QED BY <1>2, <2>1, AnswerStep DEF Codes
<1> QED BY <1>3, <1>4

\* The answers to a command that the device failed.
LEMMA FailedCodes ==
    ASSUME NEW c \in Calls, NEW r \in FailedAnswers(c), DeviceDriver
    PROVE  /\ r.call = c /\ r.code \in {"success", "sysio", "capacity", "small"}
           /\ r.code = "success" => c.op = "exist"
           /\ [r EXCEPT !.failed = TRUE].call = r.call
           /\ [r EXCEPT !.failed = TRUE].code = r.code
           /\ [r EXCEPT !.failed = TRUE].failed = TRUE
<1>1. CASE c.op = "retrieve"
    <2>1. r = KernelRetrieved(c, "sysio") \/ r = UserRetrieved(c, "sysio")
        BY <1>1, SMTT(20) DEF FailedAnswers
    <2>2. r.call = c /\ r.code \in {"sysio", "small"}
        BY <2>1, RetrievedCodes
    <2>3. DOMAIN r = {"call", "code", "len", "actual", "fill", "bits", "failed"}
        BY <2>1 DEF KernelRetrieved, UserRetrieved, Reply
    <2> QED BY <2>2, <2>3
<1>2. CASE c.op = "store"
    BY <1>2, SMTT(20) DEF FailedAnswers, Reply
<1>3. CASE c.op = "delete"
    BY <1>3, SMTT(20) DEF FailedAnswers, Reply
<1>4. CASE c.op = "exist" /\ driver = "kernel"
    <2>1. r = [Reply(c, "sysio") EXCEPT !.len = 1, !.bits = {0}]
        BY <1>4, SMTT(20) DEF FailedAnswers
    <2> QED BY <1>4, <2>1 DEF Reply
<1>5. CASE c.op = "exist" /\ driver = "user"
    <2>1. PICK code \in {"success", "sysio"}, bits \in {{}, {0}} :
            r = [Reply(c, code) EXCEPT !.len = 1, !.bits = bits]
        BY <1>5, SMTT(20) DEF FailedAnswers
    <2> QED BY <1>5, <2>1 DEF Reply
<1> QED BY <1>1, <1>2, <1>3, <1>4, <1>5, CallFields DEF DeviceDriver

\* A command that the device fails leaves the map alone and says so.
LEMMA SsdFailures ==
    ASSUME Typed, DeviceDriver, NEW i \in DOMAIN flight, SsdFails(i)
    PROVE  Map!MapNext
<1>1. PICK c \in Calls : c = flight[i] BY InFlight
<1>2. PICK r \in FailedAnswers(c) : reply' = [r EXCEPT !.failed = TRUE] /\ kv' = kv /\ driver' = driver
    BY <1>1 DEF SsdFails
<1>3. /\ reply'.call = c /\ reply'.code \in {"success", "sysio", "capacity", "small"}
      /\ reply'.code = "success" => c.op = "exist"
    BY <1>2, FailedCodes, SMTT(20)
<1>4. reply'.code \in Codes /\ reply'.code \notin {"notexist", "exists", "badoffset"}
    BY <1>3 DEF Codes
<1> QED BY <1>2, <1>3, <1>4, AnswerStep

\* Every step of the calls is a step of the map, or changes nothing it shows.
LEMMA MapStep ==
    ASSUME Typed, [AllNext]_vars
    PROVE  [Map!MapNext]_Map!mapVars
<1>1. ASSUME NEW c \in Calls, Step(c) PROVE [Map!MapNext]_Map!mapVars
    <2>1. CASE Refuse(c)
        BY <2>1, RefusalStep, CheckCodes DEF Refuse
    <2>2. CASE Submit(c) BY <2>2 DEF Submit, Map!mapVars, Forwarded
    <2> QED BY <1>1, <2>1, <2>2 DEF Step
<1>2. ASSUME NEW c \in Calls, SsdStep(c) PROVE [Map!MapNext]_Map!mapVars
    <2>1. CASE SsdRefuse(c)
        BY <2>1, RefusalStep, CheckCodes DEF SsdRefuse
    <2>2. CASE SsdSubmit(c) BY <2>2 DEF SsdSubmit, Map!mapVars, Forwarded
    <2>3. CASE SsdSubmitFails(c)
        <3>1. kv' = kv /\ driver' = driver /\ reply'.call = c /\ reply'.code = "sysio"
            BY <2>3 DEF SsdSubmitFails, Reply
        <3> QED BY <1>2, <3>1, AnswerStep DEF Codes
    <2> QED BY <1>2, <2>1, <2>2, <2>3 DEF SsdStep
<1>3. CASE Execute BY <1>3, EmulWrites, EmulReads DEF Execute
<1>4. CASE SsdExecute
    <2>1. PICK i \in DOMAIN flight : SsdWrite(i) \/ SsdRetrieve(i) \/ SsdExist(i) \/ SsdFails(i)
        BY <1>4 DEF SsdExecute
    <2>2. DeviceDriver BY <1>4 DEF SsdExecute
    <2> QED BY <2>1, <2>2, SsdWrites, SsdReads, SsdFailures
<1>5. CASE UNCHANGED vars BY <1>5 DEF vars, Map!mapVars, Forwarded
<1> QED BY <1>1, <1>2, <1>3, <1>4, <1>5 DEF AllNext, Next

\* The tuple calls over the emulator, the kernel driver and the user space driver
\* implement the map of KvMap: kvs_store_kvp, kvs_delete_kvp, kvs_retrieve_kvp and
\* kvs_exist_kv_pairs answer success exactly when the effect asked for took place,
\* and a code about the pair only when it is true. A retrieve with kvs_retrieve_delete
\* is refused by the emulator and by KUDDriver; KDDriver forwards it as a plain retrieve.
THEOREM MapCorrect == AllSpec => MapImplemented
<1>1. Init => Map!MapInit
    BY SMTT(20) DEF Init, Map!MapInit, Reply
<1>2. Typed /\ [AllNext]_vars => [Map!MapNext]_Map!mapVars
    BY MapStep
<1> QED BY <1>1, <1>2, TypedCorrect, PTL DEF AllSpec, MapImplemented, Map!MapSpec

(***************************************************************************)
(* What the reads deliver.                                                 *)
(***************************************************************************)

\* A stored value and the offset of a retrieve that the device accepts.
LEMMA RestExact ==
    ASSUME Typed, NEW c \in Calls, c.op = "retrieve", kv[c.at] # None,
           c.off = 0 \/ c.off < kv[c.at].len
    PROVE  /\ kv[c.at].len \in Nat /\ c.off \in Nat /\ c.len \in Nat
           /\ c.off <= kv[c.at].len
           /\ Minus(kv[c.at].len, c.off) = kv[c.at].len - c.off
<1>1. c.at \in Places /\ c.len \in Lens /\ c.off \in Offsets
    BY CallFields
<1>2. kv[c.at] \in Values
    BY <1>1 DEF Typed
<1>3. kv[c.at].len \in Lens
    BY <1>2 DEF Values
<1>4. kv[c.at].len \in Nat /\ c.off \in Nat /\ c.len \in Nat /\ kv[c.at].len < Word
    BY <1>1, <1>3, CallsAssumption
<1>5. c.off <= kv[c.at].len
    BY <1>4, SMTT(20)
<1> QED BY <1>4, <1>5, MinusExact

\* What a retrieve that the device accepts answers, over the emulator and over the
\* drivers of a real device.
LEMMA EmulRetrieved ==
    ASSUME Typed, NEW c \in Calls, c.op = "retrieve", Retrieve(c).code \in {"success", "small"}
    PROVE  LET v == kv[c.at] r == Retrieve(c) IN
           /\ v # None /\ r.fill = v.fill /\ c.off + r.len <= v.len /\ r.len <= c.len
           /\ (r.code = "success") <=> (c.off + r.len = v.len)
<1>1. kv[c.at] # None /\ ~(c.off # 0 /\ c.off >= kv[c.at].len) /\ c.opt # "delete"
    BY DEF Retrieve, Reply
<1>2. PICK v : v = kv[c.at] OBVIOUS
<1>3. c.off \in Nat /\ v.len \in Nat
    BY <1>2, <1>1, CallFields, CallsAssumption DEF Typed, Values
<1>4. /\ v.len \in Nat /\ c.off \in Nat /\ c.len \in Nat /\ c.off <= v.len
      /\ Minus(v.len, c.off) = v.len - c.off
    BY <1>1, <1>2, <1>3, RestExact, SMTT(20)
<1>5. PICK rest \in Nat : rest = Minus(v.len, c.off) /\ rest = v.len - c.off
    BY <1>4, SMTT(20)
<1>6. /\ Retrieve(c).fill = v.fill /\ Retrieve(c).len = Min2(rest, c.len)
      /\ Retrieve(c).code = IF c.len < rest THEN "small" ELSE "success"
    BY <1>1, <1>2, <1>5 DEF Retrieve, Reply
<1>7. /\ Min2(rest, c.len) = IF rest <= c.len THEN rest ELSE c.len
      /\ Min2(rest, c.len) \in Nat
    BY <1>4, <1>5 DEF Min2
<1> QED BY <1>1, <1>2, <1>4, <1>5, <1>6, <1>7, SMTT(20)

\* What KDDriver reports of a retrieve is what it delivered.
LEMMA KernelDelivers ==
    ASSUME Typed, NEW c \in Calls, c.op = "retrieve", driver = "kernel",
           NEW code \in {"exists", "notexist", "badoffset", "success", "sysio"},
           code = "success" => kv[c.at] # None /\ ~(c.off # 0 /\ c.off >= kv[c.at].len),
           KernelRetrieved(c, code).code \in {"success", "small"}
    PROVE  LET v == kv[c.at] r == KernelRetrieved(c, code) IN
           \/ /\ v # None /\ r.fill = v.fill /\ c.off + r.len <= v.len /\ r.len <= c.len
              /\ (r.code = "success") <=> (c.off + r.len = v.len)
           \/ Misjudged(c) /\ r.code = "small"
<1>1. CASE code = "success"
    <2>1. PICK v : v = kv[c.at] /\ v # None BY <1>1
    <2>2. c.off \in Nat /\ v.len \in Nat
        BY <2>1, CallFields, CallsAssumption DEF Typed, Values
    <2>3. /\ v.len \in Nat /\ c.off \in Nat /\ c.len \in Nat /\ c.off <= v.len
          /\ Minus(v.len, c.off) = v.len - c.off
        BY <1>1, <2>1, <2>2, RestExact, SMTT(20)
    <2>4. PICK rest \in Nat : rest = Minus(v.len, c.off) /\ rest = v.len - c.off
        BY <2>3, SMTT(20)
    <2>5. PICK len \in Nat : len = Min2(rest, c.len) /\ len = IF rest <= c.len THEN rest ELSE c.len
        BY <2>3, <2>4 DEF Min2
    <2>6. /\ KernelRetrieved(c, code).fill = v.fill /\ KernelRetrieved(c, code).len = len
          /\ KernelRetrieved(c, code).code = IF len < rest THEN "small" ELSE "success"
        BY <1>1, <2>1, <2>4, <2>5 DEF KernelRetrieved, Reply
    <2> QED BY <2>1, <2>3, <2>4, <2>5, <2>6, SMTT(20)
<1>2. CASE code # "success"
    <2>1. KernelRetrieved(c, code).code = IF c.len < stale THEN "small" ELSE code
        BY <1>2 DEF KernelRetrieved, Reply
    <2>2. c.len < stale /\ KernelRetrieved(c, code).code = "small"
        BY <1>2, <2>1
    <2> QED BY <2>2 DEF Misjudged
<1> QED BY <1>1, <1>2

\* What KUDDriver reports of a retrieve is what it delivered.
LEMMA UserDelivers ==
    ASSUME Typed, NEW c \in Calls, c.op = "retrieve", driver = "user",
           NEW code \in {"exists", "notexist", "badoffset", "success", "sysio"},
           code = "success" => kv[c.at] # None /\ ~(c.off # 0 /\ c.off >= kv[c.at].len),
           UserRetrieved(c, code).code \in {"success", "small"}
    PROVE  LET v == kv[c.at] r == UserRetrieved(c, code) IN
           \/ /\ v # None /\ r.fill = v.fill /\ c.off + r.len <= v.len /\ r.len <= c.len
              /\ (r.code = "success") <=> (c.off + r.len = v.len)
           \/ Misjudged(c) /\ r.code = "small"
<1>1. code = "success"
    BY DEF UserRetrieved, Reply
<1>2. PICK v : v = kv[c.at] /\ v # None BY <1>1
<1>3. c.off \in Nat /\ v.len \in Nat
    BY <1>2, CallFields, CallsAssumption DEF Typed, Values
<1>4. /\ v.len \in Nat /\ c.off \in Nat /\ c.len \in Nat /\ c.off <= v.len
      /\ Minus(v.len, c.off) = v.len - c.off
    BY <1>1, <1>2, <1>3, RestExact, SMTT(20)
<1>5. PICK rest \in Nat : rest = Minus(v.len, c.off) /\ rest = v.len - c.off
    BY <1>4, SMTT(20)
<1>6. PICK len \in Nat : len = Min2(rest, c.len) /\ len = IF rest <= c.len THEN rest ELSE c.len
    BY <1>4, <1>5 DEF Min2
<1>7. /\ UserRetrieved(c, code).fill = v.fill /\ UserRetrieved(c, code).len = len
      /\ UserRetrieved(c, code).code = IF v.len > len THEN "small" ELSE "success"
    BY <1>1, <1>2, <1>5, <1>6 DEF UserRetrieved, Reply
<1>8. CASE c.off > 0
    BY <1>4, <1>5, <1>6, <1>7, <1>8, SMTT(20) DEF Misjudged
<1>9. CASE c.off = 0
    BY <1>2, <1>4, <1>5, <1>6, <1>7, <1>9, SMTT(20)
<1> QED BY <1>4, <1>8, <1>9, SMTT(20)

\* What the device accepts of a retrieve.
LEMMA Accepted ==
    ASSUME NEW c, c.op = "retrieve", DeviceStatus(c) = "success"
    PROVE  kv[c.at] # None /\ ~(c.off # 0 /\ c.off >= kv[c.at].len)
BY DEF DeviceStatus

\* The step property of RetrieveExact.
RetrieveStep ==
    Answered("retrieve") /\ reply'.code \in {"success", "small"} =>
    LET c == reply'.call
        v == kv[c.at]
    IN \/ /\ v # None /\ reply'.fill = v.fill
          /\ c.off + reply'.len <= v.len
          /\ reply'.len <= c.len
          /\ (reply'.code = "success") <=> (c.off + reply'.len = v.len)
       \/ Misjudged(c) /\ reply'.code = "small"

\* A call is answered out of the calls in flight only when one is executed.
LEMMA OnlyExecuted ==
    ASSUME Typed, [AllNext]_vars, Len(flight') < Len(flight)
    PROVE  \/ driver = "emul" /\ Execute
           \/ SsdExecute
<1>1. Len(flight) \in Nat /\ \A c \in Calls : Len(Append(flight, c)) = Len(flight) + 1
    BY SMTT(20) DEF Typed
<1>2. ASSUME NEW c \in Calls, Step(c) \/ SsdStep(c) PROVE FALSE
    BY <1>1, <1>2, SMTT(20) DEF Step, SsdStep, Refuse, Submit, SsdRefuse, SsdSubmit, SsdSubmitFails
<1>3. CASE UNCHANGED vars BY <1>1, <1>3, SMTT(20) DEF vars
<1>4. Execute => driver = "emul" BY DEF Execute, ExecuteWrite, ExecuteRead
<1> QED BY <1>2, <1>3, <1>4 DEF AllNext, Next

\* Every step that answers a retrieve answers it exactly.
LEMMA RetrieveStepHolds ==
    ASSUME Typed, [AllNext]_vars
    PROVE  RetrieveStep
<1> SUFFICES ASSUME Answered("retrieve"), reply'.code \in {"success", "small"}
             PROVE  LET c == reply'.call
                        v == kv[c.at]
                    IN \/ /\ v # None /\ reply'.fill = v.fill
                          /\ c.off + reply'.len <= v.len
                          /\ reply'.len <= c.len
                          /\ (reply'.code = "success") <=> (c.off + reply'.len = v.len)
                       \/ Misjudged(c) /\ reply'.code = "small"
    BY DEF RetrieveStep
<1>1. (driver = "emul" /\ Execute) \/ SsdExecute
    BY OnlyExecuted DEF Answered
<1>2. CASE driver = "emul" /\ Execute
    <2>1. flight # <<>> BY <1>2 DEF Execute, ExecuteWrite, ExecuteRead
    <2>2. PICK c \in Calls : c = Head(flight)
        BY <2>1, FirstOut DEF Typed
    <2>3. c.op = "retrieve" /\ reply' = Retrieve(c) /\ reply'.call = c
        <3>1. CASE ExecuteWrite
            <4>1. reply'.call = c /\ c.op # "retrieve" BY <2>2, <3>1, SMTT(20) DEF ExecuteWrite, Reply
            <4> QED BY <4>1 DEF Answered
        <3>2. CASE ExecuteRead
            <4>1. CASE c.op = "retrieve" BY <2>2, <3>2, <4>1 DEF ExecuteRead, Retrieve, Reply
            <4>2. CASE c.op = "exist"
                <5>1. reply'.call = c BY <2>2, <3>2, <4>2 DEF ExecuteRead, Exist, Reply
                <5> QED BY <4>2, <5>1 DEF Answered
            <4> QED BY <2>2, <3>2, <4>1, <4>2 DEF ExecuteRead
        <3> QED BY <1>2, <3>1, <3>2 DEF Execute
    <2> QED BY <2>3, EmulRetrieved
<1>3. CASE SsdExecute
    <2>1. PICK i \in DOMAIN flight : SsdWrite(i) \/ SsdRetrieve(i) \/ SsdExist(i) \/ SsdFails(i)
        BY <1>3 DEF SsdExecute
    <2>2. driver \in {"kernel", "user"} BY <1>3 DEF SsdExecute, DeviceDriver
    <2>3. PICK c \in Calls : c = flight[i] BY InFlight
    <2>4. CASE SsdWrite(i)
        <3>1. reply'.call = c /\ c.op # "retrieve" BY <2>3, <2>4 DEF SsdWrite, Reply
        <3> QED BY <3>1 DEF Answered
    <2>5. CASE SsdExist(i)
        <3>1. reply'.call = c /\ c.op # "retrieve" BY <2>3, <2>5 DEF SsdExist, Reply
        <3> QED BY <3>1 DEF Answered
    <2>6. CASE SsdRetrieve(i)
        <3>1. /\ c.op = "retrieve"
              /\ reply' = IF driver = "kernel" THEN KernelRetrieved(c, DeviceStatus(c))
                          ELSE UserRetrieved(c, DeviceStatus(c))
            BY <2>3, <2>6 DEF SsdRetrieve
        <3>2. PICK code \in {"exists", "notexist", "badoffset", "success", "sysio"} : code = DeviceStatus(c)
            BY <3>1, StatusTrue, SMTT(20)
        <3>3. code = "success" => kv[c.at] # None /\ ~(c.off # 0 /\ c.off >= kv[c.at].len)
            BY <3>1, <3>2, Accepted
        <3>4. CASE driver = "kernel"
            <4>1. reply' = KernelRetrieved(c, code) /\ reply'.call = c
                BY <3>1, <3>2, <3>4, RetrievedCodes
            <4> QED BY <3>1, <3>3, <3>4, <4>1, KernelDelivers, SMTT(20)
        <3>5. CASE driver = "user"
            <4>1. reply' = UserRetrieved(c, code) /\ reply'.call = c
                BY <3>1, <3>2, <3>5, RetrievedCodes
            <4> QED BY <3>1, <3>3, <3>5, <4>1, UserDelivers
        <3> QED BY <2>2, <3>4, <3>5
    <2>7. CASE SsdFails(i)
        <3>1. PICK r \in FailedAnswers(c) : reply' = [r EXCEPT !.failed = TRUE]
            BY <2>3, <2>7 DEF SsdFails
        <3>2. reply'.call = c /\ c.op = "retrieve"
            BY <2>2, <3>1, FailedCodes, SMTT(20) DEF Answered, DeviceDriver
        <3>3. CASE driver = "kernel"
            <4>1. r = KernelRetrieved(c, "sysio") BY <3>1, <3>2, <3>3, SMTT(20) DEF FailedAnswers
            <4>2. reply'.code = r.code /\ reply'.fill = r.fill /\ reply'.len = r.len
                BY <3>1, <4>1 DEF KernelRetrieved, Reply
            <4> QED BY <3>2, <3>3, <4>1, <4>2, KernelDelivers
        <3>4. CASE driver = "user"
            <4>1. r = UserRetrieved(c, "sysio") BY <3>1, <3>2, <3>4, SMTT(20) DEF FailedAnswers
            <4>2. reply'.code = r.code /\ reply'.fill = r.fill /\ reply'.len = r.len
                BY <3>1, <4>1 DEF UserRetrieved, Reply
            <4> QED BY <3>2, <3>4, <4>1, <4>2, UserDelivers
        <3> QED BY <2>2, <3>3, <3>4
    <2> QED BY <2>1, <2>4, <2>5, <2>6, <2>7
<1> QED BY <1>1, <1>2, <1>3

\* kvs_retrieve_kvp delivers the bytes of the stored value from the offset on, as
\* many as the buffer holds, and says so truly, but for the two answers that Misjudged
\* names; for any lengths and offsets, wrap-around of uint32_t included.
THEOREM RetrieveCorrect == AllSpec => RetrieveExact
<1>1. Typed /\ [AllNext]_vars => [RetrieveStep]_vars
    BY RetrieveStepHolds
<1> QED BY <1>1, TypedCorrect, PTL DEF AllSpec, RetrieveExact, RetrieveStep

\* A call of kvs_exist_kv_pairs in flight names a key and has a buffer.
LEMMA ExistAccepted ==
    ASSUME Typed, NEW i \in DOMAIN flight, flight[i].op = "exist"
    PROVE  LET c == flight[i] IN
           /\ c.keys \in Seq(Keys) /\ Len(c.keys) \in Nat \ {0} /\ DOMAIN c.keys = 1 .. Len(c.keys)
           /\ c.size \in Nat /\ c.size >= 1
           /\ driver = "kernel" => Len(c.keys) = 1
<1>1. PICK c \in Calls : c = flight[i] /\ Passed(c) BY InFlight DEF Typed
<1>2. c.op = "exist" /\ c.keys \in KeyLists /\ c.size \in Sizes BY <1>1, CallFields
<1>3. c.keys \in Seq(Keys) /\ c.size \in Nat BY <1>2, CallsAssumption
<1>4. FrontCheck(c) = "success" BY <1>1 DEF Passed, Checked, DriverCheck
<1>5. c.keys # <<>> /\ ~(c.size <= 0) BY <1>2, <1>4 DEF FrontCheck
<1>6. Len(c.keys) \in Nat \ {0} /\ DOMAIN c.keys = 1 .. Len(c.keys) BY <1>3, <1>5, SMTT(20)
<1>7. driver = "kernel" => KernelCheck(c) = "success" BY <1>1, <1>4 DEF Passed, DriverCheck
<1>8. driver = "kernel" => ~(Len(c.keys) > 1) BY <1>2, <1>7 DEF KernelCheck
<1>9. driver = "kernel" => Len(c.keys) = 1
    <2>1. PICK n \in Nat \ {0} : n = Len(c.keys) BY <1>6
    <2>2. ~(n > 1) => n = 1 BY SMTT(20)
    <2>3. driver = "kernel" => ~(n > 1) BY <1>8, <2>1
    <2> QED BY <2>1, <2>2, <2>3
<1> QED BY <1>1, <1>3, <1>5, <1>6, <1>9, SMTT(20)

\* The bit of a key, and the byte it lies in.
LEMMA BitPlace ==
    ASSUME NEW n \in Nat \ {0}, NEW i \in 1 .. n
    PROVE  /\ 8 * ((i - 1) \div 8) + ((i - 1) - ((i - 1) \div 8) * 8) = i - 1
           /\ i - 1 < 8 * (((n - 1) \div 8) + 1)
<1>1. PICK q \in Nat : q = (i - 1) \div 8 /\ 8 * q <= i - 1 /\ i - 1 < 8 * (q + 1) BY SMTT(20)
<1>2. PICK p \in Nat : p = (n - 1) \div 8 /\ 8 * p <= n - 1 /\ n - 1 < 8 * (p + 1) BY SMTT(20)
<1> QED BY <1>1, <1>2, SMTT(20)

\* What kv_emulator::kv_exist writes.
LEMMA EmulExist ==
    ASSUME NEW c, c.keys \in Seq(Keys), Len(c.keys) \in Nat \ {0}, DOMAIN c.keys = 1 .. Len(c.keys),
           c.size \in Nat, Exist(c).code = "success"
    PROVE  /\ Exist(c).len <= c.size
           /\ \A b \in Exist(c).bits : b < 8 * Exist(c).len
           /\ \A i \in DOMAIN c.keys : (i - 1) \in Exist(c).bits <=> kv[<<c.space, c.keys[i]>>] # None
<1>1. PICK n \in Nat \ {0} : n = Len(c.keys) OBVIOUS
<1>2. PICK bytes \in Nat : bytes = ((n - 1) \div 8) + 1
    <2>1. ASSUME NEW m \in Nat PROVE (m \div 8) + 1 \in Nat BY SMTT(20)
    <2>2. n - 1 \in Nat BY SMTT(20)
    <2> QED BY <2>1, <2>2
<1> DEFINE there == {j \in 1 .. n : kv[<<c.space, c.keys[j]>>] # None}
           place(i) == 8 * ((i - 1) \div 8) + ((i - 1) - ((i - 1) \div 8) * 8)
<1>3. /\ ~(bytes > c.size) /\ Exist(c).len = bytes
      /\ Exist(c).bits = {place(i) : i \in there}
    BY <1>1, <1>2 DEF Exist, Reply
<1>4. \A i \in 1 .. n : place(i) = i - 1 /\ i - 1 < 8 * bytes
    BY <1>2, BitPlace
<1> HIDE DEF place
<1>5. Exist(c).bits = {i - 1 : i \in there}
    BY <1>3, <1>4
<1> HIDE DEF there
<1>6. ASSUME NEW i \in 1 .. n PROVE (i - 1) \in Exist(c).bits <=> i \in there
    <2>1. \A j \in there : j \in 1 .. n BY DEF there
    <2>2. \A j \in 1 .. n : j - 1 = i - 1 => j = i BY SMTT(20)
    <2>3. (i - 1) \in {j - 1 : j \in there} <=> i \in there BY <2>1, <2>2
    <2> QED BY <1>5, <2>3
<1>7. \A b \in Exist(c).bits : b < 8 * bytes
    BY <1>4, <1>5 DEF there
<1>8. \A i \in DOMAIN c.keys : (i - 1) \in Exist(c).bits <=> kv[<<c.space, c.keys[i]>>] # None
    BY <1>1, <1>6 DEF there
<1>9. Exist(c).len <= c.size
    <2>1. PICK size \in Nat : size = c.size OBVIOUS
    <2>2. ~(bytes > size) => bytes <= size BY SMTT(20)
    <2> QED BY <1>3, <2>1, <2>2
<1> QED BY <1>3, <1>7, <1>8, <1>9

\* The step property of ExistExact.
ExistStep ==
    Answered("exist") /\ reply'.code = "success" /\ ~reply'.failed =>
    LET c == reply'.call
        asked == IF driver = "user" THEN {1} ELSE DOMAIN c.keys
    IN /\ reply'.len <= c.size
       /\ \A b \in reply'.bits : b < 8 * reply'.len
       /\ \A i \in asked : (i - 1) \in reply'.bits <=> kv[<<c.space, c.keys[i]>>] # None

\* Every step that answers an exist answers it exactly.
LEMMA ExistStepHolds ==
    ASSUME Typed, [AllNext]_vars
    PROVE  ExistStep
<1> SUFFICES ASSUME Answered("exist"), reply'.code = "success", ~reply'.failed
             PROVE  LET c == reply'.call
                        asked == IF driver = "user" THEN {1} ELSE DOMAIN c.keys
                    IN /\ reply'.len <= c.size
                       /\ \A b \in reply'.bits : b < 8 * reply'.len
                       /\ \A i \in asked : (i - 1) \in reply'.bits <=> kv[<<c.space, c.keys[i]>>] # None
    BY DEF ExistStep
<1>1. (driver = "emul" /\ Execute) \/ SsdExecute
    BY OnlyExecuted DEF Answered
<1>2. CASE driver = "emul" /\ Execute
    <2>1. flight # <<>> BY <1>2 DEF Execute, ExecuteWrite, ExecuteRead
    <2>2. PICK c \in Calls : c = Head(flight) /\ c = flight[1] /\ 1 \in DOMAIN flight
        BY <2>1, FirstOut DEF Typed
    <2>3. c.op = "exist" /\ reply' = Exist(c) /\ reply'.call = c
        <3>1. CASE ExecuteWrite
            <4>1. reply'.call = c /\ c.op # "exist" BY <2>2, <3>1, SMTT(20) DEF ExecuteWrite, Reply
            <4> QED BY <4>1 DEF Answered
        <3>2. CASE ExecuteRead
            <4>1. CASE c.op = "exist" BY <2>2, <3>2, <4>1 DEF ExecuteRead, Exist, Reply
            <4>2. CASE c.op = "retrieve"
                <5>1. reply'.call = c BY <2>2, <3>2, <4>2 DEF ExecuteRead, Retrieve, Reply
                <5> QED BY <4>2, <5>1 DEF Answered
            <4> QED BY <2>2, <3>2, <4>1, <4>2 DEF ExecuteRead
        <3> QED BY <1>2, <3>1, <3>2 DEF Execute
    <2>4. /\ c.keys \in Seq(Keys) /\ Len(c.keys) \in Nat \ {0} /\ DOMAIN c.keys = 1 .. Len(c.keys)
          /\ c.size \in Nat
        BY <2>2, <2>3, ExistAccepted
    <2> QED BY <1>2, <2>3, <2>4, EmulExist
<1>3. CASE SsdExecute
    <2>1. PICK i \in DOMAIN flight : SsdWrite(i) \/ SsdRetrieve(i) \/ SsdExist(i) \/ SsdFails(i)
        BY <1>3 DEF SsdExecute
    <2>2. driver \in {"kernel", "user"} BY <1>3 DEF SsdExecute, DeviceDriver
    <2>3. PICK c \in Calls : c = flight[i] BY InFlight
    <2>4. CASE SsdWrite(i)
        <3>1. reply'.call = c /\ c.op # "exist" BY <2>3, <2>4 DEF SsdWrite, Reply
        <3> QED BY <3>1 DEF Answered
    <2>5. CASE SsdRetrieve(i)
        <3>1. reply'.call = c /\ c.op # "exist"
            BY <2>3, <2>5, RetrievedCodes DEF SsdRetrieve
        <3> QED BY <3>1 DEF Answered
    <2>6. CASE SsdFails(i)
        <3>1. PICK r \in FailedAnswers(c) : reply' = [r EXCEPT !.failed = TRUE]
            BY <2>3, <2>6 DEF SsdFails
        <3> QED BY <2>2, <3>1, FailedCodes DEF DeviceDriver
    <2>7. CASE SsdExist(i)
        <3>1. c.op = "exist" BY <2>3, <2>7 DEF SsdExist
        <3>2. /\ reply'.call = c /\ reply'.len = 1
              /\ reply'.bits = IF kv[<<c.space, c.keys[1]>>] # None THEN {0} ELSE {}
            BY <2>3, <2>7 DEF SsdExist, Reply
        <3>3. c.size \in Nat /\ c.size >= 1 /\ (driver = "kernel" => DOMAIN c.keys = {1})
            BY <2>3, <3>1, ExistAccepted, SMTT(20)
        <3>4. (IF driver = "user" THEN {1} ELSE DOMAIN c.keys) = {1}
            BY <2>2, <3>3
        <3>5. \A j \in {1} : (j - 1) \in reply'.bits <=> kv[<<c.space, c.keys[j]>>] # None
            BY <3>2, SMTT(20)
        <3>6. reply'.len <= c.size /\ \A b \in reply'.bits : b < 8 * reply'.len
            BY <3>2, <3>3, SMTT(20)
        <3> QED BY <3>2, <3>4, <3>5, <3>6
    <2> QED BY <2>1, <2>4, <2>5, <2>6, <2>7
<1> QED BY <1>1, <1>2, <1>3

\* kvs_exist_kv_pairs sets the bit of a key exactly when the key exists, and no bit
\* outside the bytes it reports, for any number of keys and any buffer.
THEOREM ExistCorrect == AllSpec => ExistExact
<1>1. Typed /\ [AllNext]_vars => [ExistStep]_vars
    BY ExistStepHolds
<1> QED BY <1>1, TypedCorrect, PTL DEF AllSpec, ExistExact, ExistStep

============================================================================

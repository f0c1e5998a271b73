---------------------------- MODULE EmulDriver -----------------------------
(***************************************************************************)
(* KvEmulator (api/src/driver_adapter/kvemuldriver.cpp): the adapter that  *)
(* carries the key-value calls of the API to the emulator.  A call takes a *)
(* context from a pool, submits a command that points to it, and either    *)
(* returns (asynchronous) or waits for done_sync in that context           *)
(* (synchronous).  on_io_complete runs on the interrupt thread: it wakes   *)
(* the synchronous caller, which gives the context back, or calls the      *)
(* application's function and gives the context back itself.               *)
(*                                                                         *)
(* The queue pair below is the service of module FifoService, which module *)
(* EmulQueue implements; Room is the number of commands the pair holds.    *)
(***************************************************************************)
EXTENDS FifoService, FiniteSets, Functions

CONSTANTS
    Sync,       \* the requests made with syncio (Cmds are the requests)
    Nested,     \* the requests that a post-process function makes
    Invalid,    \* the requests that are refused before a command is queued
    Pools,      \* the sets of kv_emul_context objects the pool may be made of
    Room,       \* commands the queue pair holds before enqueue waits
    Threads,    \* application threads that call at the same time
    Null        \* no context, no request

ASSUME DriverAssumption ==
    /\ Room \in Nat \ {0} /\ Threads \in Nat \ {0}
    /\ Sync \subseteq Cmds /\ Nested \subseteq Cmds /\ Invalid \subseteq Cmds
    /\ Sync \cap Nested = {} /\ Null \notin Cmds \cup UNION Pools
    /\ \A C \in Pools : IsFiniteSet(C)

VARIABLES
    pool,      \* kv_ctx_pool, a std::queue
    pc,        \* pc[r]: where the call for request r stands
    ctxOf,     \* ctxOf[r]: the context that request r holds
    result,    \* result[c]: iocb.result of context c, as the request it is for
    done,      \* the contexts whose done_sync is 1
    reaper,    \* the interrupt thread
    returned,  \* returned[r]: what the call for r returned
    delivered  \* the requests given to a post-process function, in order

driverVars == <<pool, pc, ctxOf, result, done, reaper, returned, delivered, accepted, posted, open>>

\* The contexts that KvEmulator::init allocated (MAX_POOLSIZE of them).
Ctxs == DOMAIN result

\* The pool after KvEmulator::init pushed each of its contexts.
Filled(C) == CHOOSE s \in [1 .. Cardinality(C) -> C] : IsInjective(s)

\* KvEmulator::init: the pool is filled, the device is open.
DriverInit == /\ FifoInit
              /\ result \in {[c \in C |-> Null] : C \in Pools}
              /\ pool = Filled(Ctxs)
              /\ pc = [r \in Cmds |-> "idle"]
              /\ ctxOf = [r \in Cmds |-> Null]
              /\ done = {}
              /\ reaper = [pc |-> "loop", req |-> Null]
              /\ returned = [r \in Cmds |-> "none"]
              /\ delivered = <<>>

Inside(r) == pc[r] \in {"alloc", "prep", "wait"}
Outstanding == Len(accepted) - Len(posted)

(***************************************************************************)
(* The pool.                                                               *)
(***************************************************************************)

\* malloc_context and the rest of prep_io_context.
TakeContext(r) ==
    LET c == Head(pool) IN
    /\ pool' = Tail(pool)
    /\ ctxOf' = [ctxOf EXCEPT ![r] = c]
    /\ done' = done \ {c}
    /\ pc' = [pc EXCEPT ![r] = "prep"]

\* free_context: cleared with memset, pushed, one waiter notified.
FreeContext(r) ==
    LET c == ctxOf[r] IN
    /\ result' = [result EXCEPT ![c] = Null]
    /\ pool' = Append(pool, c)
    /\ ctxOf' = [ctxOf EXCEPT ![r] = Null]

(***************************************************************************)
(* A call: store_tuple, retrieve_tuple, delete_tuple, exist_tuple,         *)
(* create_iterator, delete_iterator and iterator_next share these steps.   *)
(***************************************************************************)
\* A post-process function makes its calls one after the other.
MayCall(r) == IF r \in Nested THEN reaper.pc = "callback" /\ \A q \in Nested : ~Inside(q)
              ELSE open /\ Cardinality({q \in Cmds \ Nested : Inside(q)}) < Threads

\* prep_io_context, up to its end or to the wait for ctx_pool_notfull.
Call(r) ==
    /\ pc[r] = "idle" /\ MayCall(r)
    /\ \/ pool # <<>> /\ TakeContext(r)
       \/ /\ pool = <<>>
          /\ pc' = [pc EXCEPT ![r] = "alloc"] /\ UNCHANGED <<pool, ctxOf, done>>
    /\ UNCHANGED <<result, reaper, returned, delivered, fifoVars>>

\* The wait in malloc_context ends: it has no timeout.
Alloc(r) ==
    /\ pc[r] = "alloc" /\ pool # <<>>
    /\ TakeContext(r)
    /\ UNCHANGED <<result, reaper, returned, delivered, fifoVars>>

\* A wrong option, an invalid argument or a queue in shutdown: the command is
\* not queued, and the call gives the context back.
RefuseCommand(r) ==
    /\ pc[r] = "prep" /\ (r \in Invalid \/ ~open)
    /\ FreeContext(r)
    /\ pc' = [pc EXCEPT ![r] = "done"]
    /\ returned' = [returned EXCEPT ![r] = "refused"]
    /\ UNCHANGED <<done, reaper, delivered, fifoVars>>

\* The ADI call queues the command.
SubmitCommand(r) ==
    /\ pc[r] = "prep" /\ r \notin Invalid /\ open /\ Outstanding < Room
    /\ FifoAccept(r)
    /\ IF r \in Sync
       THEN pc' = [pc EXCEPT ![r] = "wait"] /\ UNCHANGED returned
       ELSE /\ pc' = [pc EXCEPT ![r] = "done"]
            /\ returned' = [returned EXCEPT ![r] = "queued"]
    /\ UNCHANGED <<pool, ctxOf, result, done, reaper, delivered>>

\* Mutant: the caller does not test done_sync before it waits no more.
WakeEarly(r) ==
    /\ pc[r] = "wait"
    /\ returned' = [returned EXCEPT ![r] = IF result[ctxOf[r]] = r THEN "own" ELSE "other"]
    /\ FreeContext(r)
    /\ pc' = [pc EXCEPT ![r] = "done"]
    /\ UNCHANGED <<done, reaper, delivered, fifoVars>>

\* The synchronous caller sees done_sync, reads the result, frees the context.
Wake(r) ==
    /\ pc[r] = "wait" /\ ctxOf[r] \in done
    /\ returned' = [returned EXCEPT ![r] = IF result[ctxOf[r]] = r THEN "own" ELSE "other"]
    /\ FreeContext(r)
    /\ pc' = [pc EXCEPT ![r] = "done"]
    /\ UNCHANGED <<done, reaper, delivered, fifoVars>>

(***************************************************************************)
(* on_io_complete, on the interrupt thread.                                *)
(***************************************************************************)
\* The command the pair completes next.
Oldest == accepted[Len(posted) + 1]

\* Mutant: done_sync is set only when somebody already waits.
CompleteSyncDeaf ==
    /\ reaper.pc = "loop" /\ FifoPost /\ Oldest \in Sync
    /\ LET c == ctxOf[Oldest] IN
       /\ result' = [result EXCEPT ![c] = Oldest]
       /\ UNCHANGED done
    /\ UNCHANGED <<pool, pc, ctxOf, reaper, returned, delivered>>

\* syncio: the result, then done_sync and the notification.
CompleteSync ==
    /\ reaper.pc = "loop" /\ FifoPost /\ Oldest \in Sync
    /\ LET c == ctxOf[Oldest] IN
       /\ result' = [result EXCEPT ![c] = Oldest]
       /\ done' = done \cup {c}
    /\ UNCHANGED <<pool, pc, ctxOf, reaper, returned, delivered>>

\* Mutant: a completion with an error is not reported.
CompleteAsyncMute ==
    /\ reaper.pc = "loop" /\ FifoPost /\ Oldest \notin Sync
    /\ result' = [result EXCEPT ![ctxOf[Oldest]] = Oldest]
    /\ reaper' = [pc |-> "callback", req |-> Oldest]
    /\ UNCHANGED <<pool, pc, ctxOf, done, returned, delivered>>

\* Otherwise on_complete is called with the context's iocb.
CompleteAsync ==
    /\ reaper.pc = "loop" /\ FifoPost /\ Oldest \notin Sync
    /\ result' = [result EXCEPT ![ctxOf[Oldest]] = Oldest]
    /\ delivered' = Append(delivered, Oldest)
    /\ reaper' = [pc |-> "callback", req |-> Oldest]
    /\ UNCHANGED <<pool, pc, ctxOf, done, returned>>

\* Mutant: the context is not given back after the callback.
CallbackReturnLeak ==
    /\ reaper.pc = "callback"
    /\ \A r \in Nested : ~Inside(r)
    /\ ctxOf' = [ctxOf EXCEPT ![reaper.req] = Null]
    /\ UNCHANGED <<pool, result>>
    /\ reaper' = [pc |-> "loop", req |-> Null]
    /\ UNCHANGED <<pc, done, returned, delivered, fifoVars>>

\* Mutant: the context is given back under a lock that the destructor holds.
CallbackReturnLocked ==
    /\ reaper.pc = "callback" /\ open
    /\ \A r \in Nested : ~Inside(r)
    /\ FreeContext(reaper.req)
    /\ reaper' = [pc |-> "loop", req |-> Null]
    /\ UNCHANGED <<pc, done, returned, delivered, fifoVars>>

\* on_complete returns, once its own calls have; then free_context.
CallbackReturn ==
    /\ reaper.pc = "callback"
    /\ \A r \in Nested : ~Inside(r)
    /\ FreeContext(reaper.req)
    /\ reaper' = [pc |-> "loop", req |-> Null]
    /\ UNCHANGED <<pc, done, returned, delivered, fifoVars>>

(***************************************************************************)
(* ~KvEmulator, called when no application thread is inside a call.        *)
(***************************************************************************)
\* The last reference to the driver goes when no thread is inside a call.
MayClose == \A r \in Cmds \ Nested : ~Inside(r)

\* The free contexts are deleted and the queues go into shutdown.
Close ==
    /\ MayClose /\ FifoShutdown
    /\ pool' = <<>>
    /\ UNCHANGED <<pc, ctxOf, result, done, reaper, returned, delivered>>

\* kv_delete_queue joins the interrupt thread; what is still queued is dropped.
Join ==
    /\ ~open /\ reaper.pc = "loop"
    /\ reaper' = [reaper EXCEPT !.pc = "gone"]
    /\ UNCHANGED <<pool, pc, ctxOf, result, done, returned, delivered, fifoVars>>

CallStep(r) == Call(r) \/ Alloc(r) \/ RefuseCommand(r) \/ SubmitCommand(r) \/ Wake(r)
ReaperStep == CompleteSync \/ CompleteAsync \/ CallbackReturn

DriverNext == (\E r \in Cmds : CallStep(r)) \/ ReaperStep \/ Close \/ Join

\* A call that has begun goes on, and so does the interrupt thread; the end of
\* the device is awaited by the thread that closes it.  Nobody is made to call
\* or to close.
Fairness == /\ \A r \in Cmds : WF_driverVars(pc[r] # "idle" /\ CallStep(r))
            /\ WF_driverVars(ReaperStep) /\ WF_driverVars(Join)

DriverSpec == DriverInit /\ [][DriverNext]_driverVars
FairSpec == DriverSpec /\ Fairness

(***************************************************************************)
(* Properties.                                                             *)
(***************************************************************************)
Holders == {r \in Cmds : ctxOf[r] # Null}

\* malloc_context / free_context: while the device is open every context is
\* either once in kv_ctx_pool or held by exactly one request, whatever path
\* (refusal, wake-up, callback) the requests leave by.
PoolPartition ==
    open => /\ IsInjective(pool)
            /\ \A r \in Holders : ctxOf[r] \notin Range(pool)
            /\ \A r, q \in Holders : ctxOf[r] = ctxOf[q] => r = q
            /\ Range(pool) \cup {ctxOf[r] : r \in Holders} = Ctxs

\* on_io_complete fills the context that its own caller waits on: a synchronous
\* call never returns the result of another request that shares the context.
OwnResult == \A r \in Cmds : returned[r] # "other"

\* MAX_POOLSIZE contexts for the commands in the queues, one in a callback, one
\* taken by that callback and one per calling thread: with so many contexts no
\* call ever waits in malloc_context while the device is open.
NeverStarved ==
    open /\ Cardinality(Ctxs) >= Room + Threads + 2 => \A r \in Cmds : pc[r] # "alloc"

\* A callback is inside a call of its own: for ever, if it waits for a context or
\* for room in the queues, which only its own thread can make.
CallbackInside == \E r \in Nested : Inside(r)

\* store_tuple with syncio: a synchronous call comes back, unless the
\* interrupt thread is held for ever by a callback's own call.
SyncReturns == \A r \in Sync : pc[r] # "idle" ~> (pc[r] = "done" \/ []CallbackInside)

\* An asynchronous request that was queued gets its post-process function called,
\* unless the device is closed first or a callback is held for ever.
AsyncDelivered == \A r \in Cmds \ Sync :
    returned[r] = "queued" ~> \/ ~open \/ []CallbackInside
                              \/ \E i \in DOMAIN delivered : delivered[i] = r

\* ~KvEmulator gets past the removal of the queues, with whatever is queued or in
\* a callback, unless that callback is held for ever in a call of its own.
CloseEnds == ~open ~> (reaper.pc = "gone" \/ []CallbackInside)

============================================================================

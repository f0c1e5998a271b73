------------------------------ MODULE KadiAio ------------------------------
(***************************************************************************)
(* The asynchronous path to a real device: KDDriver                        *)
(* (api/src/driver_adapter/kvkdd.cpp) over KADI                            *)
(* (device_abstract_layer/kernel_driver_adapter/kadi.cpp) over the event   *)
(* list that the NVMe driver keeps for one aio context (core.c).           *)
(*                                                                         *)
(* A call takes one of qdepth command contexts, whose index is the request *)
(* id the kernel gives back, and issues an ioctl.  A kernel worker appends *)
(* the finished request to kaiocb_list and then signals the eventfd, in    *)
(* two steps.  KADI's thread reads the eventfd's count, fetches that many  *)
(* events, and for each one finds the pending context, calls its function  *)
(* and releases the context.  That function wakes the synchronous caller   *)
(* or calls the application.                                               *)
(***************************************************************************)
EXTENDS Integers, Sequences, FiniteSets

CONSTANTS
    Reqs,        \* the requests
    Sync,        \* those made with syncio
    Nested,      \* those that a post-process function makes
    Exist,       \* those made by exist_tuple
    Invalid,     \* those with an option trans_store_cmd_opt refuses
    QDepth,      \* qdepth
    MaxEvents,   \* MAX_AIO_EVENTS
    Threads,     \* application threads that call at the same time
    SubmitFails, \* TRUE: NVME_IOCTL_AIO_CMD may fail
    FetchFails,  \* TRUE: NVME_IOCTL_GET_AIOEVENT may fail
    None         \* no request

ASSUME KadiAssumption ==
    /\ QDepth \in Nat \ {0} /\ MaxEvents \in Nat \ {0} /\ Threads \in Nat \ {0}
    /\ {Sync, Nested, Exist, Invalid} \subseteq SUBSET Reqs
    /\ Sync \cap Nested = {} /\ Exist \cap Invalid = {} /\ None \notin Reqs
    /\ {SubmitFails, FetchFails} \subseteq BOOLEAN

VARIABLES
    free,      \* free_cmdctxs, a vector used as a stack
    pending,   \* pending[c]: the request that holds context c (pending_cmdctxs)
    pc,        \* pc[r]: where the call for request r stands
    dev,       \* the commands the device works on
    list,      \* kaiocb_list of the aio context
    unsig,     \* events on the list whose eventfd_signal is still to come
    efd,       \* the count of the eventfd
    poll,      \* where KADI's thread stands
    left,      \* eftd_ctx in poll_completion
    batch,     \* the events fetched and not yet handled
    done,      \* the synchronous requests whose done is true
    returned,  \* returned[r]: what the call for r returned
    delivered, \* the requests given to a post-process function, in order
    dropped,   \* history: events whose count a failed fetch dropped
    phase      \* "open", "closing" or "closed"

poolVars == <<free, pending>>
kernelVars == <<dev, list, unsig, efd>>
pollVars == <<poll, left, batch>>
callVars == <<pc, done, returned, delivered, dropped>>
vars == <<poolVars, kernelVars, pollVars, callVars, phase>>

Ctxs == 0 .. QDepth - 1

\* A command: reqid is the index of its context, req the request it was made for.
Events == [reqid : Ctxs, req : Reqs]

\* KADI::open fills free_cmdctxs; create_queue starts the thread.
Init == /\ free = [i \in 1 .. QDepth |-> i - 1]
        /\ pending = [c \in Ctxs |-> None]
        /\ pc = [r \in Reqs |-> "idle"]
        /\ dev = {} /\ list = <<>> /\ unsig = 0 /\ efd = 0
        /\ poll = "loop" /\ left = 0 /\ batch = <<>>
        /\ done = {} /\ returned = [r \in Reqs |-> "none"] /\ delivered = <<>>
        /\ dropped = 0 /\ phase = "open"

(***************************************************************************)
(* The command contexts.                                                   *)
(***************************************************************************)
\* Mutant: the context is read from the vector and not popped.
TakeCtxPeek(r) ==
    /\ pending' = [pending EXCEPT ![free[Len(free)]] = r]
    /\ UNCHANGED free

\* get_cmd_ctx, once the vector is not empty: the last one, marked pending.
TakeCtx(r) ==
    /\ pending' = [pending EXCEPT ![free[Len(free)]] = r]
    /\ free' = SubSeq(free, 1, Len(free) - 1)

\* release_cmd_ctx.
ReleaseCtx(c) ==
    /\ pending' = [pending EXCEPT ![c] = None]
    /\ free' = Append(free, c)

(***************************************************************************)
(* A call: store_tuple, retrieve_tuple, delete_tuple, exist_tuple and      *)
(* iterator_next share these steps.                                        *)
(***************************************************************************)
Inside(r) == pc[r] \in {"ask", "have", "wait"}

MayCall(r) == IF r \in Nested THEN poll = "callback"
              ELSE /\ phase = "open"
                   /\ Cardinality({q \in Reqs \ Nested : Inside(q)}) < Threads

Return(r, what) == /\ pc' = [pc EXCEPT ![r] = "done"]
                   /\ returned' = [returned EXCEPT ![r] = what]

\* prep_io_context; an option that is not valid ends the call at once.
Call(r) ==
    /\ pc[r] = "idle" /\ MayCall(r)
    /\ \/ r \in Invalid /\ Return(r, "refused")
       \/ r \notin Invalid /\ pc' = [pc EXCEPT ![r] = "ask"] /\ UNCHANGED returned
    /\ UNCHANGED <<poolVars, kernelVars, pollVars, done, delivered, dropped, phase>>

\* The wait in get_cmd_ctx: its timeout only prints a line and waits again.
GetCtx(r) ==
    /\ pc[r] = "ask" /\ free # <<>>
    /\ TakeCtx(r)
    /\ pc' = [pc EXCEPT ![r] = "have"]
    /\ UNCHANGED <<kernelVars, pollVars, done, returned, delivered, dropped, phase>>

\* The call comes back with KV_SUCCESS from KADI: it waits or returns.
Accepted(r) == IF r \in Sync THEN pc' = [pc EXCEPT ![r] = "wait"] /\ UNCHANGED returned
               ELSE Return(r, "queued")

\* The ioctl hands the command to the device.
Submit(r) ==
    /\ pc[r] = "have"
    /\ \E c \in Ctxs : pending[c] = r /\ dev' = dev \cup {[reqid |-> c, req |-> r]}
    /\ Accepted(r)
    /\ UNCHANGED <<poolVars, list, unsig, efd, pollVars, done, delivered, dropped, phase>>

\* The ioctl fails: the context is released and the call returns KV_ERR_SYS_IO,
\* except in KADI::exist, a bool function that returns KADI_ERR_IO, that is true,
\* which kv_exist takes for success.
SubmitFailed(r) ==
    /\ SubmitFails /\ pc[r] = "have"
    /\ \E c \in Ctxs : pending[c] = r /\ ReleaseCtx(c)
    /\ IF r \in Exist THEN Accepted(r) ELSE Return(r, "failed")
    /\ UNCHANGED <<kernelVars, pollVars, done, delivered, dropped, phase>>

\* wait_for_io ends.
Wake(r) ==
    /\ pc[r] = "wait" /\ r \in done
    /\ Return(r, "ok")
    /\ UNCHANGED <<poolVars, kernelVars, pollVars, done, delivered, dropped, phase>>

(***************************************************************************)
(* The NVMe driver: kv_complete_aio_fn on a per-CPU worker.                *)
(***************************************************************************)
\* set_aioctx_event: the event goes to the tail of kaiocb_list.  The workers of
\* several CPUs finish commands in any order.  Once the context is deleted the
\* event is freed.
Complete(e) ==
    /\ dev' = dev \ {e}
    /\ IF phase = "closed" THEN UNCHANGED <<list, unsig>>
       ELSE list' = Append(list, e) /\ unsig' = unsig + 1
    /\ UNCHANGED <<efd, poolVars, pollVars, callVars, phase>>

\* Mutant: the eventfd is a flag and not a count.
SignalFlag ==
    /\ unsig > 0
    /\ unsig' = unsig - 1 /\ efd' = 1
    /\ UNCHANGED <<dev, list, poolVars, pollVars, callVars, phase>>

\* set_aioctx_event, after the spinlock is released: eventfd_signal.
Signal ==
    /\ unsig > 0
    /\ unsig' = unsig - 1 /\ efd' = efd + 1
    /\ UNCHANGED <<dev, list, poolVars, pollVars, callVars, phase>>

(***************************************************************************)
(* KADI's thread: KDThread::entry and poll_completion.                     *)
(***************************************************************************)
\* while (!stop_): into select.
Enter ==
    /\ poll = "loop" /\ phase = "open"
    /\ poll' = "select"
    /\ UNCHANGED <<left, batch, poolVars, kernelVars, callVars, phase>>

\* Mutant: select is called without a timeout.
TimeOutNever ==
    /\ poll = "select" /\ efd = 0 /\ phase = "closed"
    /\ poll' = "loop"
    /\ UNCHANGED <<left, batch, poolVars, kernelVars, callVars, phase>>

\* select times out.
TimeOut ==
    /\ poll = "select" /\ efd = 0
    /\ poll' = "loop"
    /\ UNCHANGED <<left, batch, poolVars, kernelVars, callVars, phase>>

\* select returns and read takes the whole count of the eventfd.
ReadCount ==
    /\ poll = "select" /\ efd > 0
    /\ left' = efd /\ efd' = 0
    /\ poll' = "fetch"
    /\ UNCHANGED <<batch, dev, list, unsig, poolVars, callVars, phase>>

Least(S) == CHOOSE n \in S : \A k \in S : n <= k

\* The loops of poll_completion: over the events, then over the count.
Onward(b, n) == IF b # <<>> THEN "handle" ELSE IF n > 0 THEN "fetch" ELSE "loop"

\* Mutant: one round of events is taken for the whole count.
FetchOnce ==
    /\ poll = "fetch"
    /\ LET got == Least({left, MaxEvents, QDepth, Len(list)})
       IN /\ batch' = [i \in 1 .. got |-> list[got + 1 - i]]
          /\ list' = SubSeq(list, got + 1, Len(list))
    /\ left' = 0
    /\ poll' = Onward(batch', 0)
    /\ UNCHANGED <<dev, unsig, efd, poolVars, callVars, phase>>

\* nvme_get_ioevents moves up to nr events from the head of the list, each to the
\* head of the reply.
Fetch ==
    /\ poll = "fetch"
    /\ LET nr == Least({left, MaxEvents, QDepth})
           got == Least({nr, Len(list)})
       IN /\ batch' = [i \in 1 .. got |-> list[got + 1 - i]]
          /\ list' = SubSeq(list, got + 1, Len(list))
          /\ left' = left - nr
    /\ poll' = Onward(batch', left')
    /\ UNCHANGED <<dev, unsig, efd, poolVars, callVars, phase>>

\* The ioctl fails: poll_completion returns, and with it goes eftd_ctx.
FetchFailed ==
    /\ FetchFails /\ poll = "fetch"
    /\ poll' = "loop" /\ left' = 0
    /\ dropped' = dropped + left
    /\ UNCHANGED <<batch, poolVars, kernelVars, pc, done, returned, delivered, phase>>

\* get_cmdctx: the request whose context is pending under the event's reqid.
Owner == pending[batch[1].reqid]

\* Mutant: kdd_on_io_complete notifies without setting done.
HandleSyncDeaf ==
    /\ poll = "handle" /\ Owner \in Sync
    /\ poll' = "release" /\ UNCHANGED done
    /\ UNCHANGED <<left, batch, poolVars, kernelVars, pc, returned, delivered, dropped, phase>>

\* kdd_on_io_complete with syncio: done and the notification.
HandleSync ==
    /\ poll = "handle" /\ Owner \in Sync
    /\ done' = done \cup {Owner}
    /\ poll' = "release"
    /\ UNCHANGED <<left, batch, poolVars, kernelVars, pc, returned, delivered, dropped, phase>>

\* Otherwise the application's function is called.
HandleAsync ==
    /\ poll = "handle" /\ Owner \in Reqs \ Sync
    /\ delivered' = Append(delivered, Owner)
    /\ poll' = "callback"
    /\ UNCHANGED <<left, batch, poolVars, kernelVars, pc, done, returned, dropped, phase>>

\* It returns, once its own calls have.
CallbackReturn ==
    /\ poll = "callback" /\ \A r \in Nested : ~Inside(r)
    /\ poll' = "release"
    /\ UNCHANGED <<left, batch, poolVars, kernelVars, callVars, phase>>

\* Only now the context of the event is released.
Release ==
    /\ poll = "release"
    /\ ReleaseCtx(batch[1].reqid)
    /\ batch' = Tail(batch)
    /\ poll' = Onward(batch', left)
    /\ UNCHANGED <<left, kernelVars, callVars, phase>>

(***************************************************************************)
(* ~KDDriver, called when no application thread is inside a call.          *)
(***************************************************************************)
MayClose == \A r \in Reqs \ Nested : ~Inside(r)

\* KADI::close sets stop_ ...
Close ==
    /\ phase = "open" /\ MayClose
    /\ phase' = "closing"
    /\ UNCHANGED <<poolVars, kernelVars, pollVars, callVars>>

\* ... joins the thread, frees the free contexts and deletes the aio context.
Join ==
    /\ phase = "closing" /\ poll = "loop"
    /\ phase' = "closed"
    /\ poll' = "gone"
    /\ list' = <<>> /\ unsig' = 0 /\ efd' = 0
    /\ UNCHANGED <<poolVars, dev, left, batch, callVars>>

CallStep(r) == GetCtx(r) \/ Submit(r) \/ SubmitFailed(r) \/ Wake(r)
KernelStep == (\E e \in dev : Complete(e)) \/ Signal
PollStep == \/ Enter \/ TimeOut \/ ReadCount \/ Fetch \/ FetchFailed
            \/ HandleSync \/ HandleAsync \/ CallbackReturn \/ Release

Next == \/ \E r \in Reqs : Call(r) \/ CallStep(r)
        \/ KernelStep \/ PollStep \/ Close \/ Join

\* A call that has begun goes on, KADI's thread and the kernel's workers run, and
\* the device answers every command.  Nobody is made to call or to close.
Fairness == /\ \A r \in Reqs : WF_vars(CallStep(r))
            /\ WF_vars(KernelStep) /\ WF_vars(PollStep) /\ WF_vars(Join)

Spec == Init /\ [][Next]_vars
FairSpec == Spec /\ Fairness

(***************************************************************************)
(* Properties.                                                             *)
(***************************************************************************)

\* Every variable has its type, and KADI's thread has an event in hand whenever it
\* handles or releases one.
TypeOK ==
    /\ free \in Seq(Ctxs) /\ pending \in [Ctxs -> Reqs \cup {None}]
    /\ pc \in [Reqs -> {"idle", "ask", "have", "wait", "done"}]
    /\ dev \in SUBSET Events /\ list \in Seq(Events) /\ batch \in Seq(Events)
    /\ unsig \in Nat /\ efd \in Nat /\ left \in Nat
    /\ poll \in {"loop", "select", "fetch", "handle", "callback", "release", "gone"}
    /\ poll \in {"handle", "callback", "release"} => batch # <<>>
    /\ done \in SUBSET Reqs
    /\ returned \in [Reqs -> {"none", "ok", "queued", "refused", "failed"}]
    /\ delivered \in Seq(Reqs) /\ dropped \in Nat
    /\ phase \in {"open", "closing", "closed"}

\* get_cmd_ctx and release_cmd_ctx: a context is in free_cmdctxs, once, exactly
\* when it is not in pending_cmdctxs, and two contexts are never pending for the
\* same request.
PoolPartition ==
    /\ \A i, j \in DOMAIN free : free[i] = free[j] => i = j
    /\ \A c \in Ctxs : pending[c] = None <=> \E i \in DOMAIN free : free[i] = c
    /\ \A c, d \in Ctxs : pending[c] = pending[d] /\ pending[c] # None => c = d

\* poll_completion looks the event's reqid up when the command may be long gone
\* from the device: wherever a command or its event is, its context is still
\* pending, and for the request that the command was made for.
EventOwner ==
    /\ \A e \in dev : pending[e.reqid] = e.req
    /\ \A i \in DOMAIN list : pending[list[i].reqid] = list[i].req
    /\ \A i \in DOMAIN batch : pending[batch[i].reqid] = batch[i].req

\* set_aioctx_event and poll_completion: the events on the kernel's list are as
\* many as the signals to come, the eventfd's count, the rest of the count that was
\* read, and what failed fetches dropped.  No other event is stranded without a
\* signal, and nvme_get_ioevents always has the nr events it is asked for.
Counted == phase # "closed" => Len(list) = unsig + efd + left + dropped

\* kdd_on_io_complete: an asynchronous request is handed to its post-process
\* function at most once, and never if its call returns an error.
DeliveredOnce ==
    /\ \A i, j \in DOMAIN delivered : delivered[i] = delivered[j] => i = j
    /\ \A i \in DOMAIN delivered : returned[delivered[i]] = "queued"

\* A callback is inside a call of its own: for ever, if it waits for a context,
\* which only its own thread can release.
CallbackInside == \E r \in Nested : Inside(r)

\* What stops the event thread for good, or takes an event from it.
Stopped == dropped > 0 \/ []CallbackInside

\* store_tuple, retrieve_tuple, delete_tuple: a synchronous call that waits comes
\* back, and an asynchronous one that asks for a command context gets it and returns,
\* unless a fetch failed or a callback is held for ever by its own call.
CallsReturn ==
    /\ \A r \in Sync \ Exist : pc[r] = "wait" ~> (pc[r] = "done" \/ Stopped)
    /\ \A r \in Reqs \ Sync : pc[r] = "ask" ~> (pc[r] = "done" \/ Stopped)

\* exist_tuple with syncio: a call that waits comes back.
ExistReturns == \A r \in Sync \cap Exist : pc[r] = "wait" ~> (pc[r] = "done" \/ Stopped)

\* A request that was queued gets its post-process function called, unless the
\* device is closed first, with the same exceptions.
AsyncDelivered == \A r \in Reqs \ (Sync \cup Exist) :
    returned[r] = "queued" ~> \/ phase # "open" \/ Stopped
                              \/ \E i \in DOMAIN delivered : delivered[i] = r

\* KADI::close gets past the join of its thread, with whatever is pending, unless
\* a callback is held for ever.
CloseEnds == phase = "closing" ~> (phase = "closed" \/ []CallbackInside)

============================================================================

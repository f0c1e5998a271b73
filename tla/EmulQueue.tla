----------------------------- MODULE EmulQueue -----------------------------
(***************************************************************************)
(* The submission / completion queue pair of the device emulator           *)
(* (emulator/src/queue.cpp, include/private/queue.hpp): application        *)
(* threads push commands on the submission queue, one worker thread moves  *)
(* them to the completion queue, one reaper (the interrupt thread, or the  *)
(* application thread that polls) calls their post-process functions, and  *)
(* the two queues are terminated and deleted one after the other.          *)
(*                                                                         *)
(* Every step is one critical section of a queue's list_mutex, or one      *)
(* step a thread makes between two of them.  A thread that waits on a      *)
(* condition variable does so with a 10 microsecond timeout, so it sees    *)
(* its condition without depending on the notification.                    *)
(***************************************************************************)
EXTENDS Naturals, Sequences

CONSTANTS
    Cmds,       \* the io_cmd objects, each submitted at most once
    Chained,    \* the commands that only a post-process function submits
    SqDepth,    \* queue_size of the submission queue
    CqDepth,    \* queue_size of the completion queue
    Polling,    \* TRUE: kv_poll_completion reaps; FALSE: the interrupt thread
    DrainFirst, \* TRUE: the application closes only once all is completed
    CqFirst,    \* TRUE: cleanup meets the completion queue before the other
    NoCmd       \* a thread holds no command

ASSUME DepthAssumption == SqDepth \in Nat \ {0} /\ CqDepth \in Nat \ {0}
ASSUME CmdAssumption == NoCmd \notin Cmds /\ Chained \subseteq Cmds
ASSUME ModeAssumption == {Polling, DrainFirst, CqFirst} \subseteq BOOLEAN

VARIABLES
    sq, cq,           \* the circular buffers
    sqState, cqState, \* "open", "down" (shutdown raised) or "gone" (deleted)
    call,             \* call[c]: where the submit_io call for c stands
    worker,           \* the thread of process_submitted_commands
    reaper,           \* the thread of process_interrupts, or the poller
    wild,             \* the kinds of thread that used a queue after its deletion
    accepted,         \* history: the commands enqueue accepted, in order
    posted            \* history: the commands whose post_fn was called, in order

vars == <<sq, cq, sqState, cqState, call, worker, reaper, wild, accepted, posted>>

Idle == [pc |-> "loop", cmd |-> NoCmd]
Exited == [pc |-> "exit", cmd |-> NoCmd]

Init == /\ sq = <<>> /\ cq = <<>>
        /\ sqState = "open" /\ cqState = "open"
        /\ call = [c \in Cmds |-> "idle"]
        /\ worker = Idle /\ reaper = Idle
        /\ wild = {}
        /\ accepted = <<>> /\ posted = <<>>

(***************************************************************************)
(* The two halves of emul_ioqueue.                                         *)
(***************************************************************************)

\* boost::circular_buffer::push_back: a full buffer overwrites its front.
PushBack(q, c, depth) == Append(IF Len(q) = depth THEN Tail(q) ELSE q, c)

\* Mutant: one wait for notFull instead of the loop around it.
WaitOnce(q, depth, state) == TRUE

\* Mutant: the wait ends one slot too late.
WaitOneMore(q, depth, state) == Len(q) + 1 < depth \/ state # "open"

\* The condition under which enqueue's waiting loop ends.
MayPush(q, depth, state) == Len(q) < depth \/ state # "open"

\* The condition under which dequeue returns a command.
MayPop(q, state) == q # <<>> /\ state = "open"

(***************************************************************************)
(* Submitters.  An application thread calls only while the device is open; *)
(* a chained command is submitted from inside a callback.                  *)
(***************************************************************************)
DeviceOpen == sqState = "open" /\ cqState = "open"

MayCall(c) == IF c \in Chained THEN reaper.pc = "callback" ELSE DeviceOpen

\* enqueue pushes and returns KV_SUCCESS.
Accept(c) == /\ sq' = PushBack(sq, c, SqDepth)
             /\ accepted' = Append(accepted, c)
             /\ call' = [call EXCEPT ![c] = "ok"]

\* A call that reaches the deleted queue reads freed memory: it may be refused,
\* or push into a buffer that nobody will ever read again.
WildCall(c) == /\ wild' = wild \cup {IF c \in Chained THEN "callback" ELSE "submitter"}
               /\ \/ /\ call' = [call EXCEPT ![c] = "refused"]
                     /\ UNCHANGED accepted
                  \/ /\ call' = [call EXCEPT ![c] = "ok"]
                     /\ accepted' = Append(accepted, c)
               /\ UNCHANGED sq

\* submit_io -> enqueue(cmd, true), up to its return or its first wait.
Submit(c) ==
    /\ call[c] = "idle" /\ MayCall(c)
    /\ \/ sqState = "gone" /\ WildCall(c)
       \/ /\ sqState = "down"
          /\ call' = [call EXCEPT ![c] = "refused"]
          /\ UNCHANGED <<sq, accepted, wild>>
       \/ sqState = "open" /\ Len(sq) < SqDepth /\ Accept(c) /\ UNCHANGED wild
       \/ /\ sqState = "open" /\ Len(sq) >= SqDepth
          /\ call' = [call EXCEPT ![c] = "waiting"]
          /\ UNCHANGED <<sq, accepted, wild>>
    /\ UNCHANGED <<cq, sqState, cqState, worker, reaper, posted>>

\* The rest of enqueue, once its waiting loop ends.
SubmitWake(c) ==
    /\ call[c] = "waiting" /\ MayPush(sq, SqDepth, sqState)
    /\ \/ sqState = "gone" /\ WildCall(c)
       \/ sqState # "gone" /\ Accept(c) /\ UNCHANGED wild
    /\ UNCHANGED <<cq, sqState, cqState, worker, reaper, posted>>

(***************************************************************************)
(* process_submitted_commands.                                             *)
(***************************************************************************)

\* dequeue and execute_cmd (its effect on the store is module KvStore's).
WorkerTake ==
    /\ worker.pc = "loop" /\ MayPop(sq, sqState)
    /\ worker' = [pc |-> "put", cmd |-> Head(sq)]
    /\ sq' = Tail(sq)
    /\ UNCHANGED <<cq, sqState, cqState, call, reaper, wild, accepted, posted>>

\* Mutant: out->enqueue(cmd, false) loses the command when the queue is full.
WorkerPutOrDrop ==
    /\ worker.pc = "put"
    /\ cq' = IF cqState = "open" /\ Len(cq) < CqDepth
             THEN PushBack(cq, worker.cmd, CqDepth) ELSE cq
    /\ worker' = Idle
    /\ UNCHANGED <<sq, sqState, cqState, call, reaper, wild, accepted, posted>>

\* out->enqueue(cmd): a queue in shutdown refuses it, and the result is ignored.
WorkerPut ==
    /\ worker.pc = "put"
    /\ \/ /\ cqState # "open"
          /\ worker' = Idle
          /\ wild' = IF cqState = "gone" THEN wild \cup {"worker"} ELSE wild
          /\ UNCHANGED cq
       \/ /\ cqState = "open" /\ Len(cq) < CqDepth
          /\ cq' = PushBack(cq, worker.cmd, CqDepth)
          /\ worker' = Idle /\ UNCHANGED wild
       \/ /\ cqState = "open" /\ Len(cq) >= CqDepth
          /\ worker' = [worker EXCEPT !.pc = "wait"] /\ UNCHANGED <<cq, wild>>
    /\ UNCHANGED <<sq, sqState, cqState, call, reaper, accepted, posted>>

WorkerWake ==
    /\ worker.pc = "wait" /\ MayPush(cq, CqDepth, cqState)
    /\ worker' = Idle
    /\ \/ cqState = "gone" /\ wild' = wild \cup {"worker"} /\ UNCHANGED cq
       \/ cqState # "gone" /\ cq' = PushBack(cq, worker.cmd, CqDepth) /\ UNCHANGED wild
    /\ UNCHANGED <<sq, sqState, cqState, call, reaper, accepted, posted>>

WorkerExit ==
    /\ worker.pc = "loop" /\ sqState # "open"
    /\ worker' = Exited
    /\ UNCHANGED <<sq, cq, sqState, cqState, call, reaper, wild, accepted, posted>>

(***************************************************************************)
(* process_interrupts, or one iteration of poll_completion's loop.         *)
(***************************************************************************)
ReaperTake ==
    /\ reaper.pc = "loop" /\ MayPop(cq, cqState)
    /\ Polling => DeviceOpen
    /\ reaper' = [pc |-> "taken", cmd |-> Head(cq)]
    /\ cq' = Tail(cq)
    /\ UNCHANGED <<sq, sqState, cqState, call, worker, wild, accepted, posted>>

\* call_post_process_func begins.
ReaperPost ==
    /\ reaper.pc = "taken"
    /\ posted' = Append(posted, reaper.cmd)
    /\ reaper' = [pc |-> "callback", cmd |-> NoCmd]
    /\ UNCHANGED <<sq, cq, sqState, cqState, call, worker, wild, accepted>>

\* The callback returns, unless it is blocked in a submission of its own.
ReaperReturn ==
    /\ reaper.pc = "callback" /\ \A c \in Chained : call[c] # "waiting"
    /\ reaper' = Idle
    /\ UNCHANGED <<sq, cq, sqState, cqState, call, worker, wild, accepted, posted>>

\* Mutant: dequeue's loop waits for a command without looking at the shutdown flag.
ReaperExitDeaf ==
    /\ ~Polling /\ reaper.pc = "loop" /\ cqState # "open" /\ cq # <<>>
    /\ reaper' = Exited
    /\ UNCHANGED <<sq, cq, sqState, cqState, call, worker, wild, accepted, posted>>

ReaperExit ==
    /\ ~Polling /\ reaper.pc = "loop" /\ cqState # "open"
    /\ reaper' = Exited
    /\ UNCHANGED <<sq, cq, sqState, cqState, call, worker, wild, accepted, posted>>

(***************************************************************************)
(* The end of the pair.  ~KvEmulator removes the submission queue, then    *)
(* the completion queue; shutdown_all_queues takes them in the order of    *)
(* its hash map.  terminate raises the flag, joins the queue's thread and  *)
(* deletes the commands left in the queue without completing them.         *)
(***************************************************************************)

\* The application has no call in progress when it closes the device.
MayClose == /\ DeviceOpen
            /\ \A c \in Cmds \ Chained : call[c] # "waiting"
            /\ Polling \/ DrainFirst => reaper.pc = "loop"
            /\ DrainFirst => Len(posted) = Len(accepted)

TerminateSq ==
    /\ sqState = "open" /\ (IF CqFirst THEN cqState = "gone" ELSE MayClose)
    /\ sqState' = "down"
    /\ UNCHANGED <<sq, cq, cqState, call, worker, reaper, wild, accepted, posted>>

RemoveSq ==
    /\ sqState = "down" /\ worker.pc = "exit"
    /\ sq' = <<>> /\ sqState' = "gone"
    /\ UNCHANGED <<cq, cqState, call, worker, reaper, wild, accepted, posted>>

\* Mutant: the completion queue is removed without joining the worker.
TerminateCqEarly ==
    /\ cqState = "open" /\ sqState # "open"
    /\ cqState' = "down"
    /\ UNCHANGED <<sq, cq, sqState, call, worker, reaper, wild, accepted, posted>>

TerminateCq ==
    /\ cqState = "open" /\ (IF CqFirst THEN MayClose ELSE sqState = "gone")
    /\ cqState' = "down"
    /\ UNCHANGED <<sq, cq, sqState, call, worker, reaper, wild, accepted, posted>>

RemoveCq ==
    /\ cqState = "down" /\ (Polling \/ reaper.pc = "exit")
    /\ cq' = <<>> /\ cqState' = "gone"
    /\ UNCHANGED <<sq, sqState, call, worker, reaper, wild, accepted, posted>>

Closed == sqState = "gone" /\ cqState = "gone"

Next == \/ \E c \in Cmds : Submit(c) \/ SubmitWake(c)
        \/ WorkerTake \/ WorkerPut \/ WorkerWake \/ WorkerExit
        \/ ReaperTake \/ ReaperPost \/ ReaperReturn \/ ReaperExit
        \/ TerminateSq \/ RemoveSq \/ TerminateCq \/ RemoveCq
        \/ Closed /\ UNCHANGED vars

(***************************************************************************)
(* Every thread that can run does run.  Nothing obliges the application to *)
(* submit or to close.                                                     *)
(***************************************************************************)
WorkerStep == WorkerTake \/ WorkerPut \/ WorkerWake \/ WorkerExit
ReaperStep == ReaperTake \/ ReaperPost \/ ReaperReturn \/ ReaperExit

\* The closing thread goes on once it has terminated the first queue.
Closing == RemoveSq \/ RemoveCq \/ (IF CqFirst THEN TerminateSq ELSE TerminateCq)

Fairness == /\ \A c \in Cmds : WF_vars(SubmitWake(c))
            /\ WF_vars(WorkerStep) /\ WF_vars(ReaperStep) /\ WF_vars(Closing)

Spec == Init /\ [][Next]_vars
FairSpec == Spec /\ Fairness

(***************************************************************************)
(* Properties.                                                             *)
(***************************************************************************)

\* What a thread has in hand, as a sequence of no or one command.
Hand(th) == IF th.cmd = NoCmd THEN <<>> ELSE <<th.cmd>>

Thread(pcs) == [pc : pcs, cmd : Cmds \cup {NoCmd}]

\* Every variable has its type, no buffer exceeds the queue_size it was created
\* with, and a thread holds a command exactly between dequeue and its hand-over.
TypeOK ==
    /\ sq \in Seq(Cmds) /\ Len(sq) <= SqDepth
    /\ cq \in Seq(Cmds) /\ Len(cq) <= CqDepth
    /\ sqState \in {"open", "down", "gone"}
    /\ cqState \in {"open", "down", "gone"}
    /\ call \in [Cmds -> {"idle", "waiting", "ok", "refused"}]
    /\ worker \in Thread({"loop", "put", "wait", "exit"})
    /\ (worker.cmd # NoCmd) <=> (worker.pc \in {"put", "wait"})
    /\ reaper \in Thread({"loop", "taken", "callback", "exit"})
    /\ (reaper.cmd # NoCmd) <=> (reaper.pc = "taken")
    /\ wild \in SUBSET {"submitter", "callback", "worker"}
    /\ accepted \in Seq(Cmds) /\ posted \in Seq(Cmds)

\* While both queues are open (enqueue, dequeue and the two thread loops) the
\* pipeline neither loses, nor repeats, nor reorders a command: what was accepted
\* is what was posted, then what each stage holds, oldest first.
PipelineInOrder ==
    DeviceOpen => accepted = posted \o Hand(reaper) \o cq \o Hand(worker) \o sq

\* Post-process functions are called in the order of submission, without a gap,
\* even while the queues are being terminated in either order.
PostedIsPrefix ==
    /\ Len(posted) <= Len(accepted)
    /\ \A i \in DOMAIN posted : posted[i] = accepted[i]

\* call_post_process_func runs at most once for a command: a driver context freed
\* by the first call is never handed to a second one.
PostedOnce == \A i, j \in DOMAIN posted : posted[i] = posted[j] => i = j

\* Neither the worker nor a submit_io call of the application uses a queue that
\* remove_queue has deleted: each is gone first.  (A callback may still submit.)
NoUseAfterDelete == wild \subseteq {"callback"}

\* The one way the pair can come to a halt: a post-process function waits in
\* submit_io, and every stage before its own thread is full.
Held == /\ \E c \in Chained : call[c] = "waiting"
        /\ Len(sq) = SqDepth /\ worker.pc = "wait" /\ Len(cq) = CqDepth

\* Every command that submit_io accepted is posted, unless a queue is terminated
\* first or the pair is held by a post-process function's own call.
AcceptedCompletes ==
    \A c \in Cmds :
        (\E i \in DOMAIN accepted : accepted[i] = c)
            ~> (~DeviceOpen \/ []Held \/ \E i \in DOMAIN posted : posted[i] = c)

\* A submit_io call that waits for room in the submission queue returns, unless the
\* pair is held for ever.
WaitingReturns == \A c \in Cmds : call[c] = "waiting" ~> (call[c] # "waiting" \/ []Held)

\* terminate's join never hangs: once the first queue is terminated both threads
\* exit and both queues are deleted, also if the pair was held.
CloseCompletes == ~DeviceOpen ~> Closed

Fifo == INSTANCE FifoService WITH open <- DeviceOpen

\* The queue pair (enqueue, dequeue, the two thread loops and terminate) implements
\* the promise: accepted commands are posted once, in order, without a gap.
ImplementsFifo == Fifo!FifoSafe

============================================================================

------------------------------ MODULE AioTable ------------------------------
(***************************************************************************)
(* The table of aio contexts of the NVMe driver (core.c): the ioctls       *)
(* NVME_IOCTL_SET_AIOCTX, NVME_IOCTL_DEL_AIOCTX, NVME_IOCTL_GET_AIOEVENT   *)
(* and the kernel workers that list finished commands.                     *)
(*                                                                         *)
(* A context is reference counted: the table holds one reference, and a    *)
(* lookup holds one while it uses the context.  Set and delete run under   *)
(* g_kaioctx_tb_spinlock.  find_kaioctx does not, so that it reads the     *)
(* slot in one step and takes its reference in another; a context that is  *)
(* freed in between is bound to be touched.  What follows is up to that    *)
(* memory: the model records it in late and stops there.                   *)
(*                                                                         *)
(* The eventfd of a context and the user's side are in module KadiAio.     *)
(***************************************************************************)
EXTENDS Integers, Sequences, FiniteSets, Functions

CONSTANTS
    Sizes,    \* the values AIOCTX_MAX may have
    Ctxs,     \* the addresses of nvme_kaioctx objects
    Procs,    \* processes, with one aio context each (KADI::aioctx)
    Workers,  \* aio_completion_worker threads
    Cmds,     \* asynchronous commands
    Nr,       \* the number of events a process asks for
    None      \* NULL

ASSUME TableAssumption ==
    /\ Sizes \subseteq Nat \ {0, 1} /\ Nr \in Nat \ {0}
    /\ IsFiniteSet(Procs \cup Workers) /\ Procs \cap Workers = {}
    /\ (Procs \cup Workers) \cap Nat = {} /\ None \notin Ctxs \cup Procs \cup Workers \cup Nat

VARIABLES
    tb,      \* g_kaioctx_tb
    nextId,  \* aio_context_id
    lock,    \* g_kaioctx_tb_spinlock: "free", "held", or "lost" if nobody will unlock it
    mem,     \* mem[c]: "free", "new", "live", or "leaked" to no pool or a wrong one
    ref,     \* ref[c]: the count of the kref
    uid,     \* uid[c]: uctx.ctxid
    list,    \* list[c]: kaiocb_list
    cmd,     \* cmd[k]: the kaiocb of command k
    pc,      \* pc[a]: where process or worker a stands
    at,      \* at[a]: the context it works on
    hand,    \* hand[a]: the kaiocbs it holds
    mine,    \* mine[p]: aioctx.ctxid in process p
    late,    \* history: freed memory, or a slot outside the table, is touched
    uncopied, \* history: a copy_to_user in nvme_set_aioctx failed
    wrapped  \* history: an id was given after aio_context_id had gone back to 0

tableVars == <<tb, nextId, lock>>
ctxVars == <<mem, ref, uid, list>>
actorVars == <<pc, at, hand>>
histVars == <<late, uncopied, wrapped>>
vars == <<tableVars, ctxVars, cmd, actorVars, mine, histVars>>

\* The slots of the table, AIOCTX_MAX of them.
Ids == DOMAIN tb
Actors == Procs \cup Workers

\* A kaiocb: where it is, event.ctxid, and (history) the process that asked for it.
Kaiocb(st, id, p) == [st |-> st, id |-> id, by |-> p]
Idle == Kaiocb("idle", None, None)

Release(ks) == cmd' = [k \in Cmds |-> IF k \in ks THEN Idle ELSE cmd[k]]
Move(ks, st) == cmd' = [k \in Cmds |-> IF k \in ks THEN [cmd[k] EXCEPT !.st = st] ELSE cmd[k]]

\* aio_service_init.
Init == /\ tb \in {[i \in 0 .. n - 1 |-> None] : n \in Sizes}
        /\ nextId = 1 /\ lock = "free"
        /\ mem = [c \in Ctxs |-> "free"] /\ ref = [c \in Ctxs |-> 0]
        /\ uid = [c \in Ctxs |-> 0] /\ list = [c \in Ctxs |-> <<>>]
        /\ cmd = [k \in Cmds |-> Idle]
        /\ pc = [a \in Actors |-> "idle"] /\ at = [a \in Actors |-> None]
        /\ hand = [a \in Actors |-> <<>>] /\ mine = [p \in Procs |-> None]
        /\ late = FALSE /\ uncopied = FALSE /\ wrapped = FALSE

Goto(a, where, c) == pc' = [pc EXCEPT ![a] = where] /\ at' = [at EXCEPT ![a] = c]

(***************************************************************************)
(* nvme_set_aioctx.                                                        *)
(***************************************************************************)
\* mempool_alloc: which address it is makes no difference.
Allocated == CHOOSE c \in Ctxs : mem[c] = "free"
MayAlloc(p) == pc[p] = "idle" /\ mine[p] = None /\ \E c \in Ctxs : mem[c] = "free"

\* The argument is read and its eventfd found.
SetAlloc(p) ==
    /\ MayAlloc(p)
    /\ mem' = [mem EXCEPT ![Allocated] = "new"]
    /\ Goto(p, "set", Allocated)
    /\ UNCHANGED <<tableVars, ref, uid, list, cmd, hand, mine, histVars>>

\* The argument cannot be read, or names no eventfd: ctx is not given back.
SetBadArgument(p) ==
    /\ MayAlloc(p)
    /\ mem' = [mem EXCEPT ![Allocated] = "leaked"]
    /\ UNCHANGED <<tableVars, ref, uid, list, cmd, actorVars, mine, histVars>>

Vacant == {i \in Ids : tb[i] = None}

\* Mutant: the slot at aio_context_id is not looked at.
NextSlotBlind == nextId

\* The id at aio_context_id, or the first vacant one if that is taken.
NextSlot == IF tb[nextId] = None THEN nextId
            ELSE CHOOSE i \in Vacant : \A j \in Vacant : i <= j

\* Mutant: aio_context_id is not moved on.
SetEnterStay(p) ==
    /\ pc[p] = "set" /\ lock = "free" /\ Vacant # {}
    /\ tb' = [tb EXCEPT ![NextSlot] = at[p]]
    /\ nextId' = NextSlot
    /\ mem' = [mem EXCEPT ![at[p]] = "live"]
    /\ ref' = [ref EXCEPT ![at[p]] = 1]
    /\ uid' = [uid EXCEPT ![at[p]] = NextSlot]
    /\ list' = [list EXCEPT ![at[p]] = <<>>]
    /\ Goto(p, "copy", at[p])
    /\ wrapped' = (wrapped \/ nextId = 0)
    /\ UNCHANGED <<lock, cmd, hand, mine, late, uncopied>>

\* The context enters the table, with one reference.
SetEnter(p) ==
    /\ pc[p] = "set" /\ lock = "free" /\ Vacant # {}
    /\ tb' = [tb EXCEPT ![NextSlot] = at[p]]
    /\ nextId' = (NextSlot + 1) % Cardinality(Ids)
    /\ mem' = [mem EXCEPT ![at[p]] = "live"]
    /\ ref' = [ref EXCEPT ![at[p]] = 1]
    /\ uid' = [uid EXCEPT ![at[p]] = NextSlot]
    /\ list' = [list EXCEPT ![at[p]] = <<>>]
    /\ Goto(p, "copy", at[p])
    /\ wrapped' = (wrapped \/ nextId = 0)
    /\ UNCHANGED <<lock, cmd, hand, mine, late, uncopied>>

\* The table is full: -EMFILE, and the spinlock stays locked.
SetFull(p) ==
    /\ pc[p] = "set" /\ lock = "free" /\ Vacant = {}
    /\ lock' = "lost"
    /\ mem' = [mem EXCEPT ![at[p]] = "leaked"]
    /\ Goto(p, "idle", None)
    /\ UNCHANGED <<tb, nextId, ref, uid, list, cmd, hand, mine, histVars>>

\* copy_to_user tells the process its id.
SetReturn(p) ==
    /\ pc[p] = "copy"
    /\ mine' = [mine EXCEPT ![p] = uid[at[p]]]
    /\ Goto(p, "idle", None)
    /\ UNCHANGED <<tableVars, ctxVars, cmd, hand, histVars>>

\* copy_to_user fails: the slot before the context's own is cleared, and the
\* context is freed, to the pool of kaiocbs.
SetCopyFails(p) ==
    /\ pc[p] = "copy" /\ lock = "free" /\ ~uncopied
    /\ LET i == uid[at[p]] - 1 IN
       IF i \in Ids THEN tb' = [tb EXCEPT ![i] = None] /\ UNCHANGED late
       ELSE late' = TRUE /\ UNCHANGED tb
    /\ mem' = [mem EXCEPT ![at[p]] = "leaked"]
    /\ uncopied' = TRUE
    /\ Goto(p, "idle", None)
    /\ UNCHANGED <<nextId, lock, ref, uid, list, cmd, hand, mine, wrapped>>

(***************************************************************************)
(* References.                                                             *)
(***************************************************************************)
\* A lookup has read the address of context c and has no reference yet.
Finding(c) == \E a \in Actors : pc[a] = "found" /\ at[a] = c

\* Mutant: the kaiocbs on the list are not freed with the context.
DerefKeep(c) ==
    /\ ref' = [ref EXCEPT ![c] = @ - 1]
    /\ late' = (ref[c] = 1 /\ Finding(c))
    /\ IF ref[c] = 1
       THEN /\ mem' = [mem EXCEPT ![c] = "free"] /\ uid' = [uid EXCEPT ![c] = 0]
            /\ list' = [list EXCEPT ![c] = <<>>] /\ UNCHANGED cmd
       ELSE UNCHANGED <<mem, uid, cmd, list>>

\* kref_put, and remove_kaioctx with the last reference: the context is freed,
\* with every kaiocb on its list.
Deref(c) ==
    /\ ref' = [ref EXCEPT ![c] = @ - 1]
    /\ late' = (ref[c] = 1 /\ Finding(c))
    /\ IF ref[c] = 1
       THEN /\ mem' = [mem EXCEPT ![c] = "free"] /\ uid' = [uid EXCEPT ![c] = 0]
            /\ list' = [list EXCEPT ![c] = <<>>] /\ Release(Range(list[c]))
       ELSE UNCHANGED <<mem, uid, cmd, list>>

\* find_kaioctx: the slot is read ...
Find(a, c) == Goto(a, "found", c) /\ late' = (mem[c] # "live")

\* Mutant: the lookup takes no reference.
RefNone(a) ==
    /\ pc[a] = "found"
    /\ Goto(a, "held", at[a])
    /\ UNCHANGED <<tableVars, ctxVars, cmd, hand, mine, histVars>>

\* ... and then the reference taken.
Ref(a) ==
    /\ pc[a] = "found"
    /\ ref' = [ref EXCEPT ![at[a]] = @ + 1]
    /\ Goto(a, "held", at[a])
    /\ UNCHANGED <<tableVars, mem, uid, list, cmd, hand, mine, histVars>>

(***************************************************************************)
(* nvme_del_aioctx, and a process that ends without it.                    *)
(***************************************************************************)
\* The table's reference is dropped, then the slot cleared: a lookup may read the
\* slot in between.
DelDeref(p) ==
    /\ pc[p] = "idle" /\ mine[p] # None /\ lock = "free" /\ tb[mine[p]] # None
    /\ IF mem[tb[mine[p]]] = "live" THEN Deref(tb[mine[p]])
       ELSE late' = TRUE /\ UNCHANGED <<mem, ref, uid, list, cmd>>
    /\ lock' = "held"
    /\ Goto(p, "del", tb[mine[p]])
    /\ UNCHANGED <<tb, nextId, hand, mine, uncopied, wrapped>>

\* Mutant: the spinlock is not unlocked.
DelClearLocked(p) ==
    /\ pc[p] = "del"
    /\ tb' = [tb EXCEPT ![mine[p]] = None]
    /\ mine' = [mine EXCEPT ![p] = None]
    /\ Goto(p, "idle", None)
    /\ UNCHANGED <<nextId, lock, ctxVars, cmd, hand, histVars>>

DelClear(p) ==
    /\ pc[p] = "del"
    /\ tb' = [tb EXCEPT ![mine[p]] = None]
    /\ lock' = "free"
    /\ mine' = [mine EXCEPT ![p] = None]
    /\ Goto(p, "idle", None)
    /\ UNCHANGED <<nextId, ctxVars, cmd, hand, histVars>>

\* The slot is empty: nothing to delete.
DelNothing(p) ==
    /\ pc[p] = "idle" /\ mine[p] # None /\ lock = "free" /\ tb[mine[p]] = None
    /\ mine' = [mine EXCEPT ![p] = None]
    /\ UNCHANGED <<tableVars, ctxVars, cmd, actorVars, histVars>>

\* The driver has no hook for the end of a process: its context stays.
Die(p) ==
    /\ pc[p] = "idle" /\ mine[p] # None
    /\ mine' = [mine EXCEPT ![p] = None]
    /\ UNCHANGED <<tableVars, ctxVars, cmd, actorVars, histVars>>

(***************************************************************************)
(* Commands: submission, kv_complete_aio_fn with set_aioctx_event, and     *)
(* nvme_get_ioevents.                                                      *)
(***************************************************************************)
Submit(p, k) ==
    /\ mine[p] # None /\ pc[p] # "del" /\ cmd[k] = Idle
    /\ cmd' = [cmd EXCEPT ![k] = Kaiocb("device", mine[p], p)]
    /\ UNCHANGED <<tableVars, ctxVars, actorVars, mine, histVars>>

\* A worker takes a finished command and reads the slot; an empty one means that
\* the kaiocb is freed.
Complete(w, k) ==
    /\ pc[w] = "idle" /\ cmd[k].st = "device"
    /\ IF tb[cmd[k].id] = None
       THEN Release({k}) /\ UNCHANGED <<actorVars, late>>
       ELSE /\ Move({k}, "held")
            /\ hand' = [hand EXCEPT ![w] = <<k>>]
            /\ Find(w, tb[cmd[k].id])
    /\ UNCHANGED <<tableVars, ctxVars, mine, uncopied, wrapped>>

\* list_add_tail and eventfd_signal.
Enlist(w) ==
    /\ w \in Workers /\ pc[w] = "held"
    /\ list' = [list EXCEPT ![at[w]] = @ \o hand[w]]
    /\ Move(Range(hand[w]), "listed")
    /\ hand' = [hand EXCEPT ![w] = <<>>]
    /\ Goto(w, "put", at[w])
    /\ UNCHANGED <<tableVars, mem, ref, uid, mine, histVars>>

WorkerPut(w) ==
    /\ w \in Workers /\ pc[w] = "put"
    /\ Deref(at[w])
    /\ Goto(w, "idle", None)
    /\ UNCHANGED <<tableVars, hand, mine, uncopied, wrapped>>

\* find_kaioctx in nvme_get_ioevents; without a context no event is returned.
Get(p) ==
    /\ pc[p] = "idle" /\ mine[p] # None /\ tb[mine[p]] # None
    /\ Find(p, tb[mine[p]])
    /\ UNCHANGED <<tableVars, ctxVars, cmd, hand, mine, uncopied, wrapped>>

\* list_add: every kaiocb goes to the front.
Fronted(s) == [i \in DOMAIN s |-> s[Len(s) + 1 - i]]

\* Up to nr kaiocbs move to tmp_head.
Take(p) ==
    /\ p \in Procs /\ pc[p] = "held"
    /\ LET l == list[at[p]]
           n == IF Len(l) < Nr THEN Len(l) ELSE Nr
       IN /\ hand' = [hand EXCEPT ![p] = Fronted(SubSeq(l, 1, n))]
          /\ list' = [list EXCEPT ![at[p]] = SubSeq(l, n + 1, Len(l))]
          /\ Move(Range(SubSeq(l, 1, n)), "held")
    /\ Goto(p, "put", at[p])
    /\ UNCHANGED <<tableVars, mem, ref, uid, mine, histVars>>

\* The reference is dropped ...
ProcPut(p) ==
    /\ p \in Procs /\ pc[p] = "put"
    /\ Deref(at[p])
    /\ Goto(p, "out", None)
    /\ UNCHANGED <<tableVars, hand, mine, uncopied, wrapped>>

\* ... and the events are copied to the process and freed.
CopyOut(p) ==
    /\ pc[p] = "out"
    /\ Release(Range(hand[p]))
    /\ hand' = [hand EXCEPT ![p] = <<>>]
    /\ Goto(p, "idle", None)
    /\ UNCHANGED <<tableVars, ctxVars, mine, histVars>>

(***************************************************************************)
(* nvme_core_exit, and nvme_core_init when the module is loaded again.     *)
(***************************************************************************)
\* No process has the device open and the workers have run dry; every context in
\* the table is freed, whatever its count, and the table starts afresh.
Reload ==
    /\ \A a \in Actors : pc[a] = "idle"
    /\ \A p \in Procs : mine[p] = None
    /\ \A k \in Cmds : cmd[k].st # "device"
    /\ tb # [i \in Ids |-> None]
    /\ late' = (\E i \in Ids : tb[i] # None /\ mem[tb[i]] # "live")
    /\ Release({k \in Cmds : cmd[k].st = "listed"})
    /\ tb' = [i \in Ids |-> None] /\ nextId' = 1 /\ lock' = "free" /\ wrapped' = FALSE
    /\ mem' = [c \in Ctxs |-> "free"] /\ ref' = [c \in Ctxs |-> 0]
    /\ uid' = [c \in Ctxs |-> 0] /\ list' = [c \in Ctxs |-> <<>>]
    /\ UNCHANGED <<actorVars, mine, uncopied>>

SetBegin(p) == SetAlloc(p) \/ SetBadArgument(p)
SetLocked(p) == SetEnter(p) \/ SetFull(p)
SetEnd(p) == SetReturn(p) \/ SetCopyFails(p)
DelStep(p) == DelDeref(p) \/ DelClear(p) \/ DelNothing(p)
GetStep(p) == Get(p) \/ Ref(p) \/ Take(p) \/ ProcPut(p) \/ CopyOut(p)
WorkerStep(w) == (\E k \in Cmds : Complete(w, k)) \/ Ref(w) \/ Enlist(w) \/ WorkerPut(w)

Next == /\ ~late
        /\ \/ \E p \in Procs : SetBegin(p) \/ SetLocked(p) \/ SetEnd(p) \/ DelStep(p) \/ Die(p) \/ GetStep(p)
           \/ \E p \in Procs, k \in Cmds : Submit(p, k)
           \/ \E w \in Workers : WorkerStep(w)
           \/ Reload

Spec == Init /\ [][Next]_vars

\* A call that has begun goes on, and so does a worker; the kernel's spinlock is
\* handed over in the order of arrival.  Nobody is made to call, and no command
\* to finish.
Fairness ==
    /\ \A p \in Procs : /\ SF_vars(~late /\ SetLocked(p))
                        /\ WF_vars(~late /\ (SetReturn(p) \/ DelClear(p)))
                        /\ WF_vars(~late /\ pc[p] # "idle" /\ GetStep(p))
    /\ \A w \in Workers : WF_vars(~late /\ pc[w] # "idle" /\ WorkerStep(w))

FairSpec == Spec /\ Fairness

(***************************************************************************)
(* Properties.                                                             *)
(***************************************************************************)
TypeOK ==
    /\ (\E n \in Sizes : tb \in [0 .. n - 1 -> Ctxs \cup {None}]) /\ nextId \in Ids /\ lock \in {"free", "held", "lost"}
    /\ mem \in [Ctxs -> {"free", "new", "live", "leaked"}]
    /\ ref \in [Ctxs -> Int] /\ uid \in [Ctxs -> Nat] /\ list \in [Ctxs -> Seq(Cmds)]
    /\ cmd \in [Cmds -> [st : {"idle", "device", "held", "listed"},
                         id : Ids \cup {None}, by : Procs \cup {None}]]
    /\ pc \in [Actors -> {"idle", "set", "copy", "del", "found", "held", "put", "out"}]
    /\ at \in [Actors -> Ctxs \cup {None}] /\ hand \in [Actors -> Seq(Cmds)]
    /\ mine \in [Procs -> Ids \cup {None}]
    /\ late \in BOOLEAN /\ uncopied \in BOOLEAN /\ wrapped \in BOOLEAN

\* Until freed memory is touched or a copy to the user fails.
Sane == ~late /\ ~uncopied

\* nvme_del_aioctx has dropped the reference of slot i and not yet cleared it.
Clearing(i) == \E p \in Procs : pc[p] = "del" /\ mine[p] = i

\* Who holds a reference on context c: a slot of the table, or a lookup.
Holders(c) == {i \in Ids : tb[i] = c /\ ~Clearing(i)} \cup
              {a \in Actors : at[a] = c /\ pc[a] \in {"held", "put"}}

\* The kref of a context counts its holders, and the context is freed with the
\* last of them: never under a lookup that has its reference, and never later.
RefsExact == Sane => \A c \in Ctxs : /\ ref[c] = Cardinality(Holders(c))
                                     /\ mem[c] = "live" <=> Holders(c) # {}

\* The id a process was given names the context with that id, and no other process
\* has it, after the ids have wrapped and among contexts that dead processes left.
IdsExact == Sane =>
    /\ \A p, q \in Procs : mine[p] # None /\ mine[p] = mine[q] => p = q
    /\ \A p \in Procs : mine[p] # None /\ pc[p] # "del" =>
           tb[mine[p]] # None /\ uid[tb[mine[p]]] = mine[p]

\* A kaiocb is in one place: on the list of one live context, in the hands of one
\* thread, or neither; none is freed while it is listed, none is listed twice.
EventsPlaced == Sane => \A k \in Cmds :
    /\ cmd[k].st = "listed" <=> \E c \in Ctxs : mem[c] = "live" /\ k \in Range(list[c])
    /\ cmd[k].st = "held" <=> \E a \in Actors : k \in Range(hand[a])
    /\ \A c, d \in Ctxs : \A i \in DOMAIN list[c], j \in DOMAIN list[d] :
           list[c][i] = k /\ list[d][j] = k => c = d /\ i = j
    /\ \A a, b \in Actors : k \in Range(hand[a]) /\ k \in Range(hand[b]) => a = b

\* Until the ids wrap, a process fetches events of its own commands only: a late
\* completion for a context that is deleted finds no slot of another process.
OwnEvents == ~late /\ ~wrapped => \A p \in Procs : \A k \in Range(hand[p]) : cmd[k].by = p

\* Every ioctl on the table returns and every worker gets done with its command,
\* unless a call found the table full and left the spinlock locked.
CallsEnd == \A a \in Actors : pc[a] # "idle" ~> (pc[a] = "idle" \/ late \/ lock = "lost")

=============================================================================

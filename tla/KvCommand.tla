----------------------------- MODULE KvCommand -----------------------------
(***************************************************************************)
(* What one key-value ioctl of the kernel driver acquires and gives back   *)
(* (core.c, __nvme_submit_kv_user_cmd and kv_complete_aio_fn): the control *)
(* block of an asynchronous command, the block layer's request, the pinned *)
(* pages of the user's buffer, a kernel copy of a buffer that is not       *)
(* aligned, the key that does not fit into the command, and the I/O        *)
(* accounting of the disk.  Every allocation may fail.  The submitting     *)
(* thread releases what it acquired if a step fails or if the command is   *)
(* synchronous; otherwise a worker releases what the control block names.  *)
(***************************************************************************)
EXTENDS Integers, FiniteSets

CONSTANTS
    Cmds,      \* commands at the same time
    MaxDrift   \* bound: how far the accounting may be off when a command begins

ASSUME CommandAssumption == IsFiniteSet(Cmds) /\ MaxDrift \in Nat

Dirs == {"write", "read"}

\* aio: NVME_IOCTL_AIO_CMD; dir: store and append write, all others read; data: the
\* value buffer; key: in the command, in one aligned page, or to be copied.
Kinds == [aio : BOOLEAN, dir : Dirs, data : {"none", "aligned", "unaligned"},
          key : {"inline", "page", "copy"}]

Resources == {"aiocb", "request", "bounce", "user", "kernel", "key", "keypage"}

\* The fields of nvme_kaiocb that kv_complete_aio_fn goes by.
Fields == {"need_to_copy", "user_ctx", "use_meta", "meta"}

\* No command.
NoKind == [aio |-> FALSE, dir |-> "read", data |-> "none", key |-> "inline"]

VARIABLES
    place,   \* where each command is
    kind,    \* its arguments
    held,    \* what it has acquired and not released
    cb,      \* the fields that are set in its control block
    twice,   \* history: something was released that was not held
    started, \* generic_start_io_acct was called for it, and the end was not
    acct,    \* the disk's commands in flight, by direction
    clean    \* history: no end was accounted without its start

commandVars == <<place, kind, held, cb, twice, started, acct, clean>>

CommandInit ==
    /\ place = [c \in Cmds |-> "idle"]
    /\ kind = [c \in Cmds |-> NoKind]
    /\ held = [c \in Cmds |-> {}]
    /\ cb = [c \in Cmds |-> {}]
    /\ twice = FALSE
    /\ started = [c \in Cmds |-> FALSE]
    /\ acct = [d \in Dirs |-> 0]
    /\ clean = TRUE

Aio(c) == kind[c].aio
Copied(c) == kind[c].data = "unaligned"

Go(c, l) == place' = [place EXCEPT ![c] = l]

\* The ioctl has returned, or the worker is through with the control block.
Over(c) == /\ Go(c, "idle")
           /\ kind' = [kind EXCEPT ![c] = NoKind]
           /\ cb' = [cb EXCEPT ![c] = {}]

Hold(c, S) == held' = [held EXCEPT ![c] = @ \cup S]

\* nvme_user_kv_cmd, once the arguments are checked: a command that is refused
\* there has acquired nothing.
Begin(c, k) == /\ place[c] = "idle"
               /\ \A d \in Dirs : acct[d] >= -MaxDrift /\ acct[d] <= Cardinality(Cmds)
               /\ kind' = [kind EXCEPT ![c] = k]
               /\ Go(c, IF k.aio THEN "aiocb" ELSE "request")
               /\ UNCHANGED <<held, cb, twice, started, acct, clean>>

\* get_aiocb clears the control block.
GetAiocb(c) == /\ place[c] = "aiocb"
               /\ \/ /\ Hold(c, {"aiocb"}) /\ cb' = [cb EXCEPT ![c] = {}]
                     /\ Go(c, "request") /\ UNCHANGED kind
                  \/ UNCHANGED held /\ Over(c)
               /\ UNCHANGED <<twice, started, acct, clean>>

AllocRequest(c) ==
    /\ place[c] = "request"
    /\ \/ /\ Hold(c, {"request"})
          /\ Go(c, CASE kind[c].data = "none" -> "key"
                     [] kind[c].data = "aligned" -> "buffer"
                     [] OTHER -> "bounce")
          /\ UNCHANGED <<kind, cb>>
       \/ /\ held' = [held EXCEPT ![c] = @ \ {"aiocb"}]
          /\ Over(c)
    /\ UNCHANGED <<twice, started, acct, clean>>

(***************************************************************************)
(* The exits of __nvme_submit_kv_user_cmd: each label falls through to the *)
(* ones after it.                                                          *)
(***************************************************************************)

Labels(c, label) ==
    (IF label = "out_free_meta" THEN {"keypage", "key"} ELSE {})
    \cup (IF label # "out_req_end"
          THEN {"user"} \cup IF Copied(c) THEN {"kernel", "bounce"} ELSE {} ELSE {})
    \cup {"request"} \cup IF Aio(c) THEN {"aiocb"} ELSE {}

\* out_req_end ends the accounting whether or not it was started; for an
\* asynchronous command it reads the opcode from the control block it has freed.
EndAlways(c) == \E d \in IF Aio(c) THEN Dirs ELSE {kind[c].dir} :
    /\ acct' = [acct EXCEPT ![d] = @ - 1]
    /\ started' = [started EXCEPT ![c] = FALSE]
    /\ clean' = (clean /\ started[c] /\ ~Aio(c))

\* The pointers are tested before they are released.
Leave(c, label, have) == /\ held' = [held EXCEPT ![c] = have \ Labels(c, label)]
                         /\ EndAlways(c)
                         /\ Over(c)
                         /\ UNCHANGED twice

(***************************************************************************)
(* Mapping the buffer and the key.                                         *)
(***************************************************************************)
AllocBounce(c) ==
    /\ place[c] = "bounce"
    /\ \/ /\ Hold(c, {"bounce"}) /\ Go(c, "buffer")
          /\ UNCHANGED <<kind, cb, twice, started, acct, clean>>
       \/ Leave(c, "out_req_end", held[c])

\* What get_aio_user_ctx returned for the user's buffer and for the kernel's copy;
\* without a copy they are the same.
Mapped(c) == {S \in SUBSET {"user", "kernel"} : ~Copied(c) => S \subseteq {"user"}}

AllMapped(c) == IF Copied(c) THEN {"user", "kernel"} ELSE {"user"}

\* A store copies from the user's pages before it knows that they are mapped.
NullRead(c, S) == Copied(c) /\ kind[c].dir = "write" /\ "kernel" \in S /\ "user" \notin S

Oops(c) == /\ place[c] = "buffer"
           /\ \E S \in Mapped(c) : NullRead(c, S) /\ Hold(c, S)
           /\ Go(c, "oops")
           /\ UNCHANGED <<kind, cb, twice, started, acct, clean>>

BufferFails(c) == /\ place[c] = "buffer"
                  /\ \E S \in Mapped(c) :
                        /\ S # AllMapped(c) /\ ~NullRead(c, S)
                        /\ Leave(c, "out_unmap", held[c] \cup S)

\* Mutant: the control block is not told of the copy.
MapBufferUntold(c) ==
    /\ place[c] = "buffer"
    /\ Hold(c, AllMapped(c))
    /\ cb' = IF Aio(c) THEN [cb EXCEPT ![c] = @ \cup {"user_ctx"}] ELSE cb
    /\ started' = [started EXCEPT ![c] = TRUE]
    /\ acct' = [acct EXCEPT ![kind[c].dir] = @ + 1]
    /\ Go(c, "key")
    /\ UNCHANGED <<kind, twice, clean>>

MapBuffer(c) ==
    /\ place[c] = "buffer"
    /\ Hold(c, AllMapped(c))
    /\ cb' = IF ~Aio(c) THEN cb
             ELSE [cb EXCEPT ![c] = @ \cup {"user_ctx"} \cup IF Copied(c) THEN {"need_to_copy"} ELSE {}]
    /\ started' = [started EXCEPT ![c] = TRUE]
    /\ acct' = [acct EXCEPT ![kind[c].dir] = @ + 1]
    /\ Go(c, "key")
    /\ UNCHANGED <<kind, twice, clean>>

\* Mutant: the page of the key is not pinned.
MapKeyLoose(c) ==
    /\ place[c] = "key"
    /\ Hold(c, IF kind[c].key = "copy" THEN {"key"} ELSE {})
    /\ cb' = IF Aio(c) /\ kind[c].key = "copy" THEN [cb EXCEPT ![c] = @ \cup {"meta"}] ELSE cb
    /\ Go(c, "device")
    /\ UNCHANGED <<kind, twice, started, acct, clean>>

MapKey(c) ==
    LET key == CASE kind[c].key = "inline" -> {}
                 [] kind[c].key = "page" -> {"keypage"}
                 [] OTHER -> {"keypage", "key"}
        told == CASE kind[c].key = "inline" -> {}
                  [] kind[c].key = "page" -> {"use_meta"}
                  [] OTHER -> {"use_meta", "meta"}
    IN /\ place[c] = "key"
       /\ Hold(c, key)
       /\ cb' = IF Aio(c) THEN [cb EXCEPT ![c] = @ \cup told] ELSE cb
       /\ Go(c, "device")
       /\ UNCHANGED <<kind, twice, started, acct, clean>>

\* The page cannot be pinned or the memory for the copy is not there; or the key
\* cannot be read from the user, with the memory already held.
KeyFails(c) == /\ place[c] = "key" /\ kind[c].key # "inline"
               /\ \/ Leave(c, "out_unmap", held[c])
                  \/ kind[c].key = "copy" /\ Leave(c, "out_free_meta", held[c] \cup {"key"})

(***************************************************************************)
(* The end of the command.                                                 *)
(***************************************************************************)

\* External: the device; the block layer ends the request.
DeviceDone(c) == /\ place[c] = "device"
                 /\ Go(c, IF Aio(c) THEN "worker" ELSE "back")
                 /\ UNCHANGED <<kind, held, cb, twice, started, acct, clean>>

SyncEnd(c) == place[c] = "back" /\ Leave(c, "out_free_meta", held[c])

\* Mutant: the accounting is ended for every command.
EndAsyncAlways(c) == /\ acct' = [acct EXCEPT ![kind[c].dir] = @ - 1]
                     /\ started' = [started EXCEPT ![c] = FALSE]

EndAsync(c) == IF "user_ctx" \in cb[c]
               THEN /\ acct' = [acct EXCEPT ![kind[c].dir] = @ - 1]
                    /\ started' = [started EXCEPT ![c] = FALSE]
               ELSE UNCHANGED <<acct, started>>

\* What kv_complete_aio_fn releases; the control block goes to the list of its aio
\* context, or back to the pool if there is none (AioTable).
Named(c) == {"request", "aiocb"}
            \cup (IF "need_to_copy" \in cb[c] THEN {"kernel", "bounce"} ELSE {})
            \cup (IF "user_ctx" \in cb[c] THEN {"user"} ELSE {})
            \cup (IF "use_meta" \in cb[c] THEN {"keypage"} ELSE {})
            \cup (IF "meta" \in cb[c] THEN {"key"} ELSE {})

WorkerEnd(c) == /\ place[c] = "worker"
                /\ twice' = (twice \/ ~(Named(c) \subseteq held[c]))
                /\ held' = [held EXCEPT ![c] = @ \ Named(c)]
                /\ EndAsync(c)
                /\ Over(c)
                /\ UNCHANGED clean

Step(c) == \/ \E k \in Kinds : Begin(c, k)
           \/ GetAiocb(c) \/ AllocRequest(c) \/ AllocBounce(c)
           \/ MapBuffer(c) \/ BufferFails(c) \/ Oops(c)
           \/ MapKey(c) \/ KeyFails(c)
           \/ DeviceDone(c) \/ SyncEnd(c) \/ WorkerEnd(c)

CommandNext == \E c \in Cmds : Step(c)

CommandSpec == CommandInit /\ [][CommandNext]_commandVars

(***************************************************************************)
(* Properties.                                                             *)
(***************************************************************************)

\* Every variable has its type.
CommandTypeOK ==
    /\ place \in [Cmds -> {"idle", "aiocb", "request", "bounce", "buffer", "key", "device",
                           "back", "worker", "oops"}]
    /\ kind \in [Cmds -> Kinds]
    /\ held \in [Cmds -> SUBSET Resources] /\ cb \in [Cmds -> SUBSET Fields]
    /\ twice \in BOOLEAN /\ clean \in BOOLEAN
    /\ started \in [Cmds -> BOOLEAN]
    /\ acct \in [Dirs -> Int]

\* A command that is over, by whatever failure or completion, has given back all that
\* it acquired: the labels of the submit path undo exactly the steps before them,
\* and the worker releases, once, what the submit path recorded in the control
\* block.
AllReturned == ~twice /\ \A c \in Cmds : place[c] = "idle" => held[c] = {}

\* While the device works on a command, and until its end is handled, the request and
\* the memory that the device reads and writes stay allocated and pinned.
DeviceMemory == \A c \in Cmds : place[c] \in {"device", "back", "worker"} =>
    /\ "request" \in held[c]
    /\ kind[c].data # "none" => AllMapped(c) \subseteq held[c]
    /\ Copied(c) => "bounce" \in held[c]
    /\ kind[c].key # "inline" => "keypage" \in held[c]
    /\ kind[c].key = "copy" => "key" \in held[c]
    /\ Aio(c) => "aiocb" \in held[c]

\* The disk's counts of I/O in flight are those of the commands with a value that
\* have begun and not ended, as long as no synchronous command without a value, no
\* failure before the buffer was mapped and no failed asynchronous command went
\* through out_req_end, which ends what it did not start.
AcctExact == clean => \A d \in Dirs :
    acct[d] = Cardinality({c \in Cmds : started[c] /\ kind[c].dir = d})

=============================================================================

----------------------------- MODULE KeySpaces -----------------------------
(***************************************************************************)
(* Key space management (api/src/cfrontend.cpp): the key space list and    *)
(* one metadata entry per key space are pairs of the device's metadata key *)
(* space; every API call reads and writes them one I/O at a time and holds *)
(* no lock across them.                                                    *)
(*                                                                         *)
(* A client is a process with its own g_env and device handle; one process *)
(* makes one call at a time, and opens one key space at a time.  Clients   *)
(* share the device and nothing else.  A crash ends a process between two  *)
(* I/Os; the device keeps what was written.                                *)
(***************************************************************************)
EXTENDS Naturals, Sequences, FiniteSets, Functions

CONSTANTS
    Clients,
    Stems,      \* what a name is made of but its last character
    Lasts,      \* its last character
    MaxKs,      \* KS_MAX_CONT
    MaxFaults,  \* bound: failing I/Os in one call
    MaxCrashes, \* bound: crashes
    NoName

ASSUME KsAssumption == /\ {MaxKs, MaxFaults, MaxCrashes} \subseteq Nat
                       /\ NoName \notin Stems \X Lasts

VARIABLES
    list,     \* device: the names in the key space list, in order
    entry,    \* device: the metadata entries, "none" where there is none
    pairs,    \* device: the pairs in the user key space (all spaces share id 1)
    call,     \* the API call each client is in
    hd,       \* the key space each client has open (open_ks_hds, list_open_ks)
    last,     \* history: the last call of each client and its result
    before,   \* history: list and entries when the client's last call began
    left,     \* history: the entries whose handle was dropped without a close
    crashes

vars == <<list, entry, pairs, call, hd, last, before, left, crashes>>
device == <<list, entry, pairs>>

Names == Stems \X Lasts

\* The key of the metadata entry: snprintf(key, strlen(name), "%s", name) writes
\* the name without its last character.  No stem is "key_space_list", the key of the
\* list itself.
EntryKey(n) == n[1]

Existing == {s \in Stems : entry[s] # "none"}

NoCall == [op |-> "none", name |-> NoName, pc |-> "idle", copy |-> <<>>,
           ret |-> "SUCCESS", faults |-> 0]
NoResult == [op |-> "none", name |-> NoName, ret |-> "SUCCESS"]

Init == /\ list = <<>> /\ entry = [s \in Stems |-> "none"] /\ pairs = {}
        /\ call = [p \in Clients |-> NoCall]
        /\ hd = [p \in Clients |-> NoName]
        /\ last = [p \in Clients |-> NoResult]
        /\ before = [p \in Clients |-> <<list, {}>>]
        /\ left = {}
        /\ crashes = 0

(***************************************************************************)
(* The frame of a call.                                                    *)
(***************************************************************************)
At(p, pc) == call[p].pc = pc

Begin(p, op, n, pc) ==
    /\ At(p, "idle")
    /\ call' = [call EXCEPT ![p] = [NoCall EXCEPT !.op = op, !.name = n, !.pc = pc]]
    /\ before' = [before EXCEPT ![p] = <<list, Existing>>]
    /\ UNCHANGED <<device, hd, last, left, crashes>>

\* The call ends before any I/O.
Refuse(p, op, n, r) ==
    /\ At(p, "idle")
    /\ last' = [last EXCEPT ![p] = [op |-> op, name |-> n, ret |-> r]]
    /\ before' = [before EXCEPT ![p] = <<list, Existing>>]
    /\ UNCHANGED <<device, call, hd, left, crashes>>

\* The results the driver may give for one I/O of the metadata key space, and
\* _sync_io_to_meta_keyspace hands on.  Over KUDDriver in its asynchronous mode it
\* hands on the result of the submission only; that mode is not modelled.
Io(p) == {"SUCCESS"} \cup {e \in {"SYS_IO"} : call[p].faults < MaxFaults}

Goto(p, pc, copy, r, io) ==
    /\ call' = [call EXCEPT ![p].pc = pc, ![p].copy = copy, ![p].ret = r,
                            ![p].faults = IF io = "SUCCESS" THEN @ ELSE @ + 1]
    /\ UNCHANGED <<last, before, crashes>>

\* The call returns r, or the error it is rolling back from.
Return(p, r) ==
    /\ call' = [call EXCEPT ![p] = NoCall]
    /\ last' = [last EXCEPT ![p] =
                   [op |-> call[p].op, name |-> call[p].name,
                    ret |-> IF call[p].ret = "SUCCESS" THEN r ELSE call[p].ret]]
    /\ UNCHANGED <<before, crashes>>

\* The first error of an I/O and of the check made on what it returned.
Check(io, bad, code) == IF io # "SUCCESS" THEN io ELSE IF bad THEN code ELSE "SUCCESS"

(***************************************************************************)
(* _add_to_key_space_list: by kvs_create_key_space, and by                 *)
(* kvs_delete_key_space to restore a name (then with its old id, which     *)
(* must be unused).                                                        *)
(***************************************************************************)
\* Mutant: the limit is tested one too late.
AddErrorLate(p, io) ==
    IF io # "SUCCESS" THEN io
    ELSE IF Len(list) > MaxKs THEN "SYS_IO"
    ELSE Check(io, call[p].name \in Range(list), "KS_EXIST")

AddError(p, io) ==
    LET n == call[p].name IN
    IF io # "SUCCESS" THEN io
    ELSE IF Len(list) >= MaxKs THEN "SYS_IO"
    ELSE IF n \in Range(list) THEN "KS_EXIST"
    ELSE Check(io, call[p].op = "delete" /\ list # <<>>, "SYS_IO")

AddRead(p) ==
    /\ At(p, "add_read")
    /\ \E io \in Io(p) :
          \/ AddError(p, io) # "SUCCESS" /\ Return(p, AddError(p, io))
          \/ /\ AddError(p, io) = "SUCCESS"
             /\ Goto(p, "add_store", Append(list, call[p].name), call[p].ret, io)
    /\ UNCHANGED <<device, hd, left>>

AddStore(p) ==
    /\ At(p, "add_store")
    /\ \/ "SYS_IO" \in Io(p) /\ Return(p, "SYS_IO") /\ UNCHANGED list
       \/ /\ list' = call[p].copy
          /\ IF call[p].op = "create"
             THEN Goto(p, "entry_create", <<>>, "SUCCESS", "SUCCESS")
             ELSE Return(p, "SUCCESS")
    /\ UNCHANGED <<entry, pairs, hd, left>>

(***************************************************************************)
(* _remove_from_key_space_list: by kvs_delete_key_space, and by            *)
(* kvs_create_key_space to take a name back.                               *)
(***************************************************************************)
\* The list without name n: the names after it move forward.
Removed(l, n) ==
    LET i == CHOOSE i \in DOMAIN l : l[i] = n /\ \A j \in 1 .. i - 1 : l[j] # n
    IN  SubSeq(l, 1, i - 1) \o SubSeq(l, i + 1, Len(l))

RemoveRead(p) ==
    /\ At(p, "remove_read")
    /\ \E io \in Io(p) :
          LET n == call[p].name
              r == Check(io, n \notin Range(list), "KS_NOT_EXIST") IN
          \/ r # "SUCCESS" /\ Return(p, r)
          \/ /\ r = "SUCCESS"
             /\ Goto(p, "remove_store", Removed(list, n), call[p].ret, io)
    /\ UNCHANGED <<device, hd, left>>

RemoveStore(p) ==
    /\ At(p, "remove_store")
    /\ \/ "SYS_IO" \in Io(p) /\ Return(p, "SYS_IO") /\ UNCHANGED list
       \/ /\ list' = call[p].copy
          /\ IF call[p].op = "delete"
             THEN Goto(p, "entry_delete", <<>>, "SUCCESS", "SUCCESS")
             ELSE Return(p, "SUCCESS")
    /\ UNCHANGED <<entry, pairs, hd, left>>

(***************************************************************************)
(* kvs_create_key_space: the list, then the entry with NOOVERWRITE; if the *)
(* entry cannot be stored the name is taken off the list again.            *)
(***************************************************************************)
Create(p, n) == Begin(p, "create", n, "add_read")

CreateEntry(p) ==
    /\ At(p, "entry_create")
    /\ \E io \in Io(p) :
          LET k == EntryKey(call[p].name)
              r == Check(io, entry[k] # "none", "KEY_EXIST") IN
          \/ r # "SUCCESS" /\ Goto(p, "remove_read", <<>>, r, io) /\ UNCHANGED entry
          \/ r = "SUCCESS" /\ entry' = [entry EXCEPT ![k] = "closed"] /\ Return(p, r)
    /\ UNCHANGED <<list, pairs, hd, left>>

(***************************************************************************)
(* kvs_delete_key_space: refused while this process has the name open;     *)
(* the list, then the entry; if that fails the name is put back.           *)
(***************************************************************************)
\* Mutant: delete forgets the list.
DeleteEntryOnly(p, n) == hd[p] # n /\ Begin(p, "delete", n, "entry_delete")

Delete(p, n) == \/ hd[p] # n /\ Begin(p, "delete", n, "remove_read")
                \/ hd[p] = n /\ Refuse(p, "delete", n, "SYS_IO")

\* Mutant: a delete that cannot delete the entry does not put the name back.
DeleteEntryNoUndo(p) ==
    /\ At(p, "entry_delete")
    /\ \E io \in Io(p) :
          LET k == EntryKey(call[p].name)
              r == Check(io, entry[k] = "none", "KEY_NOT_EXIST") IN
          /\ entry' = IF r = "SUCCESS" THEN [entry EXCEPT ![k] = "none"] ELSE entry
          /\ Return(p, r)
    /\ UNCHANGED <<list, pairs, hd, left>>

DeleteEntry(p) ==
    /\ At(p, "entry_delete")
    /\ \E io \in Io(p) :
          LET k == EntryKey(call[p].name)
              r == Check(io, entry[k] = "none", "KEY_NOT_EXIST") IN
          \/ r # "SUCCESS" /\ Goto(p, "add_read", <<>>, r, io) /\ UNCHANGED <<entry, left>>
          \/ /\ r = "SUCCESS" /\ Return(p, r)
             /\ entry' = [entry EXCEPT ![k] = "none"] /\ left' = left \ {k}
    /\ UNCHANGED <<list, pairs, hd>>

(***************************************************************************)
(* kvs_open_key_space: does the entry exist, read it, store it back with   *)
(* opened = 1 (KVS_STORE_POST: the entry is created if it is gone).        *)
(***************************************************************************)
Open(p, n) == \/ hd[p] = NoName /\ Begin(p, "open", n, "exist")
              \/ hd[p] = n /\ Refuse(p, "open", n, "KS_OPEN")

\* A read of the entry: code is what its absence is reported as.
ReadEntry(p, pc, code, next) ==
    /\ At(p, pc)
    /\ \E io \in Io(p) :
          LET r == Check(io, entry[EntryKey(call[p].name)] = "none", code) IN
          \/ r # "SUCCESS" /\ Return(p, r)
          \/ r = "SUCCESS" /\ Goto(p, next, <<>>, r, io)
    /\ UNCHANGED <<device, hd, left>>

\* The store that ends an open or a close, with the handle it leaves.
StoreEntry(p, pc, state, handle) ==
    /\ At(p, pc)
    /\ \/ "SYS_IO" \in Io(p) /\ Return(p, "SYS_IO") /\ UNCHANGED <<entry, hd, left>>
       \/ /\ entry' = [entry EXCEPT ![EntryKey(call[p].name)] = state]
          /\ left' = left \ {EntryKey(call[p].name)}
          /\ hd' = [hd EXCEPT ![p] = handle]
          /\ Return(p, "SUCCESS")
    /\ UNCHANGED <<list, pairs>>

ExistEntry(p) == ReadEntry(p, "exist", "KS_NOT_EXIST", "open_read")
OpenRead(p) == ReadEntry(p, "open_read", "KEY_NOT_EXIST", "open_store")
OpenStore(p) == StoreEntry(p, "open_store", "opened", call[p].name)

(***************************************************************************)
(* kvs_close_key_space: the handle goes only if the entry could be stored. *)
(***************************************************************************)
Close(p) == hd[p] # NoName /\ Begin(p, "close", hd[p], "close_read")
CloseRead(p) == ReadEntry(p, "close_read", "KEY_NOT_EXIST", "close_store")
\* Mutant: close drops the handle even if the entry could not be stored.
CloseStoreAnyway(p) ==
    /\ At(p, "close_store")
    /\ \E io \in Io(p) :
          /\ entry' = IF io = "SUCCESS" THEN [entry EXCEPT ![EntryKey(call[p].name)] = "closed"]
                      ELSE entry
          /\ Return(p, io)
    /\ hd' = [hd EXCEPT ![p] = NoName]
    /\ UNCHANGED <<list, pairs, left>>

CloseStore(p) == StoreEntry(p, "close_store", "closed", NoName)

\* kvs_store_kvp through an open handle: the pair goes to key space id 1,
\* whichever name was opened.
StorePair(p) ==
    /\ At(p, "idle") /\ hd[p] # NoName
    /\ pairs' = pairs \cup {"pair"}
    /\ UNCHANGED <<list, entry, call, hd, last, before, left, crashes>>

\* The entry of the handle that client p loses, if it has one.
Dropped(p) == {EntryKey(n) : n \in {hd[p]} \ {NoName}}

\* kvs_close_device frees the handles of the key spaces that are open and stores
\* nothing.  The process opens the device again before its next call (DeviceEnv).
LeaveDevice(p) ==
    /\ At(p, "idle")
    /\ hd' = [hd EXCEPT ![p] = NoName]
    /\ left' = left \cup Dropped(p)
    /\ UNCHANGED <<device, call, last, before, crashes>>

Crash(p) ==
    /\ crashes < MaxCrashes /\ (call[p] # NoCall \/ hd[p] # NoName)
    /\ crashes' = crashes + 1
    /\ call' = [call EXCEPT ![p] = NoCall]
    /\ hd' = [hd EXCEPT ![p] = NoName]
    /\ last' = [last EXCEPT ![p] = NoResult]
    /\ left' = left \cup Dropped(p)
    /\ UNCHANGED <<device, before>>

Step(p) ==
    \/ \E n \in Names : Create(p, n) \/ Delete(p, n) \/ Open(p, n)
    \/ AddRead(p) \/ AddStore(p) \/ RemoveRead(p) \/ RemoveStore(p)
    \/ CreateEntry(p) \/ DeleteEntry(p)
    \/ ExistEntry(p) \/ OpenRead(p) \/ OpenStore(p)
    \/ Close(p) \/ CloseRead(p) \/ CloseStore(p)
    \/ StorePair(p) \/ LeaveDevice(p) \/ Crash(p)

Next == \E p \in Clients : Step(p)

Spec == Init /\ [][Next]_vars

(***************************************************************************)
(* Properties.                                                             *)
(***************************************************************************)
Quiet == \A p \in Clients : call[p] = NoCall

\* _add_to_key_space_list's limit holds whatever calls interleave: the list never
\* has more than KS_MAX_CONT names, and never one twice.
ListWithinMax == Len(list) <= MaxKs /\ IsInjective(list)

\* A call that returns an error has put back what it changed: the list and the
\* entries are what they were when it began (the rollbacks of create and delete).
ErrorChangesNothing ==
    Quiet => \A p \in Clients :
        last[p].ret # "SUCCESS" => before[p] = <<list, Existing>>

\* Between calls the persisted opened flag is set exactly while a handle is open, and
\* after a handle was dropped by kvs_close_device or a crash, which do not reset it,
\* until the key space is opened and closed again or deleted.
FlagTracksHandle ==
    Quiet => \A s \in Stems :
        entry[s] = "opened" <=> s \in left \cup UNION {Dropped(p) : p \in Clients}

\* A crash in the middle of one create or delete leaves at most one key space
\* half made, whatever calls follow.
DamageBounded ==
    LET listed == {EntryKey(n) : n \in Range(list)} IN
    Quiet => Cardinality((listed \ Existing) \cup (Existing \ listed)) <= crashes

=============================================================================

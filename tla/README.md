# Verification of the KV SSD host software

This directory holds TLA+ specifications of the Platform Development Kit (PDK) of
the KV SSD host software, the TLC configurations that model-check them, and
proofs checked by TLAPS. Paths below are relative to the repository; `core/` stands for
`src/PDK/core/`, and "emulator" for `core/src/device_abstract_layer/emulator/src/`.

## 1. The system

An application calls the SNIA key-value API (`core/include/kvs_api.h`). The library
keeps open devices and key spaces (`cfrontend.cpp`) and hands tuple calls to a driver
object, one of three:

```
 application threads              post-process functions (callbacks)
        |                                     ^
  API front end    cfrontend.cpp: g_env, open devices, key space list and entries
        |
  KvsDriver  ----  KvEmulator          KDDriver              KUDDriver (SPDK)
                   kvemuldriver.cpp    kvkdd.cpp             kvudd.cpp
                        |                  |                     |
  ADI              kv_device.cpp       kadi.cpp, kvs_adi.cpp libkvnvmedd.a
                   queue.cpp               |
                   kv_emulator.cpp     NVMe driver core.c: aio contexts, eventfd
```

| part | state | operations | hard behaviours |
|---|---|---|---|
| emulator queues, `queue.cpp`, `queue.hpp` | two circular buffers, shutdown flags, a worker and an interrupt thread | enqueue, dequeue, poll, the two thread loops, terminate, remove | full queues at both ends, a callback that submits again, shutdown while a thread waits, deletion of a queue in use |
| emulator driver, `kvemuldriver.cpp` | pool of contexts, `done_sync`, results | tuple calls, `on_io_complete`, destructor | a completion before the wait, reuse of a context, an empty pool, close with requests outstanding |
| emulator store, `kv_emulator.cpp` | ordered map per key space, `m_available`, iterator table | store, retrieve, delete, exist, group delete, purge, iterator open / next / close | scans between which the map changes, ids used again, unsigned arithmetic |
| tuple calls, all layers | the pairs | validation, option translation, execution, code conversion | limits and offsets at their edges, a refusal that must change nothing |
| queue table, `kv_device.cpp` | id to queue, pairs of ids, handles | create, delete, handle queries, cleanup | ids used again while pointers live, a query that writes into handles |
| key spaces, `cfrontend.cpp` | a list and one entry per key space, on the device | create, delete, open, close, close of the device | I/O failing half way, crashes, handles dropped while open, two processes, names that share a metadata key |
| device environment, `cfrontend.cpp` | `g_env`: device list, count, options flag | open, close, exit, device queries | error paths half way, a mutex that is not recursive |
| kernel driver adapter, `kvkdd.cpp`, `kadi.cpp` | command contexts, kernel event list, eventfd count | tuple calls, completion in the kernel, event thread, close | signal after listing, batches, ioctls that fail, callbacks that call again |
| aio contexts, NVMe driver `core.c` | a table of reference counted contexts, ids, event lists | set, delete, get events, completion workers, reload of the module | lookup without the lock, ids used again, full table, failing copies, processes that die |
| key-value commands, `core.c` | what a command has allocated, mapped and pinned; the disk's I/O accounting | submit, completion, the worker that finishes an asynchronous command | a failure at each of seven acquisitions, two functions that share the release |

`PROJECT.json` lists every part, the hazards each is exposed to (at the line where they
bite), and the map from definitions to source lines.

## 2. Modules

| module | models | correspondence |
|---|---|---|
| `EmulQueue` | the queue pair | one action per critical section of `list_mutex`; `worker` and `reaper` are the two threads, `call[c]` the `submit_io` call for a command; a call that reaches a deleted queue may do either of the things a read of freed memory can lead to (`WildCall`) |
| `FifoService` | what the pair promises the layer above: accepted commands are posted once, in order | abstract specification; `EmulQueue` implements it with `open <- DeviceOpen` |
| `EmulDriver` | `KvEmulator` on top of `FifoService` (it extends it, so the composition uses the promise and not the two buffers) | `Call`, `Alloc`, `SubmitCommand`, `RefuseCommand`, `Wake` for a call; `CompleteSync`, `CompleteAsync`, `CallbackReturn` for `on_io_complete`; `Close`, `Join` for the destructor |
| `KeyOrder`, `KvStore` | the order of keys and the store with its iterators | each command is one step, as the single worker executes it; a scan takes the part of its group that lies before the first key that does not match or does not fit (`Batch`); `scan` and `resp` are histories |
| `KvMap`, `KvpCalls` | a map with truthful answers; the tuple calls from the front end down to the map and back | `KvpCalls` keeps the source's limits (4..255, 2 MiB, units of 512 and 4) and implements `KvMap`; the mapping's `Forwarded` is what `KDDriver` makes of a retrieve with delete |
| `QueueTable` | ids, pairs and handles of `kv_device_internal` | objects are told apart by serial numbers, so a pointer to a deleted queue is visible; `GetQueueHandles` writes ids into handles and leaves their pointers, as the code does, and `renamed` remembers it |
| `KeySpaces` | key space management over the device | one action per I/O; failures and crashes between any two; `LeaveDevice` is `kvs_close_device`, which frees open handles without a store, and `left` is the history of entries whose handle went that way or with its process |
| `DeviceEnv` | opening and closing devices | `MutexFree` and `stuck` model `env_mutex` locked twice by one thread |
| `SsdCalls` | the same tuple calls over `KDDriver` (`kvkdd.cpp`) and `KUDDriver` (`kvudd.cpp`) | extends `KvpCalls`; the drivers' own refusals, submissions and commands that fail, any order of execution, conversion of lengths and codes; implements the same `KvMap`. The device and `libkvnvmedd.a` have no source and are external |
| `KadiAio` | `KDDriver`, `KADI` and one kernel aio context | contexts with their index as request id, `list` / `unsig` / `efd` in the kernel, `poll` for the event thread |
| `AioTable` | the NVMe driver's table of aio contexts | one step per critical section of `g_kaioctx_tb_spinlock`; `find_kaioctx`, which does not take it, reads the slot in one step and the reference in another; `late` is set when freed memory is about to be touched, and behaviours stop there |
| `KvCommand` | what one key-value ioctl acquires and releases | `held` is what the command has, `cb` what its control block says, `place` the step of `__nvme_submit_kv_user_cmd`; the labels are `Leave` |

Values, names and payloads are model values or small sets; control (guards, early
returns, error paths, order of steps) follows the code. Definitions with a comment
`Mutant:` are variants of a definition with a plausible bug; no specification uses
them. They exist to show that each property notices the bug it is meant for.

`MC*` modules prepare a module for TLC. Five of them add a variable `mode`, fixed
in the initial state, so that one run covers several uses of a component: the same
actions with other constants (`INSTANCE ... WITH`) or with inputs restricted.

## 3. Runs

TLC finishes each passing run in under three minutes with two workers.

| run | instance | what it shows |
|---|---|---|
| `queue_pair` | 6 commands, 2 of them submitted by callbacks, depths 2 and 1; modes interrupt, polling (closes when drained), cleanup (completion queue removed first) | `PipelineInOrder`, `NoUseInOrder`, `ImplementsFifo`; `AcceptedCompletes`, `WaitingReturns`, `CloseCompletes` |
| `key_spaces` | `KS_MAX_CONT` is 1, as in `private_types.h:67`; one process with 1 failing I/O per call and 2 crashes, with names that differ before their last character (alone) or not (alike); two processes (shared) | `ListWithinMax` in all modes, `ErrorUndoneAlone`, `FlagTracksAlone`, `DamageBoundedAlone` |
| `driver` | 6 requests: synchronous, asynchronous, from a callback, refused; pools of 2 and of 5 contexts | `PoolPartition`, `OwnResult`, `NeverStarved`, `SyncReturns`, `AsyncDelivered`, `CloseEnds` |
| `store` | 5 keys around a group, buffers smaller than a group and smaller than one pair; two iterators over two key spaces; byte counting past capacity and through the wrap | `ScanComplete`, `ScanAdvances`, `TableMatches`, `AvailableExactAlone` |
| `tuple_calls` | the three drivers; keys of length 3, 4, 255, 256; lengths and offsets around their units; key arrays of 1, 8 and 9; 2 calls in flight | `MapImplemented`, `RetrieveExact`, `ExistExact` |
| `table_safety` | 4 ids, 5 objects, so ids are used again | `PairsMatch`, `HandleExact` |
| `env_safety` | 2 threads, 2 paths, 3 handle addresses | `CountExact`, `OnePerPath` |
| `kadi` | 6 requests, 2 contexts, batches of 1, 2 threads, failing ioctls, close at any time | `EventOwner`, `Counted`; `CallsReturn`, `AsyncDelivered`, `CloseEnds` |
| `aio_table` | 2 processes, 2 workers, 2 commands, 3 context addresses; tables of 2 slots with failing copies, bad arguments and a full table (faults), of 3 slots (ids), of 2 slots with two commands on two workers (load) | `RefsExact`, `IdsExact`, `EventsPlaced`, `OwnEvents`, `CallsEnd` |
| `kv_command` | 2 commands of every kind (synchronous or not, with and without value, aligned or not, three ways to pass a key), a failure at every step | `AllReturned`, `DeviceMemory`, `AcctExact` |
| `store_group`, `kadi_exist_hang` | small instances | each refutes one statement of the repository (section 6) |

**Why the bounds are enough.** The hazards are about a full or empty buffer, one
element more or less than a batch, two actors at one step, a second use of an
id or context. Each instance has one element more than the resource it contends for:
six commands are SqDepth + CqDepth + 3, the smallest number with which a callback can
block the whole pair; five requests that need a context compete for two; five
objects share four ids; two processes set and delete contexts in tables of two and three
slots, so that ids wrap and a table fills up. The crash bound is 2, so that damage can add up. `Word` in
`KvStore` and `KvpCalls` stands for 2^64 and 2^32; TLC's integers are too small for
these, and every sum and difference is taken modulo `Word`. `MaxDrift` in `KvCommand`
bounds how far the disk's accounting may be off when a command begins: once it is off
`AcctExact` says nothing, and no step depends on it. `MaxLeaks` in `MCAioTable` bounds
the contexts that bad arguments leak. `KS_MAX_CONT` is the source's own 1; `KeySpaces`
takes it as a constant, and with 2 `ErrorUndoneAlone` no longer holds for names that
share a metadata key, because the rollback of the second create can then fail.

**Reductions.** `table_safety`, `env_safety` and `key_spaces` use symmetry
and check only invariants. `queue_pair` checks liveness, so it has no symmetry set;
`Numbered` makes calls begin in the order of the commands' numbers, which names
interchangeable commands and removes no behaviour up to renaming. The `VIEW`s of
`key_spaces`, `store` and `tuple_calls` leave out history or answer variables that do not
influence later steps; the comment at each says which, and why the properties are
unaffected.

**Deadlock checking** is off in `queue_pair`, because a pair held by its callback
really stops, in `driver` and `kadi`, which end when all requests are made, in `aio_table`, which
ends where freed memory is touched or the spinlock is lost, and in `kv_command`, which
ends where a store dereferences a null pointer (section 6).

**Fairness** is, except in `aio_table`, weak fairness of: each thread's loop (worker, reaper, event thread,
kernel workers); a call that has begun; the closing thread once it has begun. The
threads are ordinary threads whose waits either have timeouts (10 microseconds in
`queue.cpp`, 5 seconds in `get_cmd_ctx`, `select` in `poll_completion`) or test their
condition under a mutex and are notified under it (`done_cond_sync` and
`ctx_pool_notfull` in `kvemuldriver.cpp`), so an enabled step is not passed over for
ever. In `aio_table` a call that waits for the spinlock has strong fairness, which the
kernel's queued spinlocks justify: others may take the lock in between, but not for
ever. A delete begins, in the model, when it gets the lock; its wait is not a state,
and `CallsEnd` is about deletes that have it. That the device answers each command is assumed. Nothing obliges the
application to call or to close. The liveness properties name their exceptions:
`Held` in `EmulQueue`, `CallbackInside` and `dropped > 0` in the drivers, `lock = "lost"`
and `late` in `AioTable` (section 6).

## 4. Proofs

All theorems hold for every value of the constants that satisfies the named
assumptions (depths and counts positive, sets disjoint where they must be).

`EmulQueue_proofs`
 * `TypeCorrect`: buffers within their depth, a command in a thread's hand exactly
   between dequeue and hand-over.
 * `PipelineCorrect`, `PrefixCorrect`: `PipelineInOrder` says nothing once a queue is
   down, so it is not inductive. `OrderInv` adds what survives a shutdown: until the
   completion queue goes down, what has left the submission queue begins the line of
   accepted commands; and what was posted, with what the reaper has in hand, always
   does. `TakeFront` and `PutBack` move the boundary between
   neighbouring stages; `StandingStep` goes through the actions.
 * `OnceCorrect`: from the prefix property, with `CallInv`: a command in `accepted` has
   a call that returned, and occurs once.
 * `FifoSafety`: each step of the pair is a step of `FifoService` or a stutter.
 * `DeleteSafety`, `OrderSafety`: unless the completion queue goes first (`~CqFirst`)
   neither the worker nor an application's call uses a deleted queue (a callback's call
   still may), in `EmulQueue` and in the modes of `MCEmulQueue`. `CloseInv` says which
   thread is gone when a queue is.

`EmulDevice_proofs`, for `QueueTable`
 * `TableTypes`, `PairsCorrect` (assumes `CqNamed`: callers pair submission queues with
   completion queues, which the code does not check; `PairsStrong` adds that the
   partner is a completion queue and the very object the worker posts to, and that other
   ids have no partner).
 * `HandlesCorrect`: until `kv_get_queue_handles` writes an id other than a handle's own
   into it (`renamed`), each handle's id and pointer name one queue. After that they do
   not (section 6).

`EmulDevice_proofs`, for `KvStore`
 * `TableMatchesCorrect`: `m_it_map` and `m_iterator_list` describe the same iterators.
 * `WholeScanCorrect`, `ScanCompleteCorrect`: that a scan is complete at its end is not
   inductive. `ScanInv` says that what a scan has returned lies below its position, that
   the position is in the group, and that what it still owes lies at or above it. The
   lemmas about `Batch` and `Least` use that the map's order is total (`KeyOrdered`)
   and that a finite set of keys has a least one (`LeastKey`). `WholeScanCorrect` holds for every set of
   conditions and speaks of scans by no or by all leading bytes; `ScanCompleteCorrect`
   states `ScanComplete` for callers that use only those. With fewer bytes it is false
   (section 6).
 * `ScanAdvancesCorrect`, for every buffer and every length: a call reports the end, moves
   the position, or stands at a pair that is larger than the empty buffer (`Stuck`), which
   the front end's fixed 32 KB allows. `PastStart` says that nothing else keeps a call where
   it is.
 * `AvailableCorrect`: `AvailableExact` under `CountSpec`, which has all operations on one
   key space but overwrites and scans that delete; with those it is false (section 6). It is
   what `AvailableExactAlone` checks in mode `space`, with scans added. The sum of the
   lengths is written as the number of units the pairs take up (`Units`), so that each
   operation adds or removes a disjoint set (`UnitsAdded`, `UnitsRemoved`) and no induction
   over the pairs is needed. `ModAdd` is why a counter that wraps stays exact.

`KddPath_proofs`, for `KadiAio`
 * `KadiTypes`; `CountedCorrect`, with `NothingLeft` (outside a round nothing of the
   count is left).
 * `PoolCorrect`: `EventOwner` is not inductive, because releasing a context for one
   event could take it from another. `PoolStrong` adds `OneEach` (a context has one
   command in one place) and `Fresh` (a request has no command before its ioctl).
 * `DeliveredCorrect`: `HandedStrong` adds that a request whose command or event is on its
   way has not been handed over yet, and that one handed over was queued.

`AioTable_proofs`
 * `TableTypes`, `RefsCorrect`, `IdsCorrect`. The invariant `Table` is `Types /\ (Sane => Struct)`:
   the properties speak of states before freed memory is touched or a copy to the user
   fails, and so does `Struct`. Its parts: a lookup that has no reference yet found a live
   context; a context about to enter the table belongs to one call; one that entered it
   and whose id was not told is in its slot; a context in the table carries its slot's id;
   an id that was told is of one process; a deletion has the spinlock. `RefsHeld` needs
   all of them, since each step moves one holder from one set to another.

`AioEvents_proofs`, which extends it
 * `PlacedCorrect`: `Hands` says what a thread can hold at each step of its call, and holds
   in all states; `Spots` that a kaiocb on a list or in a hand is there once and says so;
   `Kept` that one that says it is listed is on a list. The last needs `Struct`, since a
   context that was freed early would take its list along.

`AioOwn_proofs`, which extends that
 * `OwnCorrect`: `OwnEvents` also covers states after a failed copy, where `Struct` no
   longer holds. `Core` keeps of it what survives: the count of a context is at least the
   number of its holders, lookups are on live contexts, and a live context in the table
   has the id of its slot. `Fresh` says that an id that is about was given since the module
   was loaded and is of one process; a new context gets one that nobody has, until the
   ids wrap. `Owned` follows a command's id from the submission to the hand of the process.

`KddPath_proofs`, for `KvCommand`
 * `CommandTypes`, `ReturnsCorrect`, `DeviceMemoryCorrect`: `Right` says, for each step of
   the submit path, exactly what a command of a kind holds there and what its control block
   says; the labels and the worker then release just that. `AccountingCorrect` follows the
   set of commands in flight through each step.

`Drivers_proofs`, for `EmulDriver`
 * `PoolCorrect`, `OwnResultCorrect`: `Placed` gives every context one place, and `Stands`
   says what a request has where it stands; in particular, while a command is in the
   queues its context is held and, for a synchronous call, not yet done. The queues are
   `FifoService`, which `FifoSafety` shows the queue pair to implement.
 * `NeverStarvedCorrect`: `Counts` bounds the holders of contexts by four sets: the calls
   of the threads, the call inside the callback, the commands in the queues, and the
   callback's own request.

`Drivers_proofs`, for `KvpCalls` and `SsdCalls`
 * `MapCorrect`: every step, over each of the three drivers, is a step of `KvMap` or leaves
   its variables alone. `Typed` adds to the types that a call in flight has passed its
   driver's checks. A successful retrieve with `kvs_retrieve_delete` has to take the pair
   (`MapTake`); the emulator and `KUDDriver` refuse the option, and `KDDriver` turns such a
   call into a plain retrieve, which is what the mapping's `Forwarded` says (section 6).
 * `RetrieveCorrect`, `ExistCorrect`: the action properties, from the same invariant, for
   every length, offset, `Word` and array of keys.

`FrontEnd_proofs`, for `DeviceEnv`
 * `CountCorrect`, `OnePerPathCorrect`: the two properties with the types are inductive
   together. The last close finds the list empty because the count is exact, which is
   why it does not lock `env_mutex` twice.

`FrontEnd_proofs`, for `KeySpaces`
 * `ListCorrect`: a call stores a list made from one it read earlier, so `ListWithinMax`
   is not inductive. `Ready` says that what a call is about to store keeps the limit by
   itself. `AppendWithin` and `RemoveWithin` are about the two ways a copy is made.
 * `ErrorUndoneCorrect`, `DamageBoundedCorrect`: for a single process. Neither property
   says anything of a call in progress. `AloneState` does: the call has changed nothing
   (`Forward`), has changed the list but not yet the entry (`Halfway`), or has failed there
   and is changing the list back (`Undoing`), in which case no further I/O may fail or the
   entry was there before. Assumed are `MaxKs = 1`, the source's `KS_MAX_CONT`, and at most
   one failing I/O in a call; without them `ErrorUndoneAlone` is false (sections 3 and 6).
 * `FlagTracksCorrect`: `FlagState` ties the handle, the opened flags and the handles
   dropped without a close (`left`) together at every step of a call, for any `KS_MAX_CONT`
   and any number of failing I/Os, crashes and closes of the device.

Several components share a proof module; where names collided, the names of the smaller
one carry a prefix (`EnvInit`, `TableInit`, `CommandInit`, `DriverInit`). Each proof module
sets the order of the provers and their time limits: `Zenon` first, then SMT. A leaf that
needs arithmetic, records or sequences names `SMTT(20)`, which saves the first attempt. A
fact that only one theorem needs is a named step at the beginning of its proof.

Only model-checked: all liveness (the prover has no ENABLED).

## 5. Not modelled

 * The libraries that make up most of the repository's lines: RocksDB, SPDK and DPDK
   below `src/application/kvbench`. They are other projects' code, and the part of SPDK
   that `KUDDriver` uses comes as `libkvnvmedd.a`. The samples, tests and kvbench itself
   only call the API.
 * Of `KUDDriver`: its pool of `kv_pair`s, the choice of a queue, and its iterators. What
   gives a pair back is the library's callback, whose thread and timing the source does
   not show. `exist_tuple` looks only at the first key.
 * Of the NVMe driver: the encoding of commands, the copies between pages, the block and
   PCIe layers, which are the kernel's. The driver is kept once per kernel version; the
   models and the map are of 4.15.18. The `EPOLL_DEV` variant of `kadi.cpp` is not
   compiled (line 31) and not modelled.
 * Iterators of `KDDriver`: they live in firmware.
 * Key spaces over `KUDDriver` in asynchronous mode: `_sync_io_to_meta_keyspace` and
   `_exist_key_space_entry` then return what the submission returned and not `async_result`
   (`cfrontend.cpp:733-739`, `:786-791`), so a metadata I/O that fails is taken for a success.
 * A key space named `key_space_list` and one more character: its truncated key is the one
   of the list (`cfrontend.cpp:54`, `:987-1001`, `:1072-1080`), and its entry overwrites
   the list. `KeySpaces` keeps entries and list apart.
 * Configuration files and the latency model: they delay and change no result.
 * C wrappers and information calls, which cast, forward or report.
 * Branches for `is_polling = 1` of the drivers: `g_env` is initialised with 0
   (`cfrontend.cpp:64`) and nothing sets it. `EmulQueue` has polling, since the queues support it.
 * `MAX_POOLSIZE` is 10240: `NeverStarved` shows that a pool of Room + Threads + 2
   is never empty, for every number of threads (`NeverStarvedCorrect`), so this matters
   only for queues of that depth.
 * `DeviceEnv` assumes (`Careful`) that no thread closes a handle another thread is
   using; the queries read `open_devices` without `env_mutex`, and nothing in the code
   protects them otherwise.
 * `AioTable` and `KadiAio` are not composed: `KadiAio` has one context, which stays
   in the table for the life of the device handle, and `AioTable` leaves the eventfd out.

## 6. Where code and documents disagree

Shown by a run:

 * `store_group`: a scan by fewer than four bytes stops before the end of its
   group (`kv_emulator.cpp:397`, `kvs_adi.h:1130`).
 * `kadi_exist_hang`: a failed ioctl in `KADI::exist` is taken for success
   (`kadi.cpp:678`, `kernel_driver_adapter/kvs_adi.cpp:535`).

Met while modelling, part of the models' behaviour, and the reason for the
exceptions and conditions in the properties:

| code | behaviour | document |
|---|---|---|
| `queue.cpp:71` | a callback that submits can block for ever on a full pair (`Held`) | `kvs_adi.h:1443` |
| `cfrontend.cpp:749` | the metadata key lacks the last character of the name | `kvs_api.h:375` |
| `cfrontend.cpp:1294` | deleting a key space leaves its pairs | `kvs_api.h:300` |
| `cfrontend.cpp:1264` | a crash in a create leaves a listed name without an entry | `kvs_api.h:375` |
| `cfrontend.cpp:1143` | concurrent creates of two processes may lose one name | `kvs_api.h:284` |
| `cfrontend.cpp:520` | closing a device drops open key space handles and leaves their entries marked opened | `private_types.h:235`: "is this key space opened, 1:open, 0:close" |
| `cfrontend.cpp:1282` | a delete does not close the key space for other processes | `kvs_api.h:301` |
| `kvemuldriver.cpp:657`, `kadi.cpp:159` | closing drops outstanding requests without their callback | `kvs_api.h:552` |
| `kvemuldriver.cpp:646` | closing hangs while a callback waits for a context | `kvs_api.h:130` |
| `kv_emulator.cpp:110`, `:247` | overwrites and purges miscount `m_available` | `kvs_adi.h:464` |
| `kv_emulator.cpp:86` | the capacity test never refuses a store | emulator `README:42` |
| `kv_emulator.cpp:386` | a scan goes on after its end | `kvs_adi.h:1205` |
| `kv_emulator.cpp:413`, `cfrontend.cpp:1701` | an entry larger than the buffer, which is 32 KB, makes every call return nothing without the end flag (`Stuck`) | `kvs_adi.h:1205` |
| `kv_emulator.cpp:99` | a group changes while it is scanned | `kvs_adi.h:1203` |
| `kv_emulator.cpp:571` | closing an iterator that is not open succeeds | `kvs_adi.h:1189` |
| `kv_emulator.cpp:302` | an iterator of one key space refuses the same group in another | `kvs_api.h:750` |
| `kv_emulator.cpp:641` | group deletion compares only the 1 bits of the pattern, so it may delete keys outside the group | `kvs_adi.h:1322` |
| `kvemuldriver.cpp:165` | the reported actual size is reduced by the offset | `kvs_api.h:453` |
| `cfrontend.cpp:1496` | a null option is refused | `kvs_api.h:459` |
| `kv_device.cpp:380` | a submission queue may be paired with another one | `kvs_adi.h:801` |
| `kv_device.cpp:628` | a refused deletion frees the handle | `kvs_adi.h:826` |
| `kv_device.cpp:676` | `kv_get_queue_handles` writes ids into the caller's handles and leaves their queue pointers (`renamed`) | `kvs_adi.h:837` |
| `kv_device.cpp:454` | cleanup may destroy a completion queue under its worker | `kv_device.cpp:586` |
| `cfrontend.cpp:513` | closing an unopened handle returns an undocumented code | `kvs_api.h:139` |
| `kadi.cpp:185` | a callback that calls again can wait for its own thread | `kvs_api.h:551` |
| `kadi.cpp:791` | a failed fetch strands the events it was for | `kvs_api.h:552` |
| `cfrontend.cpp:1296` | the rollback of a failed delete ignores its own result, so that with a second failure the name is gone from the list | comment at `cfrontend.cpp:1293` |
| `kvemuldriver.cpp:215` | `polling = true` leaves the driver without a thread that completes its synchronous calls | `kvssd_emul.conf:7`, `:9` |
| `core.c:385` | context id 0 is handed out once the ids have wrapped | comment at `core.c:254`: "context id 0 is reserved for normal I/O operations (synchronous)" |
| `core.c:279` | `find_kaioctx` takes its reference without the lock under which the last one is dropped (`late`) | |
| `core.c:380` | a full table leaves the spinlock locked (`lock = "lost"`) | |
| `core.c:406` | a failed copy clears the slot below the context's own, and frees the context to the pool of another type (`uncopied`); a bad argument leaks the context | |
| `core.c:1322` | an unaligned store whose pages cannot be mapped goes on with a null pointer (`place = "oops"`) | |
| `core.c`, `out_req_end` | ends an accounting that was not begun, and reads the opcode from a freed control block (`clean`) | |
| `kvkdd.cpp:420` | a failed retrieve may answer `BUFFER_SMALL` from a size left by an earlier use of the value | `kvs_api.h:474` |
| `kernel_driver_adapter/kvs_adi.cpp:551` | retrieve with delete over `KDDriver` succeeds and deletes nothing; the emulator (`kv_device.cpp:1266`) and `KUDDriver` (`kvudd.cpp:496`) refuse it | `kvs_struct.h:87` |
| `kvkdd.cpp`, `kvudd.cpp` | `KDDriver`'s exist answers 1 on any other error; with an offset `KUDDriver`'s retrieve answers `BUFFER_SMALL` | |

## 7. Plan

 1. `AioTable` with the eventfd of each context, so that it implements the one of `KadiAio`.
 2. Key spaces with two processes: what survives concurrent opens and closes.

## 8. Running

```
tlc -workers 2 -config EmulQueue.cfg MCEmulQueue     # a run: see PROJECT.json
tlapm EmulQueue_proofs.tla                           # proofs of a component
```

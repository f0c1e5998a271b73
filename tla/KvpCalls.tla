------------------------------ MODULE KvpCalls ------------------------------
(***************************************************************************)
(* The tuple calls of the API on one open key space over the emulator:     *)
(* kvs_store_kvp, kvs_retrieve_kvp, kvs_delete_kvp, kvs_exist_kv_pairs and *)
(* their asynchronous forms.  A call is checked by the front end           *)
(* (cfrontend.cpp), translated by the driver (kvemuldriver.cpp), checked   *)
(* again and queued by the device (kv_device.cpp), executed by the worker  *)
(* (kv_emulator.cpp), and its return code converted on the way back.       *)
(* Lengths, offsets and limits are the source's own numbers.               *)
(***************************************************************************)
EXTENDS Integers, Sequences, FiniteSets

CONSTANTS
    Spaces,    \* keyspace_id of the key spaces used
    Keys,      \* keys
    KeyLen,    \* KeyLen[k]: the length of key k
    Drivers,   \* the drivers the API is built with
    Bytes,     \* the contents a value is filled with
    Lens,      \* value->length of the calls
    Offsets,   \* value->offset of the calls
    KeyLists,  \* the key arrays of kvs_exist_kv_pairs
    Sizes,     \* list->length of kvs_exist_kv_pairs
    Depth,     \* bound: calls in flight
    Word,      \* 2^32: lengths are unsigned; TLC's integers need it smaller
    None       \* no value

MinKey == 4
MaxKey == 255
MaxValue == 2097152
OffsetUnit == 512
LengthUnit == 4
MaxSpaces == 2

ASSUME CallsAssumption ==
    /\ KeyLen \in [Keys -> Nat] /\ Lens \subseteq Nat /\ Offsets \subseteq Nat
    /\ KeyLists \subseteq Seq(Keys) /\ Sizes \subseteq Nat
    /\ Depth \in Nat \ {0}
    /\ Word \in Nat /\ \A n \in Lens \cup Offsets : n < Word

VARIABLES
    kv,      \* m_map: the value of each pair of key space and key, or None
    flight,  \* accepted calls, in the order of the submission queue
    reply,   \* the last answer: call, code, and what retrieve and exist filled in
    driver,  \* the driver under the API: "emul", "kernel" or "user"
    stale    \* actual_value_size in the kvs_value of the caller's next retrieve

vars == <<kv, flight, reply, driver, stale>>

Places == Spaces \X Keys
Values == [fill : Bytes, len : Lens]
StoreOpts == {"post", "update", "nooverwrite", "append"}

Calls ==
    [op : {"store"}, at : Places, fill : Bytes, len : Lens, off : Offsets,
     opt : StoreOpts \cup {"null"}] \cup
    [op : {"retrieve"}, at : Places, len : Lens, off : Offsets, opt : {"keep", "delete", "null"}] \cup
    [op : {"delete"}, at : Places, opt : {"quiet", "error", "null"}] \cup
    [op : {"exist"}, space : Spaces, keys : KeyLists, size : Sizes]

\* len: value->length, actual: value->actual_value_size, fill: whose bytes were
\* copied, bits: the indices of the bits set in the result buffer, failed: the
\* device failed the command.
Reply(c, code) == [call |-> c, code |-> code, len |-> 0, actual |-> 0, fill |-> None,
                   bits |-> {}, failed |-> FALSE]

Init == /\ kv = [p \in Places |-> None]
        /\ flight = <<>>
        /\ reply = Reply([op |-> "none"], "success")
        /\ driver \in Drivers
        /\ stale = 0

(***************************************************************************)
(* The checks of the front end.                                            *)
(***************************************************************************)
KeyOK(k) == KeyLen[k] \in MinKey..MaxKey

\* validate_kv_pair_ on the value, after the key.
ValueCheck(c) == IF c.len > MaxValue THEN "valuelength"
                 ELSE IF c.off % OffsetUnit # 0 THEN "misaligned" ELSE "success"

FrontCheck(c) ==
    IF c.op = "exist"
    THEN IF c.keys = <<>> THEN "param"
         ELSE IF \E i \in DOMAIN c.keys : ~KeyOK(c.keys[i]) THEN "keylength"
         ELSE IF c.size <= 0 THEN "small" ELSE "success"
    ELSE IF c.opt = "null" THEN "param"
    ELSE IF ~KeyOK(c.at[2]) THEN "keylength"
    ELSE IF c.op = "delete" THEN "success"
    ELSE IF ValueCheck(c) # "success" THEN ValueCheck(c)
    ELSE IF c.op = "retrieve" /\ c.len % LengthUnit # 0 THEN "param" ELSE "success"

\* validate_key_value and the range of the key space in the device's kv_store,
\* kv_retrieve, kv_delete and kv_exist; the codes as code_map converts them.
DeviceCheck(c) ==
    LET keys == IF c.op = "exist" THEN {c.keys[i] : i \in DOMAIN c.keys} ELSE {c.at[2]}
        space == IF c.op = "exist" THEN c.space ELSE c.at[1]
    IN IF \E k \in keys : ~KeyOK(k) THEN "keylength"
       ELSE IF c.op \in {"store", "retrieve"} /\ ValueCheck(c) # "success" THEN ValueCheck(c)
       ELSE IF space \notin 0..(MaxSpaces - 1) THEN "sysio" ELSE "success"

Checked(c) == IF FrontCheck(c) # "success" THEN FrontCheck(c) ELSE DeviceCheck(c)

\* A call the checks refuse returns at once.
Refuse(c) == /\ driver = "emul" /\ Checked(c) # "success"
             /\ reply' = Reply(c, Checked(c))
             /\ UNCHANGED <<kv, flight, driver, stale>>

Submit(c) == /\ driver = "emul" /\ Checked(c) = "success"
             /\ Len(flight) < Depth
             /\ flight' = Append(flight, c)
             /\ UNCHANGED <<kv, reply, driver, stale>>

(***************************************************************************)
(* Execution by the worker, and on_io_complete.                            *)
(***************************************************************************)

\* Mutant: the pair is written before the option is looked at.
StoreFirst(c) == [code |-> IF c.opt = "nooverwrite" /\ kv[c.at] # None THEN "exists" ELSE "success",
                  kv |-> [kv EXCEPT ![c.at] = [fill |-> c.fill, len |-> c.len]]]

\* kv_emulator::kv_store; value->offset is not looked at.
StoreEffect(c) ==
    LET Fail(code) == [code |-> code, kv |-> kv] IN
    IF c.opt \in {"update", "append"} THEN Fail("option")
    ELSE IF c.opt = "nooverwrite" /\ kv[c.at] # None THEN Fail("exists")
    ELSE [code |-> "success", kv |-> [kv EXCEPT ![c.at] = [fill |-> c.fill, len |-> c.len]]]

DeleteEffect(c) ==
    IF kv[c.at] = None /\ c.opt = "error" THEN [code |-> "notexist", kv |-> kv]
    ELSE [code |-> "success", kv |-> [kv EXCEPT ![c.at] = None]]

Min2(a, b) == IF a <= b THEN a ELSE b

\* uint32_t subtraction.
Minus(a, b) == (a - b) % Word

\* Mutant: the length that remains does not take the offset into account.
RetrieveWhole(c) ==
    LET v == kv[c.at] IN
    IF c.opt = "delete" THEN Reply(c, "option")
    ELSE IF v = None THEN Reply(c, "notexist")
    ELSE IF c.off # 0 /\ c.off >= v.len THEN Reply(c, "badoffset")
    ELSE [Reply(c, IF c.len < v.len THEN "small" ELSE "success") EXCEPT
            !.len = Min2(v.len, c.len), !.actual = Minus(v.len, c.off), !.fill = v.fill]

\* kv_emulator::kv_retrieve, then on_io_complete: on every outcome the offset is
\* taken from actual_value_size, here 0 before the call.
Retrieve(c) ==
    LET v == kv[c.at]
        Fail(code) == [Reply(c, code) EXCEPT !.len = c.len, !.actual = Minus(0, c.off)]
    IN
    IF c.opt = "delete" THEN Fail("option")
    ELSE IF v = None THEN Fail("notexist")
    ELSE IF c.off # 0 /\ c.off >= v.len THEN Fail("badoffset")
    ELSE LET rest == Minus(v.len, c.off) IN
         [Reply(c, IF c.len < rest THEN "small" ELSE "success") EXCEPT
            !.len = Min2(rest, c.len), !.actual = Minus(v.len, c.off), !.fill = v.fill]

\* Mutant: a byte too few for a number of keys that is not a multiple of 8.
ExistFloor(c) ==
    IF Len(c.keys) \div 8 > c.size THEN Reply(c, "small")
    ELSE [Reply(c, "success") EXCEPT !.len = Len(c.keys) \div 8,
            !.bits = {i - 1 : i \in {j \in DOMAIN c.keys : kv[<<c.space, c.keys[j]>>] # None}}]

\* kv_emulator::kv_exist: bit bitpos - 8 * setidx of byte setidx.
Exist(c) ==
    LET bytes == ((Len(c.keys) - 1) \div 8) + 1
        Bit(i) == LET set == (i - 1) \div 8 IN 8 * set + ((i - 1) - set * 8)
    IN IF bytes > c.size THEN Reply(c, "small")
       ELSE [Reply(c, "success") EXCEPT !.len = bytes,
               !.bits = {Bit(i) : i \in {j \in DOMAIN c.keys : kv[<<c.space, c.keys[j]>>] # None}}]

ExecuteWrite == \E effect \in
        IF driver # "emul" \/ flight = <<>> THEN {}
        ELSE IF Head(flight).op = "store" THEN {StoreEffect(Head(flight))}
        ELSE IF Head(flight).op = "delete" THEN {DeleteEffect(Head(flight))} ELSE {} :
    /\ kv' = effect.kv
    /\ reply' = Reply(Head(flight), effect.code)
    /\ flight' = Tail(flight)
    /\ UNCHANGED <<driver, stale>>

ExecuteRead == /\ driver = "emul" /\ flight # <<>>
               /\ Head(flight).op \in {"retrieve", "exist"}
               /\ reply' = IF Head(flight).op = "retrieve" THEN Retrieve(Head(flight))
                           ELSE Exist(Head(flight))
               /\ flight' = Tail(flight)
               /\ UNCHANGED <<kv, driver, stale>>

Step(c) == Refuse(c) \/ Submit(c)

Execute == ExecuteWrite \/ ExecuteRead

Next == (\E c \in Calls : Step(c)) \/ Execute

Spec == Init /\ [][Next]_vars

(***************************************************************************)
(* Properties.                                                             *)
(***************************************************************************)
Codes == {"success", "param", "keylength", "valuelength", "misaligned", "sysio",
          "option", "exists", "notexist", "badoffset", "small", "capacity"}

\* The call as it is passed on: KDDriver drops kvs_retrieve_delete, and what it
\* answers is about a retrieve that keeps the pair.
Forwarded(c) == IF driver = "kernel" /\ c.op = "retrieve" /\ c.opt = "delete"
             THEN [c EXCEPT !.opt = "keep"] ELSE c

\* Every call of the API, as the driver passes it on, is a step of the map it
\* promises: success means that the effect asked for took place under the condition
\* of the option, any other code that nothing changed, and a code about the pair is
\* true at the moment the call takes effect.
Map == INSTANCE KvMap WITH content <- kv, call <- Forwarded(reply.call), code <- reply.code,
                           Absent <- None
MapImplemented == Map!MapSpec

\* A call in flight takes effect and is answered.
Answered(op) == Len(flight') < Len(flight) /\ reply'.call.op = op

\* The two answers of kvs_retrieve_kvp that are known to be wrong: KDDriver compares
\* the buffer with what an earlier retrieve left in the kvs_value, and KUDDriver
\* compares the bytes it got with the whole value.
Misjudged(c) == \/ driver = "kernel" /\ c.len < stale
                \/ driver = "user" /\ c.off > 0

\* kvs_retrieve_kvp delivers the bytes of the stored value from the offset on, as
\* many as the buffer holds, and answers success exactly when none is left out.
RetrieveExact == [][Answered("retrieve") /\ reply'.code \in {"success", "small"} =>
    LET c == reply'.call
        v == kv[c.at]
    IN \/ /\ v # None /\ reply'.fill = v.fill
          /\ c.off + reply'.len <= v.len
          /\ reply'.len <= c.len
          /\ (reply'.code = "success") <=> (c.off + reply'.len = v.len)
       \/ Misjudged(c) /\ reply'.code = "small"]_vars

\* kvs_exist_kv_pairs sets bit i of the buffer exactly when key i exists, counting
\* from the least significant bit of the first byte, and only inside the buffer.
\* KUDDriver looks at the first key only.
ExistExact == [][Answered("exist") /\ reply'.code = "success" /\ ~reply'.failed =>
    LET c == reply'.call
        asked == IF driver = "user" THEN {1} ELSE DOMAIN c.keys
    IN /\ reply'.len <= c.size
       /\ \A b \in reply'.bits : b < 8 * reply'.len
       /\ \A i \in asked : (i - 1) \in reply'.bits <=> kv[<<c.space, c.keys[i]>>] # None
    ]_vars

=============================================================================

------------------------------ MODULE SsdCalls ------------------------------
(***************************************************************************)
(* The same tuple calls over the two drivers of a real device: KDDriver    *)
(* (kvkdd.cpp) through the ADI of the kernel driver, and KUDDriver         *)
(* (kvudd.cpp) through the library of the user space driver.  The front    *)
(* end is the one of KvpCalls; the drivers differ in what they refuse, in  *)
(* how they turn the outcome of a command into an answer, and in that the  *)
(* device executes the commands in flight in any order.  The device itself *)
(* is known from the statuses the drivers convert.                         *)
(***************************************************************************)
EXTENDS KvpCalls

DeviceDriver == driver \in {"kernel", "user"}

\* What exist_tuple of KDDriver, the ADI's kv_store under it, and retrieve_tuple and
\* trans_store_cmd_opt of KUDDriver refuse after the checks of the front end.
KernelCheck(c) == IF c.op = "exist" /\ Len(c.keys) > 1 THEN "param"
                  ELSE IF c.op = "store" /\ c.opt = "append" THEN "option" ELSE "success"

UserCheck(c) == IF \/ c.op = "store" /\ c.opt \in {"append", "update"}
                   \/ c.op = "retrieve" /\ c.opt = "delete" THEN "option" ELSE "success"

DriverCheck(c) == IF FrontCheck(c) # "success" THEN FrontCheck(c)
                  ELSE IF driver = "kernel" THEN KernelCheck(c) ELSE UserCheck(c)

SsdRefuse(c) == /\ DeviceDriver /\ DriverCheck(c) # "success"
                /\ reply' = Reply(c, DriverCheck(c))
                /\ UNCHANGED <<kv, flight, driver, stale>>

\* The caller has one kvs_value, and so one retrieve in flight.
SsdSubmit(c) == /\ DeviceDriver /\ DriverCheck(c) = "success"
                /\ Len(flight) < Depth
                /\ c.op = "retrieve" => \A i \in DOMAIN flight : flight[i].op # "retrieve"
                /\ flight' = Append(flight, c)
                /\ UNCHANGED <<kv, reply, driver, stale>>

\* The ioctl, or the library's submission, fails.  An exist of KDDriver whose ioctl
\* fails is not answered at all (KadiAio).
SsdSubmitFails(c) == /\ DeviceDriver /\ DriverCheck(c) = "success"
                     /\ ~(driver = "kernel" /\ c.op = "exist")
                     /\ reply' = [Reply(c, "sysio") EXCEPT !.failed = TRUE]
                     /\ UNCHANGED <<kv, flight, driver, stale>>

(***************************************************************************)
(* The device executes a command, and its status is converted.             *)
(***************************************************************************)
\* The commands in flight without the i-th.
Without(f, i) == SubSeq(f, 1, i - 1) \o SubSeq(f, i + 1, Len(f))

Put(c) == [kv EXCEPT ![c.at] = [fill |-> c.fill, len |-> c.len]]

\* External: the device under the options the drivers pass on.
DeviceStatus(c) ==
    LET there == kv[c.at] # None IN
    CASE c.op = "store" /\ c.opt = "nooverwrite" /\ there -> "exists"
      [] c.op = "store" /\ c.opt = "update" /\ ~there -> "notexist"
      [] c.op = "delete" /\ c.opt = "error" /\ ~there -> "notexist"
      [] c.op = "retrieve" /\ ~there -> "notexist"
      [] c.op = "retrieve" /\ there /\ c.off # 0 /\ c.off >= kv[c.at].len -> "badoffset"
      [] OTHER -> "success"

SsdWrite(i) ==
    LET c == flight[i] IN
    /\ c.op \in {"store", "delete"}
    /\ kv' = IF DeviceStatus(c) # "success" THEN kv
             ELSE IF c.op = "store" THEN Put(c) ELSE [kv EXCEPT ![c.at] = None]
    /\ reply' = Reply(c, DeviceStatus(c))
    /\ flight' = Without(flight, i)
    /\ UNCHANGED <<driver, stale>>

\* fill_ioresult leaves the kvs_value alone unless the command succeeded, and
\* kdd_on_io_complete compares its two lengths either way.
KernelRetrieved(c, code) ==
    LET v == kv[c.at]
        actual == IF code = "success" THEN Minus(v.len, c.off) ELSE stale
        len == IF code = "success" THEN Min2(actual, c.len) ELSE c.len
    IN [Reply(c, IF len < actual THEN "small" ELSE code) EXCEPT
          !.len = len, !.actual = actual, !.fill = IF code = "success" THEN v.fill ELSE None]

\* The library returns the bytes copied as value.length and the full size as
\* value.actual_value_size (kv_types.h); udd_write_cb compares them on success.
UserRetrieved(c, code) ==
    LET v == kv[c.at]
        len == Min2(Minus(v.len, c.off), c.len)
    IN IF code # "success" THEN Reply(c, code)
       ELSE [Reply(c, IF v.len > len THEN "small" ELSE "success") EXCEPT
               !.len = len, !.actual = v.len, !.fill = v.fill]

\* The caller uses its kvs_value again as it is, or clears actual_value_size.
LeaveValue(c, r) == stale' \in IF c.op = "retrieve" /\ driver = "kernel" THEN {0, r.actual} ELSE {stale}

SsdRetrieve(i) ==
    LET c == flight[i]
        r == IF driver = "kernel" THEN KernelRetrieved(c, DeviceStatus(c))
             ELSE UserRetrieved(c, DeviceStatus(c))
    IN /\ c.op = "retrieve"
       /\ reply' = r
       /\ LeaveValue(c, r)
       /\ flight' = Without(flight, i)
       /\ UNCHANGED <<kv, driver>>

\* Both drivers ask about the first key and write one byte.
SsdExist(i) ==
    LET c == flight[i] IN
    /\ c.op = "exist"
    /\ reply' = [Reply(c, "success") EXCEPT !.len = 1,
                   !.bits = IF kv[<<c.space, c.keys[1]>>] # None THEN {0} ELSE {}]
    /\ flight' = Without(flight, i)
    /\ UNCHANGED <<kv, driver, stale>>

\* The device fails the command.  KDDriver's byte then says that the key exists, and
\* the asynchronous answer of KUDDriver is a field of the completion that is not
\* the status, beside a byte of the status.
FailedAnswers(c) ==
    CASE c.op = "exist" /\ driver = "kernel" -> {[Reply(c, "sysio") EXCEPT !.len = 1, !.bits = {0}]}
      [] c.op = "exist" /\ driver = "user" ->
             {[Reply(c, code) EXCEPT !.len = 1, !.bits = bits] :
                code \in {"success", "sysio"}, bits \in {{}, {0}}}
      [] c.op = "retrieve" -> {IF driver = "kernel" THEN KernelRetrieved(c, "sysio")
                               ELSE UserRetrieved(c, "sysio")}
      [] c.op = "store" -> {Reply(c, "sysio"), Reply(c, "capacity")}
      [] OTHER -> {Reply(c, "sysio")}

SsdFails(i) == \E r \in FailedAnswers(flight[i]) :
    /\ reply' = [r EXCEPT !.failed = TRUE]
    /\ LeaveValue(flight[i], r)
    /\ flight' = Without(flight, i)
    /\ UNCHANGED <<kv, driver>>

SsdStep(c) == SsdRefuse(c) \/ SsdSubmit(c) \/ SsdSubmitFails(c)

SsdExecute == /\ DeviceDriver
              /\ \E i \in DOMAIN flight :
                    SsdWrite(i) \/ SsdRetrieve(i) \/ SsdExist(i) \/ SsdFails(i)

AllNext == Next \/ (\E c \in Calls : SsdStep(c)) \/ SsdExecute

AllSpec == Init /\ [][AllNext]_vars

=============================================================================

-------------------------- MODULE FrontEnd_proofs --------------------------
(***************************************************************************)
(* Proofs about the front end of the API.                                  *)
(*                                                                         *)
(* DeviceEnv: the count of open devices, for any number of threads, paths  *)
(* and handles, with threads that close handles in use or without.         *)
(*                                                                         *)
(* KeySpaces: the limit on the key space list, for any number of           *)
(* processes, names, failing I/Os and crashes.  A process stores a list    *)
(* that it computed from one it read earlier; the invariant says that such *)
(* a copy keeps the limit by itself, whatever the list has become.  For a  *)
(* single process two more invariants: one follows list and entries        *)
(* through the I/Os of a call and of its rollback, as far as a crash or    *)
(* one failing I/O can leave them half changed; the other ties the opened  *)
(* flags to the handle.                                                    *)
(***************************************************************************)
EXTENDS MCKeySpaces, DeviceEnv, FiniteSetTheorems, TLAPS

\* Most steps are first-order, so Zenon is tried first; a step that needs more cites SMT.
USE ZenonT(10), SMTT(20)

(***************************************************************************)
(* The environment.                                                        *)
(***************************************************************************)
EnvTypes ==
    /\ initialized \in BOOLEAN /\ devs \in SUBSET Handles /\ num \in Nat
    /\ path \in [Handles -> Paths \cup {None}] /\ drivers \in SUBSET Handles
    /\ stage \in [Threads -> {"idle", "undo", "ask", "stuck"}]
    /\ using \in [Threads -> Handles \cup {None}]

\* The inductive invariant.
Listed == EnvTypes /\ CountExact /\ OnePerPath

\* At first no device is listed.
LEMMA InitListed == EnvInit => Listed
<1> SUFFICES ASSUME EnvInit PROVE Listed
    OBVIOUS
<1>1. EnvTypes
    BY DEF EnvInit, EnvTypes
<1>2. CountExact
    BY FS_EmptySet DEF EnvInit, CountExact, MutexFree
<1>3. OnePerPath
    BY DEF EnvInit, OnePerPath
<1> QED BY <1>1, <1>2, <1>3 DEF Listed

\* Every step keeps the invariant.
LEMMA NextListed == Listed /\ [EnvNext]_envVars => Listed'

\* A step that leaves the list alone, and the paths of what is on it.
<1>ListKept. ASSUME Listed, UNCHANGED <<devs, num>>, \A h \in devs : path'[h] = path[h] /\ h \in drivers', MutexFree'
             PROVE  CountExact' /\ OnePerPath'
    BY <1>ListKept, SMTT(20) DEF Listed, CountExact, OnePerPath, Freed
\* The list is finite, as the handles are.
<1>ListFinite. ASSUME Listed
               PROVE  IsFiniteSet(devs) /\ Cardinality(devs) \in Nat
    BY <1>ListFinite, EnvAssumption, FS_Subset, FS_CardinalityType DEF Listed, EnvTypes
\* A thread that returns does not hold env_mutex.
<1>ReturnFree. ASSUME EnvTypes, MutexFree, NEW t \in Threads, NEW code, EndCall(t, code)
               PROVE  /\ stage' \in [Threads -> {"idle", "undo", "ask", "stuck"}]
                      /\ using' \in [Threads -> Handles \cup {None}] /\ MutexFree'
    BY <1>ReturnFree DEF EnvTypes, EndCall, MutexFree
\* The paths through kvs_open_device.
<1>OpenListed. ASSUME Listed, NEW t \in Threads, NEW p \in Paths, NEW h \in Handles, OpenDevice(t, p, h)
               PROVE  Listed'
    <2> USE <1>OpenListed
    <2>1. h \notin devs
        BY DEF OpenDevice, Listed, OnePerPath
    <2>2. num' = Cardinality(devs') /\ num' \in Nat
        <3>1. devs' = devs \cup {h} /\ num' = num + 1 /\ num = Cardinality(devs)
            BY DEF OpenDevice, Listed, CountExact
        <3>2. Cardinality(devs \cup {h}) = Cardinality(devs) + 1
            BY <2>1, <1>ListFinite, FS_AddElement
        <3> QED BY <3>1, <3>2, <1>ListFinite, SMTT(20)
    <2>3. MutexFree' /\ EnvTypes'
        BY <2>2, <1>ReturnFree DEF OpenDevice, InitEnv, Listed, CountExact, EnvTypes
    <2>4. path'[h] = p /\ \A g \in devs : path'[g] = path[g]
        BY <2>1 DEF OpenDevice, Listed, EnvTypes
    <2>5. \A g \in devs : path[g] # p
        BY DEF OpenDevice, PathOpened
    <2>6. OnePerPath'
        BY <2>4, <2>5, EnvAssumption, SMTT(20) DEF OpenDevice, Listed, OnePerPath, Freed
    <2> QED BY <2>2, <2>3, <2>6 DEF Listed, CountExact
\* An open that fails after the device was listed takes it off the list again.
<1>OpenNoKeySpaceListed. ASSUME Listed, NEW t \in Threads, NEW p \in Paths, NEW h \in Handles, OpenNoKeySpace(t, p, h)
                         PROVE  Listed'
    <2> USE <1>OpenNoKeySpaceListed
    <2>1. h \notin devs
        BY DEF OpenNoKeySpace, Listed, OnePerPath
    <2>2. MutexFree' /\ EnvTypes'
        BY DEF OpenNoKeySpace, InitEnv, Listed, CountExact, EnvTypes, MutexFree
    <2>3. \A g \in devs : path'[g] = path[g] /\ g \in drivers'
        BY <2>1 DEF OpenNoKeySpace, Listed, EnvTypes, OnePerPath
    <2> QED BY <2>2, <2>3, <1>ListKept DEF OpenNoKeySpace, Listed
\* kvs_close_device: when the number is down to 0 the list is empty.
<1>CloseListed. ASSUME Listed, NEW t \in Threads, NEW h \in Handles, CloseDevice(t, h)
                PROVE  Listed'
    <2> USE <1>CloseListed
    <2>1. h \in devs /\ devs' = devs \ {h} /\ num' = num - 1
        BY DEF CloseDevice
    <2>2. IsFiniteSet(devs') /\ Cardinality(devs') = Cardinality(devs) - 1 /\ num = Cardinality(devs)
        BY <2>1, <1>ListFinite, FS_RemoveElement DEF Listed, CountExact
    <2>3. num' = Cardinality(devs') /\ num' \in Nat
        BY <2>1, <2>2, FS_CardinalityType
    <2>4. ~(num' = 0 /\ devs' # {})
        BY <2>2, <2>3, FS_EmptySet
    <2>5. EndCall(t, "success")
        BY <2>4 DEF CloseDevice
    <2>6. MutexFree' /\ EnvTypes'
        BY <2>3, <2>5, <1>ReturnFree DEF CloseDevice, Listed, CountExact, EnvTypes
    <2>7. \A g \in devs' : g \in devs /\ path'[g] = path[g] /\ g \in drivers'
        BY <2>1 DEF CloseDevice, Listed, EnvTypes, OnePerPath
    <2>8. OnePerPath'
        BY <2>7 DEF Listed, OnePerPath, Freed
    <2> QED BY <2>3, <2>6, <2>8 DEF Listed, CountExact
<1> SUFFICES ASSUME Listed, [EnvNext]_envVars PROVE Listed'
    OBVIOUS
<1> USE DEF globals
<1>1. ASSUME NEW t \in Threads, OpenRefused(t) \/ (\E p \in Paths : OpenTwice(t, p) \/ OpenFails(t, p))
      PROVE  Listed'
    <2>1. /\ UNCHANGED <<devs, num, path, drivers>> /\ initialized' \in BOOLEAN
          /\ \E code : EndCall(t, code)
        BY <1>1 DEF OpenRefused, OpenTwice, OpenFails, InitEnv, Listed, EnvTypes
    <2>2. MutexFree' /\ EnvTypes'
        BY <2>1, <1>ReturnFree DEF Listed, CountExact, EnvTypes
    <2> QED BY <2>1, <2>2, <1>ListKept DEF Listed, OnePerPath
<1>2. ASSUME NEW t \in Threads, Undo(t) \/ Answer(t) \/ (\E h \in Handles : CloseUnopened(t, h) \/ Ask(t, h))
      PROVE  Listed'
    <2>1. UNCHANGED globals
        BY <1>2 DEF Undo, Answer, CloseUnopened, Ask
    <2>2. MutexFree' /\ stage' \in [Threads -> {"idle", "undo", "ask", "stuck"}] /\ using' \in [Threads -> Handles \cup {None}]
        BY <1>2, <1>ReturnFree DEF Undo, Answer, CloseUnopened, Ask, Listed, CountExact, EnvTypes, MutexFree
    <2>3. EnvTypes'
        BY <2>1, <2>2 DEF Listed, EnvTypes
    <2> QED BY <2>1, <2>2, <2>3, <1>ListKept DEF Listed, OnePerPath
<1>3. CASE UNCHANGED envVars
    BY <1>3 DEF envVars, Listed, EnvTypes, CountExact, MutexFree, OnePerPath, Freed
<1> QED BY <1>1, <1>2, <1>3, <1>OpenListed, <1>OpenNoKeySpaceListed, <1>CloseListed DEF EnvNext

\* kvs_open_device and kvs_close_device: opened_device_num is the length of
\* open_devices, and no close waits for the env_mutex it holds.
THEOREM CountCorrect == EnvSpec => []CountExact
<1>1. Listed => CountExact
    BY DEF Listed
<1> QED BY <1>1, InitListed, NextListed, PTL DEF EnvSpec

\* kvs_open_device: a device is open under at most one handle, and that handle has
\* its driver and its path.
THEOREM OnePerPathCorrect == EnvSpec => []OnePerPath
<1>1. Listed => OnePerPath
    BY DEF Listed
<1> QED BY <1>1, InitListed, NextListed, PTL DEF EnvSpec

(***************************************************************************)
(* The key space list.                                                     *)
(***************************************************************************)

\* A list of at most KS_MAX_CONT names, none of them twice.
Within(l) == /\ l \in Seq(Names) /\ Len(l) <= MaxKs
             /\ \A i, j \in DOMAIN l : l[i] = l[j] => i = j

Ops == {"none", "create", "delete", "open", "close"}
Pcs == {"idle", "add_read", "add_store", "remove_read", "remove_store", "entry_create", "entry_delete",
        "exist", "open_read", "open_store", "close_read", "close_store"}
Codes == {"SUCCESS", "SYS_IO", "KS_EXIST", "KS_NOT_EXIST", "KEY_EXIST", "KEY_NOT_EXIST"}

Call == [op : Ops, name : Names \cup {NoName}, pc : Pcs, copy : Seq(Names), ret : Codes, faults : Nat]

\* A call on its way to the list: it works on a name, and what it is about to store is within
\* the limit.
Ready(c) == /\ c.pc \in {"add_read", "entry_create", "entry_delete"} => c.name \in Names
            /\ c.pc \in {"add_store", "remove_store"} => c.name \in Names /\ Within(c.copy)
            /\ c.pc = "remove_read" => c.name \in Names

Types == call \in [Clients -> Call] /\ hd \in [Clients -> Names \cup {NoName}]

\* The inductive invariant.
Limited == Types /\ Within(list) /\ \A p \in Clients : Ready(call[p])

\* The list before the first create.
LEMMA EmptyList == <<>> \in Seq(Names)
BY SMTT(20)

\* The fields of a call, with their types.
LEMMA CallRecord ==
    ASSUME NEW o \in Ops, NEW n \in Names \cup {NoName}, NEW pc \in Pcs,
           NEW c \in Seq(Names), NEW r \in Codes, NEW k \in Nat
    PROVE  [op |-> o, name |-> n, pc |-> pc, copy |-> c, ret |-> r, faults |-> k] \in Call
BY DEF Call

\* A client between two calls stores nothing.
LEMMA NoCallReady == NoCall \in Call /\ Ready(NoCall)
<1>1. PICK e \in Seq(Names) : e = <<>>
    BY EmptyList
<1>2. NoCall.pc = "idle" /\ Ready(NoCall)
    BY DEF NoCall, Ready
<1>3. NoName \in Names \cup {NoName} /\ 0 \in Nat /\ "none" \in Ops /\ "idle" \in Pcs /\ "SUCCESS" \in Codes
    BY DEF Ops, Pcs, Codes
<1>4. NoCall = [op |-> "none", name |-> NoName, pc |-> "idle", copy |-> e, ret |-> "SUCCESS", faults |-> 0]
    BY <1>1 DEF NoCall
<1>5. NoCall \in Call
    BY <1>3, <1>4, CallRecord
<1> QED BY <1>2, <1>5

\* An empty list and idle clients are within the limit.
LEMMA InitLimited == Init => Limited
<1> SUFFICES ASSUME Init PROVE Limited
    OBVIOUS
<1>1. list = <<>> /\ call = [p \in Clients |-> NoCall] /\ hd = [p \in Clients |-> NoName]
    BY DEF Init
<1>2. Within(<<>>)
    BY KsAssumption, SMTT(20) DEF Within
<1> QED BY <1>1, <1>2, NoCallReady DEF Limited, Types

\* A call refused, a pair stored.
LEMMA StayLimited ==
    ASSUME Limited, UNCHANGED <<list, call, hd>>
    PROVE  Limited'
BY DEF Limited, Types, Within, Ready

\* Every step of every client keeps the limit.
LEMMA NextLimited == Limited /\ [Next]_vars => Limited'
\* _add_to_key_space_list appends a name it has not found, to a list that has room.
<1>AppendWithin. ASSUME NEW l, Within(l), NEW n \in Names, Len(l) < MaxKs, n \notin Range(l)
                 PROVE  Within(Append(l, n))
    <2> USE <1>AppendWithin
    <2>1. l \in Seq(Names) /\ Len(l) \in Nat /\ MaxKs \in Nat /\ \A i \in DOMAIN l : l[i] # n
        BY KsAssumption, SMTT(20) DEF Within, Range
    <2>2. /\ Append(l, n) \in Seq(Names) /\ Len(Append(l, n)) = Len(l) + 1
          /\ DOMAIN l = 1 .. Len(l) /\ DOMAIN Append(l, n) = 1 .. Len(l) + 1
          /\ Append(l, n)[Len(l) + 1] = n /\ \A i \in DOMAIN l : Append(l, n)[i] = l[i]
        BY <2>1, SMTT(20)
    <2>3. \A i \in DOMAIN Append(l, n) : i = Len(l) + 1 \/ i \in DOMAIN l
        BY <2>1, <2>2, SMTT(20)
    <2>4. \A i, j \in DOMAIN Append(l, n) : Append(l, n)[i] = Append(l, n)[j] => i = j
        BY <2>1, <2>2, <2>3 DEF Within
    <2>5. Len(l) + 1 <= MaxKs
        BY <2>1, SMTT(20)
    <2> QED BY <2>2, <2>4, <2>5 DEF Within
\* _remove_from_key_space_list takes one name out and moves the rest up.
<1>RemoveWithin. ASSUME NEW l, Within(l), NEW n \in Range(l)
                 PROVE  Within(Removed(l, n))
    <2> USE <1>RemoveWithin
    <2>1. l \in Seq(Names) /\ Len(l) \in Nat /\ DOMAIN l = 1 .. Len(l) /\ MaxKs \in Nat
        BY KsAssumption, SMTT(20) DEF Within
    <2>2. PICK k \in 1 .. Len(l) : l[k] = n
        BY <2>1 DEF Range
    <2>3. k = CHOOSE i \in DOMAIN l : l[i] = n /\ \A j \in 1 .. i - 1 : l[j] # n
        <3>1. \A i \in DOMAIN l : l[i] = n => i = k
            BY <2>1, <2>2 DEF Within
        <3>2. k \in DOMAIN l /\ l[k] = n /\ \A j \in 1 .. k - 1 : j \in DOMAIN l /\ j # k
            BY <2>1, <2>2, SMTT(20)
        <3> QED BY <3>1, <3>2
    <2> DEFINE m == SubSeq(l, 1, k - 1) \o SubSeq(l, k + 1, Len(l))
    <2>5. /\ m \in Seq(Names) /\ Len(m) = Len(l) - 1
          /\ \A i \in 1 .. Len(l) - 1 : m[i] = IF i < k THEN l[i] ELSE l[i + 1]
        <3>1. /\ SubSeq(l, 1, k - 1) \in Seq(Names) /\ Len(SubSeq(l, 1, k - 1)) = k - 1
              /\ \A i \in 1 .. k - 1 : SubSeq(l, 1, k - 1)[i] = l[i]
            BY <2>1, SMTT(20)
        <3>2. /\ SubSeq(l, k + 1, Len(l)) \in Seq(Names) /\ Len(SubSeq(l, k + 1, Len(l))) = Len(l) - k
              /\ \A i \in 1 .. Len(l) - k : SubSeq(l, k + 1, Len(l))[i] = l[k + i]
            <4> DEFINE t == SubSeq(l, k + 1, Len(l))
            <4>1. t = [i \in 1 .. Len(l) - k |-> l[k + i]]
                <5>1. t = [i \in 1 .. (Len(l) - (k + 1) + 1) |-> l[i + (k + 1) - 1]]
                    BY SMTT(20) DEF SubSeq
                <5> QED BY <2>1, <5>1, SMTT(20)
            <4>2. Len(l) - k \in Nat /\ \A i \in 1 .. Len(l) - k : l[k + i] \in Names
                BY <2>1, SMTT(20)
            <4> HIDE DEF t
            <4>3. t \in [1 .. Len(l) - k -> Names]
                BY <4>1, <4>2
            <4>4. t \in Seq(Names) /\ Len(t) = Len(l) - k
                BY <4>2, <4>3, SMTT(20)
            <4> QED BY <4>1, <4>4 DEF t
        <3>3. PICK a \in Seq(Names), b \in Seq(Names) :
                 a = SubSeq(l, 1, k - 1) /\ b = SubSeq(l, k + 1, Len(l))
            BY <3>1, <3>2
        <3>4. /\ Len(a) = k - 1 /\ \A i \in 1 .. k - 1 : a[i] = l[i]
              /\ Len(b) = Len(l) - k /\ \A i \in 1 .. Len(l) - k : b[i] = l[k + i]
            BY <3>1, <3>2, <3>3
        <3>5. /\ a \o b \in Seq(Names) /\ Len(a \o b) = Len(a) + Len(b)
              /\ \A i \in 1 .. Len(a) + Len(b) : (a \o b)[i] = IF i <= Len(a) THEN a[i] ELSE b[i - Len(a)]
            BY SMTT(20)
        <3>6. Len(a) + Len(b) = Len(l) - 1
            BY <2>1, <3>4, SMTT(20)
        <3>7. ASSUME NEW i \in 1 .. Len(l) - 1
              PROVE  (a \o b)[i] = IF i < k THEN l[i] ELSE l[i + 1]
            <4>1. CASE i < k
                BY <2>1, <3>4, <3>5, <3>6, <4>1, SMTT(20)
            <4>2. CASE ~(i < k)
                <5>1. (a \o b)[i] = b[i - (k - 1)] /\ i - (k - 1) \in 1 .. Len(l) - k
                    BY <2>1, <3>4, <3>5, <3>6, <4>2, SMTT(20)
                <5>2. k + (i - (k - 1)) = i + 1
                    BY <2>1, SMTT(20)
                <5> QED BY <3>4, <4>2, <5>1, <5>2
            <4> QED BY <4>1, <4>2
        <3> QED BY <3>3, <3>5, <3>6, <3>7
    <2> HIDE DEF m
    <2>6. \A i, j \in DOMAIN m : m[i] = m[j] => i = j
        <3> SUFFICES ASSUME NEW i \in 1 .. Len(l) - 1, NEW j \in 1 .. Len(l) - 1, m[i] = m[j] PROVE i = j
            BY <2>5, SMTT(20)
        <3> DEFINE x == IF i < k THEN i ELSE i + 1
                   y == IF j < k THEN j ELSE j + 1
        <3>1. x \in DOMAIN l /\ y \in DOMAIN l /\ l[x] = l[y]
            BY <2>1, <2>5, SMTT(20)
        <3>2. x = y
            BY <3>1 DEF Within
        <3> QED BY <3>2, SMTT(20)
    <2>7. Removed(l, n) = m
        BY <2>3 DEF Removed, m
    <2>8. Len(l) - 1 <= MaxKs
        BY <2>1, SMTT(20) DEF Within
    <2> QED BY <2>5, <2>6, <2>7, <2>8 DEF Within
\* A step that only moves one client's call on.
<1>MoveLimited. ASSUME Limited, NEW p \in Clients, NEW c \in Call, Ready(c), Within(list'),
                       call' = [call EXCEPT ![p] = c], hd' \in [Clients -> Names \cup {NoName}]
                PROVE  Limited'
    <2> USE <1>MoveLimited
    <2>1. call' \in [Clients -> Call]
        BY DEF Limited, Types
    <2>2. \A q \in Clients : Ready(call'[q])
        BY DEF Limited, Types
    <2>3. \A q \in Clients : Ready(call[q])'
        BY <2>2 DEF Ready, Within
    <2>4. Within(list)'
        BY DEF Within
    <2> QED BY <2>1, <2>3, <2>4 DEF Limited, Types
\* The call returns: the client is idle.
<1>ReturnLimited. ASSUME Limited, NEW p \in Clients, NEW r, Return(p, r), Within(list'),
                         hd' \in [Clients -> Names \cup {NoName}]
                  PROVE  Limited'
    <2> USE <1>ReturnLimited
    <2>1. call' = [call EXCEPT ![p] = NoCall]
        BY DEF Return
    <2> QED BY <2>1, NoCallReady, <1>MoveLimited
\* The call goes on to pc.
<1>GotoLimited. ASSUME Limited, NEW p \in Clients, NEW pc \in Pcs, NEW c \in Seq(Names), NEW r \in Codes, NEW io,
                       Goto(p, pc, c, r, io), Within(list'), hd' \in [Clients -> Names \cup {NoName}],
                       pc \in {"add_store", "remove_store"} => Within(c),
                       pc \in {"add_read", "entry_create", "entry_delete", "add_store", "remove_store", "remove_read"}
                           => call[p].name \in Names
                PROVE  Limited'
    <2> USE <1>GotoLimited
    <2>1. call[p] \in Call
        BY DEF Limited, Types
    <2>2. PICK k \in Nat : k = IF io = "SUCCESS" THEN call[p].faults ELSE call[p].faults + 1
        <3>1. call[p].faults \in Nat
            BY <2>1 DEF Call
        <3> QED BY <3>1, SMTT(20)
    <2>3. PICK d : d = [call[p] EXCEPT !.pc = pc, !.copy = c, !.ret = r, !.faults = k]
        OBVIOUS
    <2>4. d = [op |-> call[p].op, name |-> call[p].name, pc |-> pc, copy |-> c, ret |-> r, faults |-> k]
        BY <2>1, <2>3 DEF Call
    <2>5. d \in Call
        <3>1. call[p].op \in Ops /\ call[p].name \in Names \cup {NoName}
            BY <2>1 DEF Call
        <3> QED BY <2>4, <3>1, CallRecord
    <2>6. Ready(d)
        BY <2>4 DEF Ready
    <2>7. call' = [call EXCEPT ![p] = d]
        <3>1. call \in [Clients -> Call]
            BY DEF Limited, Types
        <3> QED BY <2>2, <2>3, <3>1 DEF Goto
    <2> QED BY <2>5, <2>6, <2>7, <1>MoveLimited
\* A call begins: of the calls, create and delete go to the list.
<1>BeginLimited. ASSUME Limited, NEW p \in Clients, NEW op \in Ops, NEW n \in Names, NEW pc \in Pcs,
                        Begin(p, op, n, pc), pc \notin {"add_store", "remove_store"}
                 PROVE  Limited'
    <2> USE <1>BeginLimited
    <2>1. PICK d : d = [NoCall EXCEPT !.op = op, !.name = n, !.pc = pc]
        OBVIOUS
    <2>2. d = [op |-> op, name |-> n, pc |-> pc, copy |-> <<>>, ret |-> "SUCCESS", faults |-> 0]
        BY <2>1 DEF NoCall
    <2>3. d \in Call
        <3>1. PICK e \in Seq(Names) : e = <<>>
            BY EmptyList
        <3>2. d = [op |-> op, name |-> n, pc |-> pc, copy |-> e, ret |-> "SUCCESS", faults |-> 0]
            BY <2>2, <3>1
        <3>3. "SUCCESS" \in Codes /\ 0 \in Nat /\ n \in Names \cup {NoName}
            BY DEF Codes
        <3> QED BY <3>2, <3>3, CallRecord
    <2>4. Ready(d)
        BY <2>2 DEF Ready
    <2>5. call' = [call EXCEPT ![p] = d] /\ list' = list /\ hd' = hd
        BY <2>1 DEF Begin, device
    <2>6. Within(list') /\ hd' \in [Clients -> Names \cup {NoName}]
        BY <2>5 DEF Limited, Types
    <2> QED BY <2>3, <2>4, <2>5, <2>6, <1>MoveLimited
\* The reads and stores of the metadata entry leave the list alone.
<1>ReadEntryLimited. ASSUME Limited, NEW p \in Clients, NEW pc, NEW code, NEW next \in {"open_read", "open_store", "close_store"},
                            ReadEntry(p, pc, code, next)
                     PROVE  Limited'
    <2> USE <1>ReadEntryLimited
    <2>1. Within(list') /\ hd' \in [Clients -> Names \cup {NoName}]
        BY DEF ReadEntry, device, Limited, Types
    <2>2. PICK io, r : Return(p, r) \/ (r = "SUCCESS" /\ Goto(p, next, <<>>, r, io))
        BY DEF ReadEntry
    <2>3. CASE Return(p, r)
        BY <2>1, <2>3, <1>ReturnLimited
    <2>4. CASE r = "SUCCESS" /\ Goto(p, next, <<>>, r, io)
        <3>1. PICK e \in Seq(Names) : e = <<>>
            BY EmptyList
        <3>2. Goto(p, next, e, "SUCCESS", io)
            BY <2>4, <3>1
        <3>3. next \in Pcs /\ "SUCCESS" \in Codes
            BY DEF Pcs, Codes
        <3>4. next \notin {"add_read", "entry_create", "entry_delete", "add_store", "remove_store", "remove_read"}
            OBVIOUS
        <3> QED BY <2>1, <3>2, <3>3, <3>4, <1>GotoLimited
    <2> QED BY <2>2, <2>3, <2>4
\* The stores that end an open or a close return.
<1>StoreEntryLimited. ASSUME Limited, NEW p \in Clients, NEW pc, NEW state, NEW handle \in Names \cup {NoName},
                             StoreEntry(p, pc, state, handle)
                      PROVE  Limited'
    <2> USE <1>StoreEntryLimited
    <2>1. Within(list') /\ hd' \in [Clients -> Names \cup {NoName}]
        BY DEF StoreEntry, Limited, Types
    <2>2. PICK r : Return(p, r)
        BY DEF StoreEntry
    <2> QED BY <2>1, <2>2, <1>ReturnLimited
\* What the read of the list lets through.
<1>ReadLimited. ASSUME Limited, NEW p \in Clients, AddRead(p) \/ RemoveRead(p)
                PROVE  Limited'
    <2> USE <1>ReadLimited
    <2>1. /\ call[p].name \in Names /\ call[p].ret \in Codes /\ Within(list)
          /\ Within(list') /\ hd' \in [Clients -> Names \cup {NoName}]
        BY DEF AddRead, RemoveRead, At, Ready, device, Limited, Types, Call
    <2>2. ASSUME NEW c, Within(c), NEW pc \in {"add_store", "remove_store"}, NEW io,
                 Goto(p, pc, c, call[p].ret, io)
          PROVE  Limited'
        <3>1. c \in Seq(Names) /\ pc \in Pcs
            BY <2>2 DEF Within, Pcs
        <3> QED BY <2>1, <2>2, <3>1, <1>GotoLimited
    <2>3. CASE AddRead(p)
        <3>1. PICK io \in Io(p) : \/ Return(p, AddError(p, io))
                                  \/ /\ AddError(p, io) = "SUCCESS"
                                     /\ Goto(p, "add_store", Append(list, call[p].name), call[p].ret, io)
            BY <2>3 DEF AddRead
        <3>2. CASE Return(p, AddError(p, io))
            BY <2>1, <3>2, <1>ReturnLimited
        <3>3. CASE /\ AddError(p, io) = "SUCCESS"
                   /\ Goto(p, "add_store", Append(list, call[p].name), call[p].ret, io)
            <4>1. ~(Len(list) >= MaxKs) /\ call[p].name \notin Range(list)
                BY <3>3 DEF AddError
            <4>2. Len(list) < MaxKs
                BY <2>1, <4>1, KsAssumption, SMTT(20) DEF Within
            <4>3. Within(Append(list, call[p].name))
                BY <2>1, <4>1, <4>2, <1>AppendWithin
            <4> QED BY <2>2, <3>3, <4>3
        <3> QED BY <3>1, <3>2, <3>3
    <2>4. CASE RemoveRead(p)
        <3>1. PICK io, r :
                 \/ Return(p, r)
                 \/ /\ call[p].name \in Range(list)
                    /\ Goto(p, "remove_store", Removed(list, call[p].name), call[p].ret, io)
            BY <2>4 DEF RemoveRead, Check
        <3>2. call[p].name \in Range(list) => Within(Removed(list, call[p].name))
            BY <2>1, <1>RemoveWithin
        <3> QED BY <2>1, <2>2, <3>1, <3>2, <1>ReturnLimited
    <2> QED BY <2>3, <2>4
\* The store of the list: a copy made from an older list.
<1>StoreLimited. ASSUME Limited, NEW p \in Clients, AddStore(p) \/ RemoveStore(p)
                 PROVE  Limited'
    <2> USE <1>StoreLimited
    <2>1. /\ call[p].name \in Names /\ Within(call[p].copy) /\ Within(list)
          /\ hd' \in [Clients -> Names \cup {NoName}]
        BY DEF AddStore, RemoveStore, At, Ready, Limited, Types
    <2>2. Within(list')
        BY <2>1 DEF AddStore, RemoveStore
    <2>3. PICK pc, r : /\ pc \in {"entry_create", "entry_delete"}
                       /\ Return(p, r) \/ Goto(p, pc, <<>>, "SUCCESS", "SUCCESS")
        BY SMTT(20) DEF AddStore, RemoveStore
    <2>4. pc \in Pcs /\ "SUCCESS" \in Codes /\ pc \notin {"add_store", "remove_store"}
        BY <2>3 DEF Pcs, Codes
    <2> QED BY <2>1, <2>2, <2>3, <2>4, EmptyList, <1>ReturnLimited, <1>GotoLimited
\* The metadata entry of a create or a delete; on an error the call goes back to the list.
<1>EntryLimited. ASSUME Limited, NEW p \in Clients, CreateEntry(p) \/ DeleteEntry(p)
                 PROVE  Limited'
    <2> USE <1>EntryLimited
    <2>1. /\ call[p].name \in Names
          /\ Within(list') /\ hd' \in [Clients -> Names \cup {NoName}]
        BY DEF CreateEntry, DeleteEntry, At, Ready, Limited, Types
    <2>2. PICK pc, r, io : /\ pc \in {"add_read", "remove_read"} /\ r \in Codes
                           /\ Return(p, r) \/ Goto(p, pc, <<>>, r, io)
        <3>1. \A io \in Io(p) : io \in Codes
            BY DEF Io, Codes
        <3>2. \A io \in Io(p), b \in BOOLEAN : Check(io, b, "KEY_EXIST") \in Codes /\ Check(io, b, "KEY_NOT_EXIST") \in Codes
            BY <3>1 DEF Check, Codes
        <3>3. CASE CreateEntry(p)
            BY <3>2, <3>3 DEF CreateEntry
        <3>4. CASE DeleteEntry(p)
            BY <3>2, <3>4 DEF DeleteEntry
        <3> QED BY <3>3, <3>4
    <2>3. pc \in Pcs /\ pc \notin {"add_store", "remove_store"}
        BY <2>2 DEF Pcs
    <2> QED BY <2>1, <2>2, <2>3, EmptyList, <1>ReturnLimited, <1>GotoLimited
<1> SUFFICES ASSUME Limited, [Next]_vars PROVE Limited'
    OBVIOUS
<1>1. CASE UNCHANGED vars
    BY <1>1, StayLimited DEF vars
<1>2. CASE Next
    <2>1. PICK p \in Clients : Step(p)
        BY <1>2 DEF Next
    <2>2. ASSUME NEW n \in Names, Create(p, n) \/ Delete(p, n) \/ Open(p, n) PROVE Limited'
        <3>1. CASE Create(p, n) \/ Begin(p, "delete", n, "remove_read") \/ Begin(p, "open", n, "exist")
            BY <3>1, <1>BeginLimited DEF Create, Ops, Pcs
        <3>2. CASE Refuse(p, "delete", n, "SYS_IO") \/ Refuse(p, "open", n, "KS_OPEN")
            BY <3>2, StayLimited DEF Refuse, device
        <3> QED BY <2>2, <3>1, <3>2 DEF Delete, Open
    <2>3. CASE AddRead(p) \/ RemoveRead(p)
        BY <2>3, <1>ReadLimited
    <2>4. CASE AddStore(p) \/ RemoveStore(p)
        BY <2>4, <1>StoreLimited
    <2>5. CASE CreateEntry(p) \/ DeleteEntry(p)
        BY <2>5, <1>EntryLimited
    <2>6. CASE ExistEntry(p) \/ OpenRead(p) \/ CloseRead(p)
        BY <2>6, <1>ReadEntryLimited DEF ExistEntry, OpenRead, CloseRead
    <2>7. CASE OpenStore(p) \/ CloseStore(p)
        <3>1. call[p].name \in Names \cup {NoName}
            BY DEF Limited, Types, Call
        <3> QED BY <2>7, <3>1, <1>StoreEntryLimited DEF OpenStore, CloseStore
    <2>8. CASE Close(p)
        <3>1. hd[p] \in Names
            BY <2>8 DEF Close, Limited, Types
        <3>2. Begin(p, "close", hd[p], "close_read") /\ "close" \in Ops /\ "close_read" \in Pcs
            BY <2>8 DEF Close, Ops, Pcs
        <3> QED BY <3>1, <3>2, <1>BeginLimited
    <2>9. CASE StorePair(p)
        BY <2>9, StayLimited DEF StorePair
    <2>10. CASE Crash(p)
        <3>1. /\ call' = [call EXCEPT ![p] = NoCall] /\ Within(list')
              /\ hd' \in [Clients -> Names \cup {NoName}]
            BY <2>10 DEF Crash, device, Limited, Types
        <3> QED BY <3>1, NoCallReady, <1>MoveLimited
    <2>11. CASE LeaveDevice(p)
        <3>1. /\ call' = call /\ list' = list
              /\ hd' \in [Clients -> Names \cup {NoName}]
            BY <2>11 DEF LeaveDevice, device, Limited, Types
        <3> QED BY <3>1 DEF Limited, Types
    <2> QED BY <2>1, <2>2, <2>3, <2>4, <2>5, <2>6, <2>7, <2>8, <2>9, <2>10, <2>11 DEF Step
<1> QED BY <1>1, <1>2

\* _add_to_key_space_list's limit: however the calls of any number of processes interleave, fail
\* and crash, the list never has more than KS_MAX_CONT names, and never one twice.
THEOREM ListCorrect == Spec => []ListWithinMax
<1>1. Limited => ListWithinMax
    BY DEF Limited, Within, ListWithinMax, IsInjective
<1> QED BY <1>1, InitLimited, NextLimited, PTL DEF Spec

(***************************************************************************)
(* A device with one process.                                              *)
(***************************************************************************)

\* Only one process has called.
Others == \A p \in Clients \ {Lone} : call[p] = NoCall /\ last[p] = NoResult /\ hd[p] = NoName

\* The shape of the variables the rest of the proof looks at.
Frame == /\ entry \in [Stems -> {"none", "closed", "opened"}] /\ crashes \in Nat
         /\ last = [p \in Clients |-> last[p]] /\ before = [p \in Clients |-> before[p]]
         /\ \A p \in Clients : before[p] = <<before[p][1], before[p][2]>>

\* The record of a call that returns, and of one that goes on.
LEMMA ReturnFields ==
    ASSUME Limited, Frame, NEW p \in Clients, NEW r, Return(p, r)
    PROVE  /\ call'[p] = NoCall /\ before' = before /\ crashes' = crashes
           /\ last'[p].ret = IF call[p].ret = "SUCCESS" THEN r ELSE call[p].ret
<1>1. call'[p] = NoCall /\ before' = before /\ crashes' = crashes
    BY DEF Return, Limited, Types
<1>2. PICK y : y = [op |-> call[p].op, name |-> call[p].name,
                    ret |-> IF call[p].ret = "SUCCESS" THEN r ELSE call[p].ret]
    OBVIOUS
<1>3. last' = [last EXCEPT ![p] = y]
    BY <1>2 DEF Return
<1>4. last'[p] = y
    BY <1>3 DEF Frame
<1> QED BY <1>1, <1>2, <1>4, SMTT(20)

\* What a step inside a call sets in the record of the call.
LEMMA GotoFields ==
    ASSUME Limited, NEW p \in Clients, NEW pc, NEW c, NEW r, NEW io, Goto(p, pc, c, r, io)
    PROVE  /\ call'[p].op = call[p].op /\ call'[p].name = call[p].name
           /\ call'[p].pc = pc /\ call'[p].copy = c /\ call'[p].ret = r
           /\ call'[p].faults = IF io = "SUCCESS" THEN call[p].faults ELSE call[p].faults + 1
           /\ call[p].faults \in Nat
           /\ before' = before /\ last' = last /\ crashes' = crashes
           /\ pc # "idle" => call'[p] # NoCall
<1>1. PICK d \in Call : d = call[p]
    BY DEF Limited, Types
<1>2. PICK k : k = IF io = "SUCCESS" THEN d.faults ELSE d.faults + 1
    OBVIOUS
<1>3. PICK e : e = [d EXCEPT !.pc = pc, !.copy = c, !.ret = r, !.faults = k]
    OBVIOUS
<1>4. /\ e.op = d.op /\ e.name = d.name /\ e.pc = pc /\ e.copy = c /\ e.ret = r /\ e.faults = k
      /\ d.faults \in Nat
    BY <1>3 DEF Call
<1>5. call' = [call EXCEPT ![p] = e]
    BY <1>1, <1>2, <1>3 DEF Goto
<1>6. call'[p] = e
    BY <1>5 DEF Limited, Types
<1>7. NoCall.pc = "idle"
    BY DEF NoCall
<1> QED BY <1>1, <1>2, <1>4, <1>6, <1>7 DEF Goto

\* What the record of a call holds when it begins.
LEMMA BeginFields ==
    ASSUME Limited, Frame, NEW p \in Clients, NEW op, NEW n, NEW pc, Begin(p, op, n, pc)
    PROVE  /\ call'[p].op = op /\ call'[p].name = n /\ call'[p].pc = pc /\ call'[p].ret = "SUCCESS"
           /\ before'[p] = <<list, Existing>> /\ UNCHANGED <<list, entry, pairs, hd, last, crashes>>
           /\ call[p].pc = "idle" /\ (pc # "idle" => call'[p] # NoCall)
<1>1. PICK d : d = [NoCall EXCEPT !.op = op, !.name = n, !.pc = pc]
    OBVIOUS
<1>2. d.op = op /\ d.name = n /\ d.pc = pc /\ d.ret = "SUCCESS"
    BY <1>1 DEF NoCall
<1>3. call'[p] = d
    BY <1>1 DEF Begin, Limited, Types
<1>4. before'[p] = <<list, Existing>>
    BY DEF Begin, Frame
<1>5. NoCall.pc = "idle"
    BY DEF NoCall
<1> QED BY <1>2, <1>3, <1>4, <1>5 DEF Begin, At, device

\* A step of one process says nothing of the others, and keeps the shapes.
LEMMA StepFrame ==
    ASSUME Limited, Frame, NEW p \in Clients, Step(p)
    PROVE  /\ Frame'
           /\ \A q \in Clients \ {p} : call'[q] = call[q] /\ last'[q] = last[q] /\ hd'[q] = hd[q]
<1> DEFINE Rest == \A q \in Clients \ {p} : call'[q] = call[q] /\ last'[q] = last[q] /\ hd'[q] = hd[q]
<1>1. ASSUME NEW op, NEW n, NEW pc, Begin(p, op, n, pc) PROVE Frame' /\ Rest
    <2>1. PICK b : b = <<list, Existing>>
        OBVIOUS
    <2>2. b = <<b[1], b[2]>> /\ before' = [before EXCEPT ![p] = b]
        BY <1>1, <2>1 DEF Begin
    <2>3. \A q \in Clients : before'[q] = <<before'[q][1], before'[q][2]>>
        BY <2>2 DEF Frame
    <2> QED BY <1>1, <2>2, <2>3 DEF Begin, device, Frame, Limited, Types
<1>2. ASSUME NEW op, NEW n, NEW r, Refuse(p, op, n, r) PROVE Frame' /\ Rest
    <2>1. PICK b : b = <<list, Existing>>
        OBVIOUS
    <2>2. b = <<b[1], b[2]>> /\ before' = [before EXCEPT ![p] = b]
        BY <1>2, <2>1 DEF Refuse
    <2>3. \A q \in Clients : before'[q] = <<before'[q][1], before'[q][2]>>
        BY <2>2 DEF Frame
    <2> QED BY <1>2, <2>2, <2>3 DEF Refuse, device, Frame, Limited, Types
<1>3. ASSUME NEW r, Return(p, r), NEW h, hd' = hd \/ hd' = [hd EXCEPT ![p] = h],
             entry' \in [Stems -> {"none", "closed", "opened"}]
      PROVE  Frame' /\ Rest
    BY <1>3 DEF Return, Frame, Limited, Types
<1>4. ASSUME NEW pc, NEW c, NEW r, NEW io, Goto(p, pc, c, r, io), hd' = hd,
             entry' \in [Stems -> {"none", "closed", "opened"}]
      PROVE  Frame' /\ Rest
    BY <1>4 DEF Goto, Frame, Limited, Types
<1>5. ASSUME NEW k, NEW v \in {"none", "closed", "opened"}
      PROVE  [entry EXCEPT ![k] = v] \in [Stems -> {"none", "closed", "opened"}]
    BY DEF Frame
<1>6. entry \in [Stems -> {"none", "closed", "opened"}]
    BY DEF Frame
<1>7. CASE \E n \in Names : Create(p, n) \/ Delete(p, n) \/ Open(p, n)
    BY <1>1, <1>2, <1>7 DEF Create, Delete, Open
<1>8. CASE AddRead(p) \/ AddStore(p) \/ RemoveRead(p) \/ RemoveStore(p)
    <2>1. hd' = hd /\ entry' = entry
        BY <1>8 DEF AddRead, AddStore, RemoveRead, RemoveStore, device
    <2>2. \E r : Return(p, r) \/ \E pc, c, io : Goto(p, pc, c, r, io)
        BY <1>8 DEF AddRead, AddStore, RemoveRead, RemoveStore
    <2> QED BY <1>3, <1>4, <1>6, <2>1, <2>2
<1>9. CASE CreateEntry(p) \/ DeleteEntry(p)
    <2>1. hd' = hd /\ (entry' = entry \/ \E k : \E v \in {"none", "closed"} : entry' = [entry EXCEPT ![k] = v])
        BY <1>9 DEF CreateEntry, DeleteEntry
    <2>2. \E r : Return(p, r) \/ \E pc, io : Goto(p, pc, <<>>, r, io)
        BY <1>9 DEF CreateEntry, DeleteEntry
    <2> QED BY <1>3, <1>4, <1>5, <1>6, <2>1, <2>2
<1>10. CASE ExistEntry(p) \/ OpenRead(p) \/ CloseRead(p)
    BY <1>3, <1>4, <1>6, <1>10 DEF ExistEntry, OpenRead, CloseRead, ReadEntry, device
<1>11. CASE OpenStore(p) \/ CloseStore(p)
    <2>1. PICK pc, h : \E v \in {"closed", "opened"} : StoreEntry(p, pc, v, h)
        BY <1>11 DEF OpenStore, CloseStore
    <2>2. /\ entry' = entry \/ \E k : \E v \in {"closed", "opened"} : entry' = [entry EXCEPT ![k] = v]
          /\ hd' = hd \/ hd' = [hd EXCEPT ![p] = h]
          /\ \E r : Return(p, r)
        BY <2>1 DEF StoreEntry
    <2> QED BY <1>3, <1>5, <1>6, <2>2, SMTT(20)
<1>12. CASE Close(p)
    BY <1>1, <1>12 DEF Close
<1>13. CASE StorePair(p)
    BY <1>13 DEF StorePair, Frame
<1>14. CASE Crash(p)
    <2>1. /\ call' = [call EXCEPT ![p] = NoCall] /\ hd' = [hd EXCEPT ![p] = NoName]
          /\ last' = [last EXCEPT ![p] = NoResult]
          /\ entry' = entry /\ before' = before /\ crashes' = crashes + 1
        BY <1>14 DEF Crash, device
    <2>2. Frame'
        <3>1. crashes' \in Nat
            BY <2>1, SMTT(20) DEF Frame
        <3>2. last' = [q \in Clients |-> last'[q]]
            <4>1. PICK f, x : f = last /\ x = NoResult
                OBVIOUS
            <4>2. f = [q \in Clients |-> f[q]] /\ last' = [f EXCEPT ![p] = x]
                BY <2>1, <4>1 DEF Frame
            <4> QED BY <4>2
        <3> QED BY <2>1, <3>1, <3>2 DEF Frame
    <2>3. \A q \in Clients \ {p} : call'[q] = call[q] /\ hd'[q] = hd[q]
        BY <2>1 DEF Limited, Types
    <2>4. \A q \in Clients \ {p} : last'[q] = last[q]
        BY <2>1 DEF Frame
    <2> QED BY <2>2, <2>3, <2>4
<1>15. CASE LeaveDevice(p)
    <2>1. /\ hd' = [hd EXCEPT ![p] = NoName]
          /\ UNCHANGED <<entry, call, last, before, crashes>>
        BY <1>15 DEF LeaveDevice, device
    <2> QED BY <2>1 DEF Frame, Limited, Types
<1> QED BY <1>7, <1>8, <1>9, <1>10, <1>11, <1>12, <1>13, <1>14, <1>15 DEF Step

\* The types, when some processes share the device too.
LEMMA ModeTyped == MCSpec => [](Limited /\ Frame)
<1>1. MCInit => Limited /\ Frame
    <2> SUFFICES ASSUME MCInit PROVE Limited /\ Frame
        OBVIOUS
    <2>1. Limited
        BY InitLimited DEF MCInit
    <2>2. /\ entry = [t \in Stems |-> "none"] /\ crashes = 0 /\ last = [p \in Clients |-> NoResult]
          /\ before = [p \in Clients |-> <<list, {}>>]
        BY DEF MCInit, Init
    <2> QED BY <2>1, <2>2 DEF Frame
<1>2. MCNext => \E p \in Clients : Step(p)
    BY LoneAssumption DEF MCNext, PlainStep
<1>3. Limited /\ Frame /\ [MCNext]_mcVars => (Limited /\ Frame)'
    <2> SUFFICES ASSUME Limited, Frame, [MCNext]_mcVars PROVE Limited' /\ Frame'
        OBVIOUS
    <2>1. CASE MCNext
        BY <1>2, <2>1, NextLimited, StepFrame DEF Next
    <2>2. CASE UNCHANGED mcVars
        BY <2>2, StayLimited DEF mcVars, vars, Frame
    <2> QED BY <2>1, <2>2
<1> QED BY <1>1, <1>3, PTL DEF MCSpec

(***************************************************************************)
(* A device with one process: the persisted opened flag.                   *)
(***************************************************************************)

\* What a call c in progress implies for the handle h of its process.
CallFits(c, h) ==
    /\ IF c.pc = "idle" THEN c = NoCall ELSE c.name \in Names /\ c.name[2] = Ending
    /\ c.op = "delete" => c.name # h
    /\ c.op = "open" => h = NoName
    /\ c.op = "close" => h = c.name
    /\ c.pc \in {"exist", "open_read", "open_store"} => c.op = "open"
    /\ c.pc \in {"close_read", "close_store"} => c.op = "close"
    /\ c.pc = "entry_delete" => c.op = "delete"

\* The flag, the handle and the set of dropped handles change together.
Flags(e, h, l) == /\ h # NoName => h \in Names /\ h[2] = Ending
                  /\ \A t \in Stems : e[t] = "opened" <=> t \in l \/ (h # NoName /\ EntryKey(h) = t)

FlagState == Others /\ CallFits(call[Lone], hd[Lone]) /\ Flags(entry, hd[Lone], left)

\* Every step keeps the flags right.
LEMMA FlagStep ==
    ASSUME Limited, Frame, FlagState, PlainStep(Lone)
    PROVE  FlagState'
\* A call that is over leaves the flags right.
<1>FlagEnd. ASSUME Others', call'[Lone] = NoCall, Flags(entry', hd'[Lone], left')
            PROVE  FlagState'
    <2> USE <1>FlagEnd
    <2>1. CallFits(NoCall, hd'[Lone])
        BY DEF CallFits, NoCall
    <2> QED BY <2>1 DEF FlagState, CallFits, Flags
\* A call that goes on leaves the flags right.
<1>FlagGo. ASSUME Others', CallFits(call'[Lone], hd'[Lone]), Flags(entry', hd'[Lone], left')
           PROVE  FlagState'
    BY <1>FlagGo DEF FlagState, CallFits, Flags
\* A step that only moves the call on.
<1>FlagGoto. ASSUME Limited, FlagState, Others', NEW pc, NEW c, NEW r, NEW io, Goto(Lone, pc, c, r, io),
                    call[Lone].pc # "idle", UNCHANGED <<entry, hd, left>>,
                    pc # "idle",
                    pc \in {"exist", "open_read", "open_store"} => call[Lone].op = "open",
                    pc \in {"close_read", "close_store"} => call[Lone].op = "close",
                    pc = "entry_delete" => call[Lone].op = "delete"
             PROVE  FlagState'
    <2> USE <1>FlagGoto
    <2>1. call'[Lone].op = call[Lone].op /\ call'[Lone].name = call[Lone].name /\ call'[Lone].pc = pc
        BY LoneAssumption, GotoFields
    <2>2. CallFits(call'[Lone], hd'[Lone])
        BY <2>1 DEF FlagState, CallFits
    <2> QED BY <2>2, <1>FlagGo DEF FlagState
\* A call that returns leaves the flags right.
<1>FlagReturn. ASSUME Limited, Frame, Others', NEW r, Return(Lone, r), Flags(entry', hd'[Lone], left')
               PROVE  FlagState'
    BY <1>FlagReturn, LoneAssumption, ReturnFields, <1>FlagEnd
\* A call that begins leaves the flags right.
<1>FlagBegin. ASSUME Limited, Frame, FlagState, Others', NEW op, NEW n \in Names, NEW pc, Begin(Lone, op, n, pc),
                     n[2] = Ending,
                     \/ op = "create" /\ pc = "add_read"
                     \/ op = "delete" /\ pc = "remove_read" /\ hd[Lone] # n
                     \/ op = "open" /\ pc = "exist" /\ hd[Lone] = NoName
                     \/ op = "close" /\ pc = "close_read" /\ hd[Lone] = n
              PROVE  FlagState'
    <2> USE <1>FlagBegin
    <2>1. /\ call'[Lone].op = op /\ call'[Lone].name = n /\ call'[Lone].pc = pc /\ entry' = entry /\ hd' = hd
        BY LoneAssumption, BeginFields, SMTT(20)
    <2>2. CallFits(call'[Lone], hd'[Lone])
        BY <2>1 DEF CallFits
    <2>3. left' = left
        BY DEF Begin
    <2> QED BY <2>1, <2>2, <2>3, <1>FlagGo DEF FlagState
\* The steps that change an entry.
<1>FlagEntry. ASSUME Limited, Frame, FlagState, Others', CreateEntry(Lone) \/ DeleteEntry(Lone)
              PROVE  FlagState'
    <2> USE <1>FlagEntry
    <2>1. call[Lone].pc \in {"entry_create", "entry_delete"} /\ hd' = hd
        BY DEF CreateEntry, DeleteEntry, At
    <2>2. PICK n \in Names, k \in Stems : n = call[Lone].name /\ k = EntryKey(n)
        BY <2>1 DEF FlagState, CallFits, Names, EntryKey
    <2>3. CASE entry' = entry /\ left' = left
        <3>1. PICK pc, r, io : /\ Return(Lone, r) \/ Goto(Lone, pc, <<>>, r, io)
                               /\ pc \in {"add_read", "remove_read"}
            BY DEF CreateEntry, DeleteEntry
        <3> QED BY <2>1, <2>3, <3>1, <1>FlagReturn, <1>FlagGoto DEF FlagState
    <2>4. CASE ~(entry' = entry /\ left' = left)
        <3>1. PICK r, v : /\ Return(Lone, r) /\ entry' = [entry EXCEPT ![k] = v] /\ v \in {"none", "closed"}
                          /\ \/ CreateEntry(Lone) /\ entry[k] = "none" /\ left' = left
                             \/ DeleteEntry(Lone) /\ left' = left \ {k}
            BY <2>2, <2>4 DEF CreateEntry, DeleteEntry, Check
        <3>2. ~(hd[Lone] # NoName /\ EntryKey(hd[Lone]) = k)
            <4>1. CASE entry[k] = "none"
                BY <4>1 DEF FlagState, Flags
            <4>2. CASE DeleteEntry(Lone)
                <5>1. call[Lone].pc = "entry_delete"
                    BY <4>2 DEF DeleteEntry, At
                <5>2. n # hd[Lone] /\ n[2] = Ending
                    BY <2>2, <5>1 DEF FlagState, CallFits
                <5>3. ASSUME hd[Lone] # NoName, EntryKey(hd[Lone]) = k PROVE FALSE
                    <6>1. hd[Lone] \in Names /\ hd[Lone][2] = Ending /\ hd[Lone][1] = n[1]
                        BY <2>2, <5>3 DEF FlagState, Flags, EntryKey
                    <6>2. hd[Lone] = n
                        BY <5>2, <6>1, SMTT(20) DEF Names
                    <6> QED BY <5>2, <6>2
                <5> QED BY <5>3
            <4> QED BY <3>1, <4>1, <4>2
        <3>3. entry'[k] # "opened" /\ \A s \in Stems \ {k} : entry'[s] = entry[s]
            BY <3>1 DEF Frame
        <3>4. k \notin left' /\ \A t \in Stems \ {k} : t \in left' <=> t \in left
            BY <3>1 DEF FlagState, Flags
        <3>5. Flags(entry', hd'[Lone], left')
            BY <2>1, <3>2, <3>3, <3>4 DEF FlagState, Flags
        <3> QED BY <3>1, <3>5, <1>FlagReturn
    <2> QED BY <2>3, <2>4
\* The store of the flag and the change of the handle go together.
<1>FlagStore. ASSUME Limited, Frame, FlagState, Others', OpenStore(Lone) \/ CloseStore(Lone)
              PROVE  FlagState'
    <2> USE <1>FlagStore
    <2>1. PICK r : Return(Lone, r)
        BY DEF OpenStore, CloseStore, StoreEntry
    <2>2. PICK n \in Names, k \in Stems : n = call[Lone].name /\ k = EntryKey(n) /\ n[2] = Ending /\ n # NoName
        <3>1. call[Lone].pc # "idle"
            BY DEF OpenStore, CloseStore, StoreEntry, At
        <3> QED BY <3>1, KsAssumption DEF FlagState, CallFits, Names, EntryKey
    <2>3. CASE UNCHANGED <<entry, hd, left>>
        BY <2>1, <2>3, <1>FlagReturn DEF FlagState
    <2>4. CASE ~UNCHANGED <<entry, hd, left>>
        <3>0. k \notin left' /\ \A t \in Stems \ {k} : t \in left' <=> t \in left
            BY <2>2, <2>4 DEF OpenStore, CloseStore, StoreEntry
        <3>1. \/ /\ call[Lone].pc = "open_store"
                 /\ entry' = [entry EXCEPT ![k] = "opened"] /\ hd' = [hd EXCEPT ![Lone] = n]
              \/ /\ call[Lone].pc = "close_store"
                 /\ entry' = [entry EXCEPT ![k] = "closed"] /\ hd' = [hd EXCEPT ![Lone] = NoName]
            BY <2>2, <2>4 DEF OpenStore, CloseStore, StoreEntry, At
        <3>2. CASE /\ call[Lone].pc = "open_store"
                   /\ entry' = [entry EXCEPT ![k] = "opened"] /\ hd' = [hd EXCEPT ![Lone] = n]
            <4>1. hd[Lone] = NoName
                BY <3>2 DEF FlagState, CallFits
            <4>2. hd'[Lone] = n /\ entry'[k] = "opened" /\ \A s \in Stems \ {k} : entry'[s] = entry[s]
                BY <3>2, LoneAssumption DEF Frame, Limited, Types
            <4>3. Flags(entry', hd'[Lone], left')
                BY <2>2, <3>0, <4>1, <4>2 DEF FlagState, Flags
            <4> QED BY <2>1, <4>3, <1>FlagReturn
        <3>3. CASE /\ call[Lone].pc = "close_store"
                   /\ entry' = [entry EXCEPT ![k] = "closed"] /\ hd' = [hd EXCEPT ![Lone] = NoName]
            <4>1. hd[Lone] = n
                BY <2>2, <3>3 DEF FlagState, CallFits
            <4>2. hd'[Lone] = NoName /\ entry'[k] = "closed" /\ \A s \in Stems \ {k} : entry'[s] = entry[s]
                BY <3>3, LoneAssumption DEF Frame, Limited, Types
            <4>3. Flags(entry', hd'[Lone], left')
                BY <2>2, <3>0, <4>1, <4>2 DEF FlagState, Flags
            <4> QED BY <2>1, <4>3, <1>FlagReturn
        <3> QED BY <3>1, <3>2, <3>3
    <2> QED BY <2>3, <2>4
<1>0. Step(Lone) /\ Others'
    BY StepFrame, LoneAssumption DEF PlainStep, FlagState, Others
<1>1. ASSUME NEW n \in Names, Create(Lone, n) \/ Delete(Lone, n) \/ Open(Lone, n) PROVE FlagState'
    <2>1. ASSUME NEW op, NEW pc, Begin(Lone, op, n, pc) PROVE n[2] = Ending
        <3>1. call'[Lone].name = n
            BY <2>1, LoneAssumption, BeginFields, SMTT(20)
        <3>2. n # NoName
            BY KsAssumption DEF Names
        <3> QED BY <3>1, <3>2 DEF PlainStep
    <2>2. CASE \E r : Refuse(Lone, "delete", n, r) \/ Refuse(Lone, "open", n, r)
        <3>1. UNCHANGED <<entry, call, hd, left>>
            BY <2>2 DEF Refuse, device
        <3> QED BY <1>0, <3>1, <1>FlagGo DEF FlagState
    <2>3. CASE Create(Lone, n)
        BY <1>0, <2>1, <2>3, <1>FlagBegin DEF Create
    <2>4. CASE Delete(Lone, n)
        BY <1>0, <2>1, <2>2, <2>4, <1>FlagBegin DEF Delete
    <2>5. CASE Open(Lone, n)
        BY <1>0, <2>1, <2>2, <2>5, <1>FlagBegin DEF Open
    <2> QED BY <1>1, <2>3, <2>4, <2>5
<1>2. CASE AddRead(Lone) \/ RemoveRead(Lone) \/ AddStore(Lone) \/ RemoveStore(Lone)
    <2>1. UNCHANGED <<entry, hd, left>> /\ call[Lone].pc # "idle"
        BY <1>2 DEF AddRead, RemoveRead, AddStore, RemoveStore, device, At
    <2>2. PICK pc, c, r, io :
             /\ Return(Lone, r) \/ Goto(Lone, pc, c, r, io)
             /\ \/ pc \in {"add_store", "remove_store", "entry_create"}
                \/ pc = "entry_delete" /\ call[Lone].op = "delete"
        BY <1>2 DEF AddRead, RemoveRead, AddStore, RemoveStore
    <2> QED BY <1>0, <2>1, <2>2, <1>FlagReturn, <1>FlagGoto DEF FlagState
<1>3. CASE ExistEntry(Lone) \/ OpenRead(Lone) \/ CloseRead(Lone)
    <2>1. UNCHANGED <<entry, hd, left>> /\ call[Lone].pc \in {"exist", "open_read", "close_read"}
        BY <1>3 DEF ExistEntry, OpenRead, CloseRead, ReadEntry, device, At
    <2>2. PICK pc, r, io :
             /\ Return(Lone, r) \/ Goto(Lone, pc, <<>>, r, io)
             /\ \/ pc \in {"open_read", "open_store"} /\ call[Lone].pc \in {"exist", "open_read"}
                \/ pc = "close_store" /\ call[Lone].pc = "close_read"
        BY <1>3 DEF ExistEntry, OpenRead, CloseRead, ReadEntry, At
    <2>3. /\ call[Lone].pc \in {"exist", "open_read"} => call[Lone].op = "open"
          /\ call[Lone].pc = "close_read" => call[Lone].op = "close"
        BY DEF FlagState, CallFits
    <2> QED BY <1>0, <2>1, <2>2, <2>3, <1>FlagReturn, <1>FlagGoto DEF FlagState
<1>4. CASE Close(Lone)
    <2>1. hd[Lone] \in Names /\ hd[Lone][2] = Ending
        BY <1>4 DEF Close, FlagState, Flags
    <2> QED BY <1>0, <1>4, <2>1, <1>FlagBegin DEF Close
<1>5. CASE StorePair(Lone)
    BY <1>0, <1>5, <1>FlagGo DEF StorePair, FlagState
\* A handle dropped with its process or with the device keeps its entry's flag.
<1>6. CASE LeaveDevice(Lone) \/ Crash(Lone)
    <2>1. /\ hd' = [hd EXCEPT ![Lone] = NoName] /\ left' = left \cup Dropped(Lone) /\ entry' = entry
          /\ (call' = call /\ At(Lone, "idle")) \/ call' = [call EXCEPT ![Lone] = NoCall]
        BY <1>6 DEF LeaveDevice, Crash, device
    <2>2. hd'[Lone] = NoName /\ (call'[Lone] = NoCall \/ (call'[Lone] = call[Lone] /\ call[Lone].pc = "idle"))
        BY <2>1, LoneAssumption DEF At, Limited, Types
    <2>3. Flags(entry', hd'[Lone], left')
        BY <2>1, <2>2 DEF FlagState, Flags, Dropped
    <2>4. call'[Lone] = NoCall
        BY <2>2 DEF FlagState, CallFits
    <2> QED BY <1>0, <2>3, <2>4, <1>FlagEnd
<1> QED BY <1>0, <1>1, <1>2, <1>3, <1>4, <1>5, <1>6, <1>FlagEntry, <1>FlagStore DEF Step

\* With no two names alike.
FlagInv == mode = "alone" => FlagState

\* kvs_open_key_space, kvs_close_key_space and kvs_close_device: with one process and names that
\* differ in more than the last character, the persisted opened flag is set between calls
\* exactly where a handle is open or was last dropped, by a crash or with the device, without
\* a close; for any limit on key spaces, any number of crashes and of failing I/Os.
THEOREM FlagTracksCorrect == MCSpec => []FlagTracksAlone
<1>1. MCInit => FlagInv
    <2> SUFFICES ASSUME MCInit PROVE FlagState
        BY DEF FlagInv
    <2>1. /\ entry = [t \in Stems |-> "none"] /\ call = [p \in Clients |-> NoCall]
          /\ hd = [p \in Clients |-> NoName] /\ last = [p \in Clients |-> NoResult] /\ left = {}
        BY DEF MCInit, Init
    <2>2. Others
        BY <2>1 DEF Others
    <2>3. CallFits(NoCall, NoName)
        BY DEF CallFits, NoCall
    <2>4. Flags(entry, NoName, left)
        BY <2>1 DEF Flags
    <2> QED BY <2>1, <2>2, <2>3, <2>4, LoneAssumption DEF FlagState
<1>2. Limited /\ Frame /\ FlagInv /\ [MCNext]_mcVars => FlagInv'
    <2> SUFFICES ASSUME Limited, Frame, FlagInv, [MCNext]_mcVars, mode' = "alone"
                 PROVE  FlagState'
        BY DEF FlagInv
    <2>1. CASE MCNext
        <3>1. mode = "alone" /\ PlainStep(Lone)
            BY <2>1 DEF MCNext
        <3> QED BY <3>1, FlagStep DEF FlagInv
    <2>2. CASE UNCHANGED mcVars
        <3>1. UNCHANGED <<entry, call, hd, last, left, mode>>
            BY <2>2 DEF mcVars, vars
        <3> QED BY <3>1 DEF FlagInv, FlagState, Others, CallFits, Flags
    <2> QED BY <2>1, <2>2
<1>3. FlagInv => FlagTracksAlone
    <2> SUFFICES ASSUME FlagInv, mode = "alone", Quiet, NEW t \in Stems
                 PROVE  entry[t] = "opened" <=> t \in left \cup UNION {Dropped(p) : p \in Clients}
        BY DEF FlagTracksAlone, FlagTracksHandle
    <2>1. FlagState
        BY DEF FlagInv
    <2>2. \A p \in Clients \ {Lone} : Dropped(p) = {}
        BY <2>1 DEF FlagState, Others, Dropped
    <2>3. t \in Dropped(Lone) <=> hd[Lone] # NoName /\ EntryKey(hd[Lone]) = t
        BY DEF Dropped
    <2>4. t \in UNION {Dropped(p) : p \in Clients} <=> t \in Dropped(Lone)
        BY <2>2, LoneAssumption
    <2> QED BY <2>1, <2>3, <2>4 DEF FlagState, Flags
<1> QED BY <1>1, <1>2, <1>3, ModeTyped, PTL DEF MCSpec

(***************************************************************************)
(* A device with one process: rollbacks, and crashes.                      *)
(***************************************************************************)

\* The key spaces that are on the list or have an entry, and not both.
Damage(l, E) == LET listed == {EntryKey(n) : n \in Range(l)} IN (listed \ E) \cup (E \ listed)

\* Where a call c is that found the list and the entries b, when the list is l: it
\* has changed nothing yet; it has changed the list; it is undoing that.
Forward(c, b, l) ==
    /\ c.ret = "SUCCESS" /\ l = b[1]
    /\ c.pc \in {"add_read", "add_store"} => c.op = "create"
    /\ c.pc \in {"remove_read", "remove_store"} => c.op = "delete"
    /\ c.pc = "add_store" => b[1] = <<>> /\ c.copy = <<c.name>>
    /\ c.pc = "remove_store" => b[1] = <<c.name>> /\ c.copy = <<>>
    /\ c.pc \in {"open_store", "close_store"} => EntryKey(c.name) \in b[2]
    /\ c.pc \notin {"idle", "entry_create", "entry_delete"}

Halfway(c, b, l) ==
    /\ c.ret = "SUCCESS"
    /\ \/ c.op = "create" /\ c.pc = "entry_create" /\ b[1] = <<>> /\ l = <<c.name>>
       \/ c.op = "delete" /\ c.pc = "entry_delete" /\ b[1] = <<c.name>> /\ l = <<>>

Undoing(c, b, l) ==
    /\ c.ret # "SUCCESS"
    /\ \/ /\ c.op = "create" /\ c.pc \in {"remove_read", "remove_store"}
          /\ b[1] = <<>> /\ l = <<c.name>> /\ (c.pc = "remove_store" => c.copy = <<>>)
          /\ c.faults >= MaxFaults \/ EntryKey(c.name) \in b[2]
       \/ /\ c.op = "delete" /\ c.pc \in {"add_read", "add_store"}
          /\ b[1] = <<c.name>> /\ l = <<>> /\ (c.pc = "add_store" => c.copy = <<c.name>>)
          /\ c.faults >= MaxFaults \/ EntryKey(c.name) \notin b[2]

Between == /\ Cardinality(Damage(list, Existing)) <= crashes
           /\ crashes = 0 /\ last[Lone].ret # "SUCCESS" => before[Lone] = <<list, Existing>>

During == /\ call[Lone].name \in Names /\ Existing = before[Lone][2]
          /\ Cardinality(Damage(before[Lone][1], before[Lone][2])) <= crashes
          /\ \/ Forward(call[Lone], before[Lone], list)
             \/ Halfway(call[Lone], before[Lone], list)
             \/ Undoing(call[Lone], before[Lone], list)

\* The inductive invariant.
AloneState == /\ Others /\ IsFiniteSet(Existing)
              /\ IF call[Lone] = NoCall THEN Between ELSE During

\* What a create or a delete that stops halfway adds to the damage, and takes from it.
LEMMA DamageCounts ==
    ASSUME NEW E, IsFiniteSet(E), NEW n \in Names
    PROVE  /\ Cardinality(E) \in Nat /\ Damage(<<>>, E) = E
           /\ EntryKey(n) \in E =>
                 /\ IsFiniteSet(E \ {EntryKey(n)})
                 /\ Cardinality(Damage(<<n>>, E)) = Cardinality(E) - 1
                 /\ Cardinality(Damage(<<>>, E \ {EntryKey(n)})) = Cardinality(E) - 1
           /\ EntryKey(n) \notin E =>
                 /\ IsFiniteSet(E \cup {EntryKey(n)})
                 /\ Cardinality(Damage(<<n>>, E)) = Cardinality(E) + 1
                 /\ Cardinality(Damage(<<n>>, E \cup {EntryKey(n)})) = Cardinality(E)
<1>1. PICK k : k = EntryKey(n)
    OBVIOUS
<1>2. Range(<<>>) = {} /\ Range(<<n>>) = {n}
    BY SMTT(20) DEF Range
<1>3. \A F : Damage(<<>>, F) = F
    BY <1>2 DEF Damage
<1>4. \A F : Damage(<<n>>, F) = ({k} \ F) \cup (F \ {k})
    BY <1>1, <1>2 DEF Damage
<1>5. Cardinality(E) \in Nat
    BY FS_CardinalityType
<1>6. ASSUME k \in E
      PROVE  /\ IsFiniteSet(E \ {k}) /\ Cardinality(Damage(<<n>>, E)) = Cardinality(E) - 1
             /\ Cardinality(Damage(<<>>, E \ {k})) = Cardinality(E) - 1
    <2>1. Damage(<<n>>, E) = E \ {k}
        BY <1>4, <1>6, SMTT(20)
    <2> QED BY <1>3, <1>6, <2>1, FS_RemoveElement
<1>7. ASSUME k \notin E
      PROVE  /\ IsFiniteSet(E \cup {k}) /\ Cardinality(Damage(<<n>>, E)) = Cardinality(E) + 1
             /\ Cardinality(Damage(<<n>>, E \cup {k})) = Cardinality(E)
    <2>1. Damage(<<n>>, E) = E \cup {k}
        BY <1>4, <1>7, SMTT(20)
    <2>2. Damage(<<n>>, E \cup {k}) = E
        BY <1>4, <1>7, SMTT(20)
    <2> QED BY <1>7, <2>1, <2>2, FS_AddElement
<1> QED BY <1>1, <1>3, <1>5, <1>6, <1>7

\* With KS_MAX_CONT = 1 the list has no name or one.
LEMMA ShortList ==
    ASSUME MaxKs = 1, Limited
    PROVE  /\ \/ list = <<>> /\ Len(list) = 0
              \/ \E n \in Names : list = <<n>> /\ Len(list) = 1
           /\ \A n \in Names : n \in Range(list) => list = <<n>>
<1>1. list \in Seq(Names) /\ Len(list) \in Nat /\ Len(list) <= 1
    BY SMTT(20) DEF Limited, Within
<1>2. CASE Len(list) = 0
    BY <1>1, <1>2, SMTT(20) DEF Range
<1>3. CASE Len(list) = 1
    <2>1. list = <<list[1]>> /\ list[1] \in Names
        BY <1>1, <1>3, SMTT(20)
    <2>2. DOMAIN list = {1}
        BY <1>1, <1>3, SMTT(20)
    <2>3. Range(list) = {list[1]}
        BY <2>2 DEF Range
    <2> QED BY <1>3, <2>1, <2>3
<1>4. Len(list) = 0 \/ Len(list) = 1
    <2>1. PICK k \in Nat : k = Len(list) /\ k <= 1
        BY <1>1
    <2>2. k = 0 \/ k = 1
        BY <2>1, SMTT(20)
    <2> QED BY <2>1, <2>2
<1> QED BY <1>2, <1>3, <1>4

\* _remove_from_key_space_list on a list of one name.
LEMMA RemoveOnly == ASSUME NEW n \in Names PROVE Removed(<<n>>, n) = <<>>
<1>1. PICK l : l = <<n>>
    OBVIOUS
<1>2. l \in Seq(Names) /\ Len(l) = 1 /\ l[1] = n
    BY <1>1, SMTT(20)
<1>3. 1 = CHOOSE i \in DOMAIN l : l[i] = n /\ \A j \in 1 .. i - 1 : l[j] # n
    <2>1. DOMAIN l = {1} /\ \A j \in 1 .. 1 - 1 : l[j] # n
        BY <1>2, SMTT(20)
    <2> QED BY <1>2, <2>1
<1>4. Removed(l, n) = SubSeq(l, 1, 0) \o SubSeq(l, 2, 1)
    BY <1>2, <1>3, SMTT(20) DEF Removed
<1>5. SubSeq(l, 1, 0) = <<>> /\ SubSeq(l, 2, 1) = <<>>
    BY <1>2, SMTT(20)
<1> QED BY <1>1, <1>4, <1>5, SMTT(20)

\* The two states a step may leave the lone process in: between calls, or in one.
LEMMA EndAlone ==
    ASSUME Others', IsFiniteSet(Existing'), call'[Lone] = NoCall,
           Cardinality(Damage(list', Existing')) <= crashes',
           crashes' = 0 /\ last'[Lone].ret # "SUCCESS" => before'[Lone] = <<list', Existing'>>
    PROVE  AloneState'
<1>1. Between'
    BY DEF Between, Damage
<1> QED BY <1>1 DEF AloneState

\* A call that is under way, whichever of the three ways it goes, keeps the invariant.
LEMMA GoAlone ==
    ASSUME Others', IsFiniteSet(Existing'), call'[Lone] # NoCall, call'[Lone].name \in Names,
           Existing' = before'[Lone][2],
           Cardinality(Damage(before'[Lone][1], before'[Lone][2])) <= crashes',
           \/ Forward(call'[Lone], before'[Lone], list')
           \/ Halfway(call'[Lone], before'[Lone], list')
           \/ Undoing(call'[Lone], before'[Lone], list')
    PROVE  AloneState'
<1>1. During'
    BY DEF During, Damage, Forward, Halfway, Undoing
<1> QED BY <1>1 DEF AloneState

\* What a step of the lone process finds.
LEMMA AloneFacts ==
    ASSUME Limited, Frame, AloneState, Step(Lone)
    PROVE  /\ Others' /\ IsFiniteSet(Existing) /\ call[Lone] \in Call /\ crashes \in Nat
           /\ before[Lone] = <<before[Lone][1], before[Lone][2]>>
           /\ call[Lone].pc = "idle" => call[Lone] = NoCall /\ Between
           /\ call[Lone].pc # "idle" => During
           /\ entry' = entry => Existing' = Existing
<1>1. call[Lone] \in Call /\ crashes \in Nat /\ before[Lone] = <<before[Lone][1], before[Lone][2]>>
    BY LoneAssumption DEF Limited, Types, Frame
<1>2. Others'
    BY StepFrame, LoneAssumption DEF Others, AloneState
<1>3. NoCall.pc = "idle"
    BY DEF NoCall
<1>4. During => call[Lone].pc # "idle"
    BY DEF During, Forward, Halfway, Undoing
<1>5. entry' = entry => Existing' = Existing
    BY DEF Existing
<1> QED BY <1>1, <1>2, <1>3, <1>4, <1>5 DEF AloneState

\* A call begins.
LEMMA BeginAlone ==
    ASSUME Limited, Frame, AloneState, Step(Lone), NEW op, NEW n \in Names, NEW pc,
           Begin(Lone, op, n, pc),
           \/ op = "create" /\ pc = "add_read"
           \/ op = "delete" /\ pc = "remove_read"
           \/ op \in {"open", "close"} /\ pc \in {"exist", "close_read"}
    PROVE  AloneState'
<1>1. /\ call'[Lone].op = op /\ call'[Lone].name = n /\ call'[Lone].pc = pc
      /\ call'[Lone].ret = "SUCCESS" /\ call'[Lone] # NoCall
      /\ before'[Lone] = <<list, Existing>> /\ UNCHANGED <<list, entry, crashes>>
      /\ call[Lone].pc = "idle"
    BY LoneAssumption, BeginFields, SMTT(20)
<1>2. Between /\ IsFiniteSet(Existing) /\ Existing' = Existing /\ Others'
    BY <1>1, AloneFacts
<1>3. Forward(call'[Lone], before'[Lone], list')
    BY <1>1, SMTT(20) DEF Forward
<1>4. Cardinality(Damage(before'[Lone][1], before'[Lone][2])) <= crashes'
    BY <1>1, <1>2, SMTT(20) DEF Between
<1> QED BY <1>1, <1>2, <1>3, <1>4, GoAlone, SMTT(20)

\* A call returns, having changed neither the list nor which entries exist, in all.
LEMMA ReturnAlone ==
    ASSUME Limited, Frame, AloneState, Step(Lone), NEW r, Return(Lone, r), call[Lone].pc # "idle",
           list' = before[Lone][1], Existing' = Existing
    PROVE  AloneState'
<1>1. /\ call'[Lone] = NoCall /\ before' = before /\ crashes' = crashes
    BY LoneAssumption, ReturnFields
<1>2. /\ During /\ IsFiniteSet(Existing) /\ Others'
      /\ before[Lone] = <<before[Lone][1], before[Lone][2]>>
    BY AloneFacts
<1>3. /\ Existing' = before[Lone][2] /\ before'[Lone] = <<list', Existing'>>
      /\ Cardinality(Damage(list', Existing')) <= crashes'
    BY <1>1, <1>2 DEF During
<1> QED BY <1>1, <1>2, <1>3, EndAlone

\* A call gives up its rollback after a second failure: only where the rollback would
\* have brought damage back.
LEMMA StopAlone ==
    ASSUME Limited, Frame, AloneState, Step(Lone), NEW r, Return(Lone, r),
           Undoing(call[Lone], before[Lone], list), ~(call[Lone].faults >= MaxFaults),
           list' = list, Existing' = Existing
    PROVE  AloneState'
<1>1. call[Lone].pc # "idle"
    BY DEF Undoing
<1>2. /\ During /\ IsFiniteSet(Existing) /\ Others' /\ crashes \in Nat
      /\ call'[Lone] = NoCall /\ before' = before /\ crashes' = crashes
    BY <1>1, AloneFacts, LoneAssumption, ReturnFields
<1>3. PICK n \in Names : n = call[Lone].name
    BY <1>2 DEF During
<1> DEFINE E == Existing
<1>4. E = before[Lone][2] /\ Cardinality(Damage(before[Lone][1], E)) <= crashes /\ IsFiniteSet(E)
    BY <1>2, <1>3 DEF During
<1>5. \/ before[Lone][1] = <<>> /\ list = <<n>> /\ EntryKey(n) \in E
      \/ before[Lone][1] = <<n>> /\ list = <<>> /\ EntryKey(n) \notin E
    BY <1>3, <1>4 DEF Undoing
<1>6. Cardinality(Damage(list, E)) <= crashes /\ crashes # 0
    <2>1. CASE before[Lone][1] = <<>> /\ list = <<n>> /\ EntryKey(n) \in E
        <3>1. /\ Cardinality(Damage(list, E)) = Cardinality(E) - 1 /\ Cardinality(E) \in Nat
              /\ Cardinality(E) <= crashes
            BY <1>4, <2>1, DamageCounts
        <3>2. Cardinality(Damage(list, E)) \in Nat
            <4>1. IsFiniteSet(E \ {EntryKey(n)}) /\ Damage(<<>>, E \ {EntryKey(n)}) = E \ {EntryKey(n)}
                BY <1>4, <2>1, DamageCounts, FS_RemoveElement
            <4>2. Cardinality(E \ {EntryKey(n)}) \in Nat
                BY <4>1, FS_CardinalityType
            <4>3. Cardinality(E \ {EntryKey(n)}) = Cardinality(E) - 1
                BY <1>4, <2>1, FS_RemoveElement
            <4> QED BY <3>1, <4>2, <4>3
        <3> QED BY <1>2, <3>1, <3>2, SMTT(20)
    <2>2. CASE before[Lone][1] = <<n>> /\ list = <<>> /\ EntryKey(n) \notin E
        <3>1. /\ Cardinality(Damage(before[Lone][1], E)) = Cardinality(E) + 1 /\ Cardinality(E) \in Nat
              /\ Damage(list, E) = E
            BY <1>4, <2>2, DamageCounts
        <3> QED BY <1>2, <1>4, <3>1, SMTT(20)
    <2> QED BY <1>5, <2>1, <2>2
<1> QED BY <1>2, <1>3, <1>6, EndAlone

\* The call goes on without touching the device.
LEMMA GotoAlone ==
    ASSUME Limited, Frame, AloneState, Step(Lone), NEW pc, NEW c, NEW r, NEW io,
           Goto(Lone, pc, c, r, io), call[Lone].pc # "idle", pc # "idle", Existing' = Existing,
           \/ Forward(call'[Lone], before[Lone], list')
           \/ Halfway(call'[Lone], before[Lone], list')
           \/ Undoing(call'[Lone], before[Lone], list')
    PROVE  AloneState'
<1>1. /\ call'[Lone].name = call[Lone].name /\ call'[Lone] # NoCall
      /\ before' = before /\ crashes' = crashes
    BY LoneAssumption, GotoFields
<1>2. During /\ IsFiniteSet(Existing) /\ Others'
    BY AloneFacts
<1>3. /\ call'[Lone].name \in Names /\ Existing' = before'[Lone][2]
      /\ Cardinality(Damage(before'[Lone][1], before'[Lone][2])) <= crashes'
    BY <1>1, <1>2 DEF During
<1> QED BY <1>1, <1>2, <1>3, GoAlone

\* The driver's answers.
LEMMA IoAnswers ==
    ASSUME NEW p, NEW io \in Io(p)
    PROVE  io = "SUCCESS" \/ (io = "SYS_IO" /\ call[p].faults < MaxFaults)
BY DEF Io

\* A fault that the driver may still give is not the last one allowed.
LEMMA FaultLeft ==
    ASSUME Limited, call[Lone].faults < MaxFaults
    PROVE  ~(call[Lone].faults >= MaxFaults)
<1>1. call[Lone].faults \in Nat /\ MaxFaults \in Nat
    BY LoneAssumption, KsAssumption DEF Limited, Types, Call
<1> QED BY <1>1, SMTT(20)

\* Reading the list for a new name: a refused create has changed nothing yet.
LEMMA AddReadAlone ==
    ASSUME MaxKs = 1, Limited, Frame, AloneState, Step(Lone), AddRead(Lone)
    PROVE  AloneState'
<1>1. /\ call[Lone].pc = "add_read" /\ list' = list /\ entry' = entry
    BY DEF AddRead, At, device
<1>2. PICK io \in Io(Lone) :
         \/ AddError(Lone, io) # "SUCCESS" /\ Return(Lone, AddError(Lone, io))
         \/ /\ AddError(Lone, io) = "SUCCESS"
            /\ Goto(Lone, "add_store", Append(list, call[Lone].name), call[Lone].ret, io)
    BY DEF AddRead
<1>3. During /\ Existing' = Existing
    BY <1>1, AloneFacts
<1>4. PICK n \in Names : n = call[Lone].name
    BY <1>3 DEF During
<1>5. Append(<<>>, n) = <<n>> /\ Range(<<>>) = {} /\ Len(<<>>) = 0
    BY SMTT(20) DEF Range
<1>6. CASE Forward(call[Lone], before[Lone], list)
    <2>1. list = before[Lone][1] /\ call[Lone].ret = "SUCCESS" /\ call[Lone].op = "create"
        BY <1>1, <1>6 DEF Forward
    <2>2. CASE AddError(Lone, io) = "SUCCESS"
        <3>1. list = <<>>
            <4>1. ~(Len(list) >= 1)
                BY <2>2 DEF AddError
            <4> QED BY <4>1, ShortList, SMTT(20)
        <3>2. Goto(Lone, "add_store", <<n>>, "SUCCESS", io)
            BY <1>2, <1>4, <1>5, <2>1, <2>2, <3>1
        <3>3. /\ call'[Lone].op = "create" /\ call'[Lone].name = n /\ call'[Lone].pc = "add_store"
              /\ call'[Lone].copy = <<n>> /\ call'[Lone].ret = "SUCCESS"
            BY <1>4, <2>1, <3>2, LoneAssumption, GotoFields, SMTT(20)
        <3>4. Forward(call'[Lone], before[Lone], list')
            BY <1>1, <2>1, <3>1, <3>3 DEF Forward
        <3> QED BY <1>1, <1>3, <3>2, <3>4, GotoAlone
    <2> QED BY <1>1, <1>2, <1>3, <2>1, <2>2, ReturnAlone
<1>7. CASE Undoing(call[Lone], before[Lone], list)
    <2>1. /\ call[Lone].ret # "SUCCESS" /\ call[Lone].op = "delete" /\ before[Lone][1] = <<n>>
          /\ list = <<>> /\ (call[Lone].faults >= MaxFaults \/ EntryKey(n) \notin before[Lone][2])
        BY <1>1, <1>4, <1>7 DEF Undoing
    <2>2. CASE io = "SUCCESS"
        <3>1. AddError(Lone, io) = "SUCCESS"
            BY <1>4, <1>5, <2>1, <2>2, SMTT(20) DEF AddError, Check
        <3>2. Goto(Lone, "add_store", <<n>>, call[Lone].ret, io)
            BY <1>2, <1>4, <1>5, <2>1, <3>1
        <3>3. /\ call'[Lone].op = "delete" /\ call'[Lone].name = n /\ call'[Lone].pc = "add_store"
              /\ call'[Lone].copy = <<n>> /\ call'[Lone].ret # "SUCCESS"
              /\ call'[Lone].faults = call[Lone].faults
            BY <1>4, <2>1, <2>2, <3>2, LoneAssumption, GotoFields, SMTT(20)
        <3>4. Undoing(call'[Lone], before[Lone], list')
            BY <1>1, <2>1, <3>3 DEF Undoing
        <3> QED BY <1>1, <1>3, <3>2, <3>4, GotoAlone
    <2>3. CASE io # "SUCCESS"
        <3>1. ~(call[Lone].faults >= MaxFaults)
            BY <2>3, IoAnswers, FaultLeft
        <3>2. PICK r : Return(Lone, r)
            BY <1>2, <2>3 DEF AddError
        <3> QED BY <1>1, <1>3, <1>7, <3>1, <3>2, StopAlone
    <2> QED BY <2>2, <2>3
<1>8. ~Halfway(call[Lone], before[Lone], list)
    BY <1>1 DEF Halfway
<1> QED BY <1>3, <1>6, <1>7, <1>8 DEF During

\* Storing the list with the new name, or not.
LEMMA AddStoreAlone ==
    ASSUME Limited, Frame, AloneState, Step(Lone), AddStore(Lone)
    PROVE  AloneState'
<1>1. /\ call[Lone].pc = "add_store" /\ entry' = entry
      /\ \/ "SYS_IO" \in Io(Lone) /\ Return(Lone, "SYS_IO") /\ list' = list
         \/ /\ list' = call[Lone].copy
            /\ IF call[Lone].op = "create" THEN Goto(Lone, "entry_create", <<>>, "SUCCESS", "SUCCESS")
               ELSE Return(Lone, "SUCCESS")
    BY DEF AddStore, At
<1>2. During /\ Existing' = Existing
    BY <1>1, AloneFacts
<1>3. CASE Forward(call[Lone], before[Lone], list)
    <2>1. /\ list = before[Lone][1] /\ call[Lone].op = "create"
          /\ before[Lone][1] = <<>> /\ call[Lone].copy = <<call[Lone].name>>
        BY <1>1, <1>3 DEF Forward
    <2>2. CASE Goto(Lone, "entry_create", <<>>, "SUCCESS", "SUCCESS") /\ list' = call[Lone].copy
        <3>1. /\ call'[Lone].op = "create" /\ call'[Lone].name = call[Lone].name
              /\ call'[Lone].pc = "entry_create" /\ call'[Lone].ret = "SUCCESS"
            BY <2>1, <2>2, LoneAssumption, GotoFields, SMTT(20)
        <3>2. Halfway(call'[Lone], before[Lone], list')
            BY <2>1, <2>2, <3>1 DEF Halfway
        <3> QED BY <1>1, <1>2, <2>2, <3>2, GotoAlone
    <2> QED BY <1>1, <1>2, <2>1, <2>2, ReturnAlone
<1>4. CASE Undoing(call[Lone], before[Lone], list)
    <2>1. /\ call[Lone].op = "delete" /\ before[Lone][1] = <<call[Lone].name>>
          /\ call[Lone].copy = <<call[Lone].name>>
        BY <1>1, <1>4 DEF Undoing
    <2>2. CASE "SYS_IO" \in Io(Lone) /\ Return(Lone, "SYS_IO") /\ list' = list
        <3>1. ~(call[Lone].faults >= MaxFaults)
            BY <2>2, IoAnswers, FaultLeft
        <3> QED BY <1>2, <1>4, <2>2, <3>1, StopAlone
    <2>3. CASE list' = call[Lone].copy /\ Return(Lone, "SUCCESS")
        BY <1>1, <1>2, <2>1, <2>3, ReturnAlone
    <2> QED BY <1>1, <2>1, <2>2, <2>3
<1>5. ~Halfway(call[Lone], before[Lone], list)
    BY <1>1 DEF Halfway
<1> QED BY <1>2, <1>3, <1>4, <1>5 DEF During

\* Reading the list to take a name off it.
LEMMA RemoveReadAlone ==
    ASSUME MaxKs = 1, Limited, Frame, AloneState, Step(Lone), RemoveRead(Lone)
    PROVE  AloneState'
<1>1. /\ call[Lone].pc = "remove_read" /\ list' = list /\ entry' = entry
    BY DEF RemoveRead, At, device
<1>2. During /\ Existing' = Existing
    BY <1>1, AloneFacts
<1>3. PICK n \in Names : n = call[Lone].name
    BY <1>2 DEF During
<1>4. PICK io \in Io(Lone) :
         \/ /\ Check(io, n \notin Range(list), "KS_NOT_EXIST") # "SUCCESS"
            /\ Return(Lone, Check(io, n \notin Range(list), "KS_NOT_EXIST"))
         \/ /\ Check(io, n \notin Range(list), "KS_NOT_EXIST") = "SUCCESS"
            /\ Goto(Lone, "remove_store", Removed(list, n), call[Lone].ret, io)
    BY <1>3 DEF RemoveRead
<1>5. CASE Forward(call[Lone], before[Lone], list)
    <2>1. list = before[Lone][1] /\ call[Lone].ret = "SUCCESS" /\ call[Lone].op = "delete"
        BY <1>1, <1>5 DEF Forward
    <2>2. CASE Check(io, n \notin Range(list), "KS_NOT_EXIST") = "SUCCESS"
        <3>1. n \in Range(list)
            BY <2>2 DEF Check
        <3>2. list = <<n>> /\ Removed(list, n) = <<>>
            BY <3>1, ShortList, RemoveOnly
        <3>3. Goto(Lone, "remove_store", <<>>, "SUCCESS", io)
            BY <1>4, <2>1, <2>2, <3>2
        <3>4. /\ call'[Lone].op = "delete" /\ call'[Lone].name = n /\ call'[Lone].pc = "remove_store"
              /\ call'[Lone].copy = <<>> /\ call'[Lone].ret = "SUCCESS"
            BY <1>3, <2>1, <3>3, LoneAssumption, GotoFields, SMTT(20)
        <3>5. Forward(call'[Lone], before[Lone], list')
            BY <1>1, <2>1, <3>2, <3>4 DEF Forward
        <3> QED BY <1>1, <1>2, <3>3, <3>5, GotoAlone
    <2> QED BY <1>1, <1>2, <1>4, <2>1, <2>2, ReturnAlone
<1>6. CASE Undoing(call[Lone], before[Lone], list)
    <2>1. /\ call[Lone].ret # "SUCCESS" /\ call[Lone].op = "create" /\ before[Lone][1] = <<>>
          /\ list = <<n>> /\ (call[Lone].faults >= MaxFaults \/ EntryKey(n) \in before[Lone][2])
        BY <1>1, <1>3, <1>6 DEF Undoing
    <2>2. CASE io = "SUCCESS"
        <3>1. n \in Range(list) /\ Removed(list, n) = <<>>
            BY <2>1, RemoveOnly, SMTT(20) DEF Range
        <3>2. Goto(Lone, "remove_store", <<>>, call[Lone].ret, io)
            BY <1>4, <2>2, <3>1 DEF Check
        <3>3. /\ call'[Lone].op = "create" /\ call'[Lone].name = n /\ call'[Lone].pc = "remove_store"
              /\ call'[Lone].copy = <<>> /\ call'[Lone].ret # "SUCCESS"
              /\ call'[Lone].faults = call[Lone].faults
            BY <1>3, <2>1, <2>2, <3>2, LoneAssumption, GotoFields, SMTT(20)
        <3>4. Undoing(call'[Lone], before[Lone], list')
            BY <1>1, <2>1, <3>3 DEF Undoing
        <3> QED BY <1>1, <1>2, <3>2, <3>4, GotoAlone
    <2>3. CASE io # "SUCCESS"
        <3>1. ~(call[Lone].faults >= MaxFaults)
            BY <2>3, IoAnswers, FaultLeft
        <3>2. PICK r : Return(Lone, r)
            BY <1>4, <2>3 DEF Check
        <3> QED BY <1>1, <1>2, <1>6, <3>1, <3>2, StopAlone
    <2> QED BY <2>2, <2>3
<1>7. ~Halfway(call[Lone], before[Lone], list)
    BY <1>1 DEF Halfway
<1> QED BY <1>2, <1>5, <1>6, <1>7 DEF During

\* Storing the list without the name, or not.
LEMMA RemoveStoreAlone ==
    ASSUME Limited, Frame, AloneState, Step(Lone), RemoveStore(Lone)
    PROVE  AloneState'
<1>1. /\ call[Lone].pc = "remove_store" /\ entry' = entry
      /\ \/ "SYS_IO" \in Io(Lone) /\ Return(Lone, "SYS_IO") /\ list' = list
         \/ /\ list' = call[Lone].copy
            /\ IF call[Lone].op = "delete" THEN Goto(Lone, "entry_delete", <<>>, "SUCCESS", "SUCCESS")
               ELSE Return(Lone, "SUCCESS")
    BY DEF RemoveStore, At
<1>2. During /\ Existing' = Existing
    BY <1>1, AloneFacts
<1>3. CASE Forward(call[Lone], before[Lone], list)
    <2>1. /\ list = before[Lone][1] /\ call[Lone].op = "delete"
          /\ before[Lone][1] = <<call[Lone].name>> /\ call[Lone].copy = <<>>
        BY <1>1, <1>3 DEF Forward
    <2>2. CASE Goto(Lone, "entry_delete", <<>>, "SUCCESS", "SUCCESS") /\ list' = call[Lone].copy
        <3>1. /\ call'[Lone].op = "delete" /\ call'[Lone].name = call[Lone].name
              /\ call'[Lone].pc = "entry_delete" /\ call'[Lone].ret = "SUCCESS"
            BY <2>1, <2>2, LoneAssumption, GotoFields, SMTT(20)
        <3>2. Halfway(call'[Lone], before[Lone], list')
            BY <2>1, <2>2, <3>1 DEF Halfway
        <3> QED BY <1>1, <1>2, <2>2, <3>2, GotoAlone
    <2> QED BY <1>1, <1>2, <2>1, <2>2, ReturnAlone
<1>4. CASE Undoing(call[Lone], before[Lone], list)
    <2>1. call[Lone].op = "create" /\ before[Lone][1] = <<>> /\ call[Lone].copy = <<>>
        BY <1>1, <1>4 DEF Undoing
    <2>2. CASE "SYS_IO" \in Io(Lone) /\ Return(Lone, "SYS_IO") /\ list' = list
        <3>1. ~(call[Lone].faults >= MaxFaults)
            BY <2>2, IoAnswers, FaultLeft
        <3> QED BY <1>2, <1>4, <2>2, <3>1, StopAlone
    <2>3. CASE list' = call[Lone].copy /\ Return(Lone, "SUCCESS")
        BY <1>1, <1>2, <2>1, <2>3, ReturnAlone
    <2> QED BY <1>1, <2>1, <2>2, <2>3
<1>5. ~Halfway(call[Lone], before[Lone], list)
    BY <1>1 DEF Halfway
<1> QED BY <1>2, <1>3, <1>4, <1>5 DEF During

\* The entry of a create or a delete: the last step that can fail, or the end.
LEMMA CreateEntryAlone ==
    ASSUME MaxFaults <= 1, Limited, Frame, AloneState, Step(Lone), CreateEntry(Lone)
    PROVE  AloneState'
<1>1. call[Lone].pc = "entry_create" /\ list' = list
    BY DEF CreateEntry, At
<1>2. During /\ IsFiniteSet(Existing) /\ Others' /\ crashes \in Nat
    BY <1>1, AloneFacts
<1>3. PICK n \in Names, k \in Stems : n = call[Lone].name /\ k = EntryKey(n)
    BY <1>2 DEF During, Names, EntryKey
<1>4. PICK io \in Io(Lone) :
         \/ /\ Check(io, entry[k] # "none", "KEY_EXIST") # "SUCCESS" /\ entry' = entry
            /\ Goto(Lone, "remove_read", <<>>, Check(io, entry[k] # "none", "KEY_EXIST"), io)
         \/ /\ Check(io, entry[k] # "none", "KEY_EXIST") = "SUCCESS"
            /\ entry' = [entry EXCEPT ![k] = "closed"] /\ Return(Lone, "SUCCESS")
    BY <1>3 DEF CreateEntry
<1>5. /\ call[Lone].ret = "SUCCESS" /\ call[Lone].op = "create" /\ before[Lone][1] = <<>> /\ list = <<n>>
      /\ Existing = before[Lone][2]
    BY <1>1, <1>2, <1>3 DEF During, Forward, Halfway, Undoing
<1>6. CASE /\ Check(io, entry[k] # "none", "KEY_EXIST") # "SUCCESS" /\ entry' = entry
           /\ Goto(Lone, "remove_read", <<>>, Check(io, entry[k] # "none", "KEY_EXIST"), io)
    <2>1. PICK r : r = Check(io, entry[k] # "none", "KEY_EXIST")
        OBVIOUS
    <2>2. r # "SUCCESS" /\ Goto(Lone, "remove_read", <<>>, r, io)
        BY <1>6, <2>1
    <2>3. /\ call'[Lone].op = "create" /\ call'[Lone].name = n /\ call'[Lone].pc = "remove_read"
          /\ call'[Lone].ret # "SUCCESS" /\ call[Lone].faults \in Nat
          /\ call'[Lone].faults = IF io = "SUCCESS" THEN call[Lone].faults ELSE call[Lone].faults + 1
        BY <1>3, <1>5, <2>2, LoneAssumption, GotoFields, SMTT(20)
    <2>4. call'[Lone].faults >= MaxFaults \/ EntryKey(n) \in before[Lone][2]
        <3>1. CASE io = "SUCCESS"
            BY <1>3, <1>5, <1>6, <3>1 DEF Check, Existing
        <3>2. CASE io # "SUCCESS"
            BY <2>3, <3>2, KsAssumption, SMTT(20)
        <3> QED BY <3>1, <3>2
    <2>5. Undoing(call'[Lone], before[Lone], list')
        BY <1>1, <1>5, <2>3, <2>4 DEF Undoing
    <2>6. Existing' = Existing
        BY <1>6 DEF Existing
    <2> QED BY <1>1, <2>2, <2>5, <2>6, GotoAlone
<1>7. CASE /\ Check(io, entry[k] # "none", "KEY_EXIST") = "SUCCESS"
           /\ entry' = [entry EXCEPT ![k] = "closed"] /\ Return(Lone, "SUCCESS")
    <2>1. entry[k] = "none"
        BY <1>7 DEF Check
    <2>2. k \notin Existing /\ Existing' = Existing \cup {k}
        BY <1>7, <2>1 DEF Existing, Frame
    <2>3. /\ call'[Lone] = NoCall /\ crashes' = crashes /\ last'[Lone].ret = "SUCCESS"
        BY <1>5, <1>7, LoneAssumption, ReturnFields
    <2>4. Cardinality(Existing) <= crashes
        BY <1>2, <1>3, <1>5, DamageCounts DEF During
    <2>5. IsFiniteSet(Existing') /\ Cardinality(Damage(list', Existing')) <= crashes'
        <3>1. /\ IsFiniteSet(Existing \cup {k})
              /\ Cardinality(Damage(<<n>>, Existing \cup {k})) = Cardinality(Existing)
            BY <1>2, <1>3, <2>2, DamageCounts
        <3> QED BY <1>1, <1>5, <2>2, <2>3, <2>4, <3>1
    <2> QED BY <1>2, <2>3, <2>5, EndAlone
<1> QED BY <1>4, <1>6, <1>7

\* Deleting the entry: a failure sends the call back to restore the list.
LEMMA DeleteEntryAlone ==
    ASSUME MaxFaults <= 1, Limited, Frame, AloneState, Step(Lone), DeleteEntry(Lone)
    PROVE  AloneState'
<1>1. call[Lone].pc = "entry_delete" /\ list' = list
    BY DEF DeleteEntry, At
<1>2. During /\ IsFiniteSet(Existing) /\ Others' /\ crashes \in Nat
    BY <1>1, AloneFacts
<1>3. PICK n \in Names, k \in Stems : n = call[Lone].name /\ k = EntryKey(n)
    BY <1>2 DEF During, Names, EntryKey
<1>4. PICK io \in Io(Lone) :
         \/ /\ Check(io, entry[k] = "none", "KEY_NOT_EXIST") # "SUCCESS" /\ entry' = entry
            /\ Goto(Lone, "add_read", <<>>, Check(io, entry[k] = "none", "KEY_NOT_EXIST"), io)
         \/ /\ Check(io, entry[k] = "none", "KEY_NOT_EXIST") = "SUCCESS"
            /\ entry' = [entry EXCEPT ![k] = "none"] /\ Return(Lone, "SUCCESS")
    BY <1>3 DEF DeleteEntry
<1>5. /\ call[Lone].ret = "SUCCESS" /\ call[Lone].op = "delete" /\ before[Lone][1] = <<n>> /\ list = <<>>
      /\ Existing = before[Lone][2]
    BY <1>1, <1>2, <1>3 DEF During, Forward, Halfway, Undoing
<1>6. CASE /\ Check(io, entry[k] = "none", "KEY_NOT_EXIST") # "SUCCESS" /\ entry' = entry
           /\ Goto(Lone, "add_read", <<>>, Check(io, entry[k] = "none", "KEY_NOT_EXIST"), io)
    <2>1. PICK r : r = Check(io, entry[k] = "none", "KEY_NOT_EXIST")
        OBVIOUS
    <2>2. r # "SUCCESS" /\ Goto(Lone, "add_read", <<>>, r, io)
        BY <1>6, <2>1
    <2>3. /\ call'[Lone].op = "delete" /\ call'[Lone].name = n /\ call'[Lone].pc = "add_read"
          /\ call'[Lone].ret # "SUCCESS" /\ call[Lone].faults \in Nat
          /\ call'[Lone].faults = IF io = "SUCCESS" THEN call[Lone].faults ELSE call[Lone].faults + 1
        BY <1>3, <1>5, <2>2, LoneAssumption, GotoFields, SMTT(20)
    <2>4. call'[Lone].faults >= MaxFaults \/ EntryKey(n) \notin before[Lone][2]
        <3>1. CASE io = "SUCCESS"
            BY <1>3, <1>5, <1>6, <3>1 DEF Check, Existing
        <3>2. CASE io # "SUCCESS"
            BY <2>3, <3>2, KsAssumption, SMTT(20)
        <3> QED BY <3>1, <3>2
    <2>5. Undoing(call'[Lone], before[Lone], list')
        BY <1>1, <1>5, <2>3, <2>4 DEF Undoing
    <2>6. Existing' = Existing
        BY <1>6 DEF Existing
    <2> QED BY <1>1, <2>2, <2>5, <2>6, GotoAlone
<1>7. CASE /\ Check(io, entry[k] = "none", "KEY_NOT_EXIST") = "SUCCESS"
           /\ entry' = [entry EXCEPT ![k] = "none"] /\ Return(Lone, "SUCCESS")
    <2>1. entry[k] # "none"
        BY <1>7 DEF Check
    <2>2. k \in Existing /\ Existing' = Existing \ {k}
        BY <1>7, <2>1 DEF Existing, Frame
    <2>3. /\ call'[Lone] = NoCall /\ crashes' = crashes /\ last'[Lone].ret = "SUCCESS"
        BY <1>5, <1>7, LoneAssumption, ReturnFields
    <2>4. Cardinality(Existing) - 1 <= crashes
        BY <1>2, <1>3, <1>5, <2>2, DamageCounts DEF During
    <2>5. IsFiniteSet(Existing') /\ Cardinality(Damage(list', Existing')) <= crashes'
        <3>1. /\ IsFiniteSet(Existing \ {k})
              /\ Cardinality(Damage(<<>>, Existing \ {k})) = Cardinality(Existing) - 1
            BY <1>2, <1>3, <2>2, DamageCounts
        <3> QED BY <1>1, <1>5, <2>2, <2>3, <2>4, <3>1
    <2> QED BY <1>2, <2>3, <2>5, EndAlone
<1> QED BY <1>4, <1>6, <1>7

\* Opening and closing a key space.
LEMMA ReadEntryAlone ==
    ASSUME Limited, Frame, AloneState, Step(Lone), NEW pc, NEW code, NEW next,
           ReadEntry(Lone, pc, code, next), pc \in {"exist", "open_read", "close_read"},
           next \in {"open_read", "open_store", "close_store"}, code # "SUCCESS"
    PROVE  AloneState'
<1>1. call[Lone].pc = pc /\ list' = list /\ entry' = entry
    BY DEF ReadEntry, At, device
<1>2. During /\ Existing' = Existing
    BY <1>1, AloneFacts
<1>3. PICK n \in Names, k \in Stems : n = call[Lone].name /\ k = EntryKey(n)
    BY <1>2 DEF During, Names, EntryKey
<1>4. PICK io, r :
         /\ io \in Io(Lone) /\ r = Check(io, entry[k] = "none", code)
         /\ \/ r # "SUCCESS" /\ Return(Lone, r)
            \/ r = "SUCCESS" /\ Goto(Lone, next, <<>>, r, io)
    BY <1>3 DEF ReadEntry
<1>5. /\ call[Lone].ret = "SUCCESS" /\ list = before[Lone][1] /\ Existing = before[Lone][2]
    BY <1>1, <1>2 DEF During, Forward, Halfway, Undoing
<1>6. CASE Return(Lone, r)
    BY <1>1, <1>2, <1>5, <1>6, ReturnAlone
<1>7. CASE r = "SUCCESS" /\ Goto(Lone, next, <<>>, r, io)
    <2>1. entry[k] # "none"
        BY <1>4, <1>7 DEF Check
    <2>2. k \in before[Lone][2]
        BY <1>5, <2>1 DEF Existing
    <2>3. call'[Lone].name = n /\ call'[Lone].pc = next /\ call'[Lone].ret = "SUCCESS"
        BY <1>3, <1>7, LoneAssumption, GotoFields, SMTT(20)
    <2>4. Forward(call'[Lone], before[Lone], list')
        BY <1>1, <1>3, <1>5, <2>2, <2>3 DEF Forward
    <2> QED BY <1>1, <1>2, <1>7, <2>4, GotoAlone
<1> QED BY <1>4, <1>6, <1>7

\* Storing the opened flag changes neither the list nor which entries exist.
LEMMA StoreEntryAlone ==
    ASSUME Limited, Frame, AloneState, Step(Lone), NEW pc, NEW state, NEW handle,
           StoreEntry(Lone, pc, state, handle), pc \in {"open_store", "close_store"},
           state \in {"opened", "closed"}
    PROVE  AloneState'
<1>1. call[Lone].pc = pc /\ list' = list
    BY DEF StoreEntry, At
<1>2. During
    BY <1>1, AloneFacts
<1>3. PICK n \in Names, k \in Stems : n = call[Lone].name /\ k = EntryKey(n)
    BY <1>2 DEF During, Names, EntryKey
<1>4. /\ list = before[Lone][1] /\ Existing = before[Lone][2] /\ k \in Existing
    BY <1>1, <1>2, <1>3 DEF During, Forward, Halfway, Undoing
<1>5. PICK r : Return(Lone, r) /\ (entry' = entry \/ entry' = [entry EXCEPT ![k] = state])
    BY <1>3 DEF StoreEntry
<1>6. Existing' = Existing
    BY <1>4, <1>5 DEF Existing, Frame
<1> QED BY <1>1, <1>4, <1>5, <1>6, ReturnAlone

\* A call refused before any I/O.
LEMMA RefuseAlone ==
    ASSUME Limited, Frame, AloneState, Step(Lone), NEW op, NEW n, NEW r, Refuse(Lone, op, n, r)
    PROVE  AloneState'
<1>1. /\ call[Lone].pc = "idle" /\ list' = list /\ entry' = entry /\ call' = call /\ crashes' = crashes
    BY DEF Refuse, At, device
<1>2. /\ call[Lone] = NoCall /\ Between /\ IsFiniteSet(Existing) /\ Others' /\ Existing' = Existing
    BY <1>1, AloneFacts
<1>3. before'[Lone] = <<list, Existing>>
    BY LoneAssumption DEF Refuse, Frame
<1> QED BY <1>1, <1>2, <1>3, EndAlone DEF Between

\* A crash, between calls or in one, leaves one key space more in doubt at most.
LEMMA CrashAlone ==
    ASSUME MaxKs = 1, Limited, Frame, AloneState, Step(Lone), Crash(Lone)
    PROVE  AloneState'
<1>1. /\ call'[Lone] = NoCall /\ last'[Lone] = NoResult /\ list' = list /\ entry' = entry
      /\ crashes' = crashes + 1
    <2>1. /\ call' = [call EXCEPT ![Lone] = NoCall] /\ last' = [last EXCEPT ![Lone] = NoResult]
          /\ list' = list /\ entry' = entry /\ crashes' = crashes + 1
        BY DEF Crash, device
    <2> QED BY <2>1, LoneAssumption DEF Limited, Types, Frame
<1>2. IsFiniteSet(Existing) /\ Others' /\ crashes \in Nat /\ Existing' = Existing
    BY <1>1, AloneFacts
<1>3. Cardinality(Damage(list, Existing)) <= crashes + 1
    <2>1. ASSUME NEW n \in Names
          PROVE  /\ Cardinality(Existing) \in Nat /\ Cardinality(Damage(<<>>, Existing)) = Cardinality(Existing)
                 /\ \/ Cardinality(Damage(<<n>>, Existing)) = Cardinality(Existing) + 1
                    \/ Cardinality(Damage(<<n>>, Existing)) = Cardinality(Existing) - 1
        BY <1>2, DamageCounts
    <2>2. ASSUME Cardinality(Damage(list, Existing)) <= crashes
          PROVE  Cardinality(Damage(list, Existing)) <= crashes + 1
        <3>1. CASE list = <<>>
            <4>1. Damage(<<>>, Existing) = Existing
                BY SMTT(20) DEF Damage, Range
            <4>2. Cardinality(Existing) \in Nat
                BY <1>2, FS_CardinalityType
            <4> QED BY <1>2, <2>2, <3>1, <4>1, <4>2, SMTT(20)
        <3>2. CASE \E n \in Names : list = <<n>>
            <4>1. PICK n \in Names : list = <<n>>
                BY <3>2
            <4>2. Cardinality(Damage(list, Existing)) \in Int
                BY <2>1, <4>1, SMTT(20)
            <4> QED BY <1>2, <2>2, <4>2, SMTT(20)
        <3> QED BY <3>1, <3>2, ShortList
    <2>3. CASE call[Lone].pc = "idle"
        BY <2>2, <2>3, AloneFacts DEF Between
    <2>4. CASE call[Lone].pc # "idle"
        <3>1. During
            BY <2>4, AloneFacts
        <3>2. PICK n \in Names : n = call[Lone].name
            BY <3>1 DEF During
        <3>3. Cardinality(Damage(before[Lone][1], Existing)) <= crashes
            BY <3>1 DEF During
        <3>4. \/ list = before[Lone][1]
              \/ before[Lone][1] = <<>> /\ list = <<n>>
              \/ before[Lone][1] = <<n>> /\ list = <<>>
            BY <3>1, <3>2 DEF During, Forward, Halfway, Undoing
        <3>5. CASE list = before[Lone][1]
            BY <2>2, <3>3, <3>5
        <3>6. CASE before[Lone][1] = <<>> /\ list = <<n>>
            BY <1>2, <2>1, <3>3, <3>6, SMTT(20)
        <3>7. CASE before[Lone][1] = <<n>> /\ list = <<>>
            BY <1>2, <2>1, <3>3, <3>7, SMTT(20)
        <3> QED BY <3>4, <3>5, <3>6, <3>7
    <2> QED BY <2>3, <2>4
<1> QED BY <1>1, <1>2, <1>3, EndAlone, SMTT(20) DEF NoResult

\* Every step of the lone process.
LEMMA AloneStep ==
    ASSUME MaxKs = 1, MaxFaults <= 1, Limited, Frame, AloneState, Step(Lone)
    PROVE  AloneState'
<1>1. ASSUME NEW n \in Names, Create(Lone, n) \/ Delete(Lone, n) \/ Open(Lone, n) PROVE AloneState'
    BY <1>1, BeginAlone, RefuseAlone DEF Create, Delete, Open
<1>2. CASE ExistEntry(Lone) \/ OpenRead(Lone) \/ CloseRead(Lone)
    BY <1>2, ReadEntryAlone DEF ExistEntry, OpenRead, CloseRead
<1>3. CASE OpenStore(Lone) \/ CloseStore(Lone)
    BY <1>3, StoreEntryAlone DEF OpenStore, CloseStore
<1>4. CASE Close(Lone)
    <2>1. hd[Lone] \in Names
        BY <1>4, LoneAssumption DEF Close, Limited, Types
    <2> QED BY <1>4, <2>1, BeginAlone DEF Close
<1>5. CASE StorePair(Lone)
    <2>1. UNCHANGED <<list, entry, call, hd, last, before, crashes>>
        BY <1>5 DEF StorePair
    <2>2. Existing' = Existing
        BY <2>1 DEF Existing
    <2> QED BY <2>1, <2>2 DEF AloneState, Others, Between, During, Damage, Forward, Halfway, Undoing
<1>6. CASE LeaveDevice(Lone)
    <2>1. UNCHANGED <<list, entry, call, last, before, crashes>> /\ Others'
        BY <1>6, AloneFacts DEF LeaveDevice, device
    <2>2. Existing' = Existing
        BY <2>1 DEF Existing
    <2> QED BY <2>1, <2>2 DEF AloneState, Between, During, Damage, Forward, Halfway, Undoing
<1> QED BY <1>1, <1>2, <1>3, <1>4, <1>5, <1>6, AddReadAlone, AddStoreAlone, RemoveReadAlone,
           RemoveStoreAlone, CreateEntryAlone, DeleteEntryAlone, CrashAlone DEF Step

\* In the modes with one process.
AloneInv == mode # "shared" => AloneState

\* What a single process finds between and during its calls.
LEMMA AloneCorrect == ASSUME MaxKs = 1, MaxFaults <= 1 PROVE MCSpec => []AloneInv
<1>1. MCInit => AloneInv
    <2> SUFFICES ASSUME MCInit PROVE AloneState
        BY DEF AloneInv
    <2>1. /\ list = <<>> /\ entry = [t \in Stems |-> "none"] /\ call = [p \in Clients |-> NoCall]
          /\ hd = [p \in Clients |-> NoName] /\ last = [p \in Clients |-> NoResult] /\ crashes = 0
        BY DEF MCInit, Init
    <2>2. Existing = {} /\ Damage(list, Existing) = {}
        BY <2>1, SMTT(20) DEF Existing, Damage, Range
    <2>3. IsFiniteSet(Existing) /\ Cardinality(Damage(list, Existing)) = 0
        BY <2>2, FS_EmptySet
    <2>4. last[Lone].ret = "SUCCESS" /\ call[Lone] = NoCall
        BY <2>1, LoneAssumption DEF NoResult
    <2>5. Others
        BY <2>1 DEF Others
    <2> QED BY <2>1, <2>3, <2>4, <2>5, SMTT(20) DEF AloneState, Between
<1>2. Limited /\ Frame /\ AloneInv /\ [MCNext]_mcVars => AloneInv'
    <2> SUFFICES ASSUME Limited, Frame, AloneInv, [MCNext]_mcVars, mode' # "shared" PROVE AloneState'
        BY DEF AloneInv
    <2>1. CASE MCNext
        <3>1. mode' = mode /\ Step(Lone)
            BY <2>1 DEF MCNext, PlainStep
        <3> QED BY <3>1, AloneStep DEF AloneInv
    <2>2. CASE UNCHANGED mcVars
        <3>1. UNCHANGED <<list, entry, call, hd, last, before, crashes, mode>>
            BY <2>2 DEF mcVars, vars
        <3>2. Existing' = Existing /\ AloneState
            BY <3>1 DEF Existing, AloneInv
        <3> QED BY <3>1, <3>2 DEF AloneState, Others, Between, During, Damage, Forward, Halfway, Undoing
    <2> QED BY <2>1, <2>2
<1> QED BY <1>1, <1>2, ModeTyped, PTL DEF MCSpec

\* kvs_create_key_space and kvs_delete_key_space undo what they did: with the limit of
\* one key space (KS_MAX_CONT), one process, no crash and at most one failing I/O in a call,
\* a call that returns an error leaves the list and the entries as it found them.
THEOREM ErrorUndoneCorrect ==
    ASSUME MaxKs = 1, MaxFaults <= 1 PROVE MCSpec => []ErrorUndoneAlone
<1>1. AloneInv => ErrorUndoneAlone
    <2> SUFFICES ASSUME AloneInv, Undisturbed, Quiet, NEW p \in Clients, last[p].ret # "SUCCESS"
                 PROVE  before[p] = <<list, Existing>>
        BY DEF ErrorUndoneAlone, ErrorChangesNothing
    <2>1. AloneState /\ crashes = 0 /\ call[Lone] = NoCall
        BY LoneAssumption DEF AloneInv, Undisturbed, Quiet
    <2>2. p = Lone
        BY <2>1, SMTT(20) DEF AloneState, Others, NoResult
    <2> QED BY <2>1, <2>2 DEF AloneState, Between
<1> QED BY <1>1, AloneCorrect, PTL

\* Each crash in the middle of a create or a delete leaves at most one key space that is on
\* the list and has no entry, or the other way round, whatever calls follow: with the limit
\* of one key space, one process and at most one failing I/O in a call.
THEOREM DamageBoundedCorrect ==
    ASSUME MaxKs = 1, MaxFaults <= 1 PROVE MCSpec => []DamageBoundedAlone
<1>1. AloneInv => DamageBoundedAlone
    <2> SUFFICES ASSUME AloneInv, mode # "shared", Quiet PROVE DamageBounded
        BY DEF DamageBoundedAlone, DamageBounded
    <2>1. AloneState /\ call[Lone] = NoCall
        BY LoneAssumption DEF AloneInv, Quiet
    <2> QED BY <2>1 DEF AloneState, Between, Damage, DamageBounded
<1> QED BY <1>1, AloneCorrect, PTL

============================================================================

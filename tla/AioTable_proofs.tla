-------------------------- MODULE AioTable_proofs --------------------------
(***************************************************************************)
(* Proofs about AioTable, for a table of any size and any number of        *)
(* contexts, processes, workers and commands: the reference count of a     *)
(* context is exact and an id names one context of one process, until a    *)
(* lookup meets freed memory or a copy to the user fails.                  *)
(***************************************************************************)
EXTENDS AioTable, FiniteSetTheorems, TLAPS

\* Most steps are first-order, so Zenon is tried first; a step that needs more cites SMT.
USE ZenonT(10), SMTT(20)

Somewhere == {"set", "copy", "del", "found", "held", "put"}

\* The types, and what the steps need to stay inside them.
Types ==
    /\ TypeOK /\ uid \in [Ctxs -> Ids]
    /\ \A a \in Actors : pc[a] \in Somewhere => at[a] \in Ctxs
    /\ \A k \in Cmds : cmd[k].st = "device" => cmd[k].id \in Ids
    /\ \A w \in Workers : pc[w] \in {"idle", "found", "held", "put"}

(***************************************************************************)
(* Types.                                                                  *)
(***************************************************************************)
LEMMA IdsFinite ==
    ASSUME TypeOK
    PROVE  /\ IsFiniteSet(Ids) /\ Cardinality(Ids) \in Nat \ {0, 1} /\ Ids = 0 .. Cardinality(Ids) - 1
<1>1. PICK n \in Sizes : tb \in [0 .. n - 1 -> Ctxs \cup {None}]
    BY DEF TypeOK
<1>2. n \in Nat \ {0, 1} /\ Ids = 0 .. n - 1
    BY <1>1, TableAssumption DEF Ids
<1>3. IsFiniteSet(0 .. n - 1) /\ Cardinality(0 .. n - 1) = n
    BY <1>2, FS_Interval, SMTT(20)
<1> QED BY <1>2, <1>3

\* The loop of nvme_set_aioctx ends at a vacant slot when there is one.
LEMMA SlotVacant ==
    ASSUME TypeOK, Vacant # {}
    PROVE  NextSlot \in Ids /\ tb[NextSlot] = None
<1>1. Vacant \subseteq Nat
    BY IdsFinite, SMTT(20) DEF Vacant
<1>2. IsWellFoundedOn(StrictSubsetOrdering(Ids), FiniteSubsetsOf(Ids))
    BY IdsFinite, FS_StrictSubsetOrderingWellFounded
<1> DEFINE Below == {0 .. i : i \in Vacant}
<1>3. Below \subseteq FiniteSubsetsOf(Ids) /\ Below # {}
    <2>1. ASSUME NEW i \in Vacant PROVE 0 .. i \subseteq Ids /\ IsFiniteSet(0 .. i)
        <3>1. i \in Nat
            BY <1>1
        <3>2. IsFiniteSet(0 .. i)
            BY <3>1, FS_Interval, SMTT(20)
        <3> QED BY <3>1, <3>2, IdsFinite, SMTT(20) DEF Vacant
    <2> QED BY <2>1 DEF FiniteSubsetsOf
<1>4. PICK x \in Below : \A y \in Below : ~(<<y, x>> \in StrictSubsetOrdering(Ids))
    BY <1>2, <1>3, WFMin
<1>5. PICK i \in Vacant : x = 0 .. i
    OBVIOUS
<1>6. \A j \in Vacant : i <= j
    <2> SUFFICES ASSUME NEW j \in Vacant, j < i PROVE FALSE
        BY <1>1, SMTT(20)
    <2>1. 0 .. j \subseteq Ids /\ 0 .. i \subseteq Ids /\ 0 .. j \subseteq 0 .. i /\ 0 .. j # 0 .. i
        BY <1>1, IdsFinite, SMTT(20) DEF Vacant
    <2>2. <<0 .. j, x>> \in StrictSubsetOrdering(Ids)
        BY <1>5, <2>1 DEF StrictSubsetOrdering
    <2> QED BY <1>4, <2>2
<1>7. (CHOOSE m \in Vacant : \A j \in Vacant : m <= j) \in Vacant
    BY <1>6
<1> QED BY <1>7 DEF NextSlot, Vacant, TypeOK

\* What Types says, with the table's domain by its name.
LEMMA TypesSay ==
    ASSUME Types
    PROVE  /\ DOMAIN tb = Ids /\ (\A i \in Ids : tb[i] \in Ctxs \cup {None}) /\ tb = [i \in DOMAIN tb |-> tb[i]]
           /\ nextId \in Ids /\ lock \in {"free", "held", "lost"}
           /\ mem \in [Ctxs -> {"free", "new", "live", "leaked"}]
           /\ ref \in [Ctxs -> Int] /\ uid \in [Ctxs -> Ids] /\ list \in [Ctxs -> Seq(Cmds)]
           /\ cmd \in [Cmds -> [st : {"idle", "device", "held", "listed"},
                                id : Ids \cup {None}, by : Procs \cup {None}]]
           /\ \A k \in Cmds : cmd[k].st = "device" => cmd[k].id \in Ids
           /\ pc \in [Actors -> {"idle", "set", "copy", "del", "found", "held", "put", "out"}]
           /\ at \in [Actors -> Ctxs \cup {None}]
           /\ \A a \in Actors : pc[a] \in Somewhere => at[a] \in Ctxs
           /\ \A w \in Workers : pc[w] \in {"idle", "found", "held", "put"}
           /\ hand \in [Actors -> Seq(Cmds)] /\ mine \in [Procs -> Ids \cup {None}]
           /\ late \in BOOLEAN /\ uncopied \in BOOLEAN /\ wrapped \in BOOLEAN
<1>1. PICK n \in Sizes : tb \in [0 .. n - 1 -> Ctxs \cup {None}]
    BY DEF Types, TypeOK
<1>2. DOMAIN tb = Ids /\ (\A i \in Ids : tb[i] \in Ctxs \cup {None}) /\ tb = [i \in DOMAIN tb |-> tb[i]]
    BY <1>1 DEF Ids
<1> QED BY <1>2 DEF Types, TypeOK

\* The types hold at first.
LEMMA InitTypes == Init => Types
<1> SUFFICES ASSUME Init PROVE Types
    OBVIOUS
<1>1. PICK n \in Sizes : tb = [i \in 0 .. n - 1 |-> None]
    BY DEF Init
<1>2. n \in Nat \ {0, 1} /\ Ids = 0 .. n - 1
    BY <1>1, TableAssumption DEF Ids
<1>3. Ids \subseteq Nat /\ 0 \in Ids /\ 1 \in Ids
    BY <1>2, SMTT(20)
<1>4. Idle \in [st : {"idle", "device", "held", "listed"}, id : Ids \cup {None}, by : Procs \cup {None}]
      /\ Idle.st = "idle"
    BY DEF Idle, Kaiocb
<1>5. cmd \in [Cmds -> [st : {"idle", "device", "held", "listed"}, id : Ids \cup {None}, by : Procs \cup {None}]]
      /\ \A k \in Cmds : cmd[k].st # "device"
    BY <1>4 DEF Init
<1>6. list \in [Ctxs -> Seq(Cmds)] /\ hand \in [Actors -> Seq(Cmds)]
    <2>1. <<>> \in Seq(Cmds)
        BY SMTT(20)
    <2> QED BY <2>1 DEF Init
<1>7. tb \in [0 .. n - 1 -> Ctxs \cup {None}]
    BY <1>1
<1>8. /\ pc = [a \in Actors |-> "idle"] /\ at = [a \in Actors |-> None] /\ mine = [p \in Procs |-> None]
      /\ mem = [c \in Ctxs |-> "free"] /\ ref = [c \in Ctxs |-> 0] /\ uid = [c \in Ctxs |-> 0]
      /\ nextId = 1 /\ lock = "free" /\ late = FALSE /\ uncopied = FALSE /\ wrapped = FALSE
    BY DEF Init
<1>9. TypeOK
    <2>1. \E m \in Sizes : tb \in [0 .. m - 1 -> Ctxs \cup {None}]
        BY <1>7
    <2>2. /\ pc \in [Actors -> {"idle", "set", "copy", "del", "found", "held", "put", "out"}]
          /\ at \in [Actors -> Ctxs \cup {None}] /\ mine \in [Procs -> Ids \cup {None}]
        BY <1>8
    <2>3. /\ mem \in [Ctxs -> {"free", "new", "live", "leaked"}] /\ ref \in [Ctxs -> Int]
          /\ uid \in [Ctxs -> Nat] /\ nextId \in Ids /\ lock \in {"free", "held", "lost"}
        BY <1>3, <1>8, SMTT(20)
    <2> QED BY <1>5, <1>6, <1>8, <2>1, <2>2, <2>3 DEF TypeOK
<1> QED BY <1>3, <1>5, <1>8, <1>9 DEF Types, Somewhere, Actors

\* Every step keeps the types.
LEMMA NextTypes == Types /\ [Next]_vars => Types'

\* A step that leaves the table's domain alone, and the types of what it assigns.
<1>TypesKept. ASSUME Types, DOMAIN tb' = DOMAIN tb, \A i \in Ids : tb'[i] \in Ctxs \cup {None},
                     tb' = [i \in DOMAIN tb' |-> tb'[i]],
                     nextId' \in Ids, lock' \in {"free", "held", "lost"},
                     mem' \in [Ctxs -> {"free", "new", "live", "leaked"}],
                     ref' \in [Ctxs -> Int], uid' \in [Ctxs -> Ids], list' \in [Ctxs -> Seq(Cmds)],
                     cmd' \in [Cmds -> [st : {"idle", "device", "held", "listed"},
                                        id : Ids \cup {None}, by : Procs \cup {None}]],
                     \A k \in Cmds : cmd'[k].st = "device" => cmd'[k].id \in Ids,
                     pc' \in [Actors -> {"idle", "set", "copy", "del", "found", "held", "put", "out"}],
                     at' \in [Actors -> Ctxs \cup {None}],
                     \A a \in Actors : pc'[a] \in Somewhere => at'[a] \in Ctxs,
                     \A w \in Workers : pc'[w] \in {"idle", "found", "held", "put"},
                     hand' \in [Actors -> Seq(Cmds)], mine' \in [Procs -> Ids \cup {None}],
                     late' \in BOOLEAN, uncopied' \in BOOLEAN, wrapped' \in BOOLEAN
              PROVE  Types'
    <2> USE <1>TypesKept
    <2>1. PICK n \in Sizes : tb \in [0 .. n - 1 -> Ctxs \cup {None}]
        BY DEF Types, TypeOK
    <2>2. tb' \in [0 .. n - 1 -> Ctxs \cup {None}] /\ Ids' = Ids
        BY <2>1 DEF Ids
    <2>3. Ids \subseteq Nat
        BY IdsFinite, SMTT(20) DEF Types
    <2>4. uid' \in [Ctxs -> Nat]
        BY <2>3
    <2>5. TypeOK'
        BY <2>2, <2>4 DEF TypeOK
    <2> QED BY <2>2, <2>5 DEF Types
\* Moving or freeing kaiocbs keeps their types.
<1>KaiocbTypes. ASSUME Types, NEW ks, Release(ks) \/ Move(ks, "held") \/ Move(ks, "listed")
                PROVE  /\ cmd' \in [Cmds -> [st : {"idle", "device", "held", "listed"},
                                             id : Ids \cup {None}, by : Procs \cup {None}]]
                       /\ \A k \in Cmds : cmd'[k].st = "device" => cmd'[k].id \in Ids
    <2> USE <1>KaiocbTypes
    <2> DEFINE K == [st : {"idle", "device", "held", "listed"}, id : Ids \cup {None}, by : Procs \cup {None}]
    <2>1. cmd \in [Cmds -> K] /\ \A k \in Cmds : cmd[k].st = "device" => cmd[k].id \in Ids
        BY TypesSay
    <2>2. CASE Release(ks)
        <3>1. Idle \in K /\ Idle.st # "device"
            BY DEF Idle, Kaiocb
        <3> HIDE DEF K
        <3>2. cmd' = [k \in Cmds |-> IF k \in ks THEN Idle ELSE cmd[k]]
            BY <2>2 DEF Release
        <3> HIDE DEF Release
        <3>3. \A k \in Cmds : cmd'[k] \in K /\ (cmd'[k].st = "device" => cmd'[k].id \in Ids)
            <4> SUFFICES ASSUME NEW k \in Cmds PROVE cmd'[k] \in K /\ (cmd'[k].st = "device" => cmd'[k].id \in Ids)
                OBVIOUS
            <4>1. CASE k \in ks
                <5>1. cmd'[k] = Idle BY <3>2, <4>1
                <5> QED BY <5>1, <3>1
            <4>2. CASE k \notin ks
                <5>1. cmd'[k] = cmd[k] BY <3>2, <4>2
                <5> QED BY <5>1, <2>1
            <4> QED BY <4>1, <4>2
        <3>4. cmd' \in [Cmds -> K]
            BY <3>2, <3>3
        <3> QED BY <3>3, <3>4 DEF K
    <2>3. ASSUME NEW st \in {"held", "listed"}, Move(ks, st)
          PROVE  cmd' \in [Cmds -> K] /\ \A k \in Cmds : cmd'[k].st = "device" => cmd'[k].id \in Ids
        <3>1. \A k \in Cmds : [cmd[k] EXCEPT !.st = st] \in K /\ [cmd[k] EXCEPT !.st = st].st # "device"
            BY <2>1, <2>3
        <3> HIDE DEF K
        <3>2. \A k \in Cmds : cmd'[k] = [cmd[k] EXCEPT !.st = st] \/ cmd'[k] = cmd[k]
            BY <2>3 DEF Move
        <3> QED BY <2>1, <2>3, <3>1, <3>2 DEF Move
    <2> QED BY <2>2, <2>3
\* Dropping a reference keeps the types.
<1>DerefTypes. ASSUME Types, NEW c \in Ctxs, Deref(c)
               PROVE  /\ mem' \in [Ctxs -> {"free", "new", "live", "leaked"}]
                      /\ ref' \in [Ctxs -> Int] /\ uid' \in [Ctxs -> Ids] /\ list' \in [Ctxs -> Seq(Cmds)]
                      /\ cmd' \in [Cmds -> [st : {"idle", "device", "held", "listed"},
                                            id : Ids \cup {None}, by : Procs \cup {None}]]
                      /\ \A k \in Cmds : cmd'[k].st = "device" => cmd'[k].id \in Ids
                      /\ late' \in BOOLEAN
    <2> USE <1>DerefTypes
    <2>1. 0 \in Ids
        BY IdsFinite, SMTT(20) DEF Types
    <2>2. ref' \in [Ctxs -> Int] /\ late' \in BOOLEAN
        BY TypesSay, SMTT(20) DEF Deref
    <2>3. CASE ref[c] = 1
        <3>1. Release(Range(list[c]))
            BY <2>3 DEF Deref
        <3>2. mem' \in [Ctxs -> {"free", "new", "live", "leaked"}] /\ uid' \in [Ctxs -> Ids]
            BY <2>1, <2>3, TypesSay DEF Deref
        <3>3. list \in [Ctxs -> Seq(Cmds)] /\ list' = [list EXCEPT ![c] = <<>>]
            BY <2>3, TypesSay DEF Deref
        <3>4. list' \in [Ctxs -> Seq(Cmds)]
            BY <3>3, SMTT(20)
        <3> QED BY <2>2, <3>1, <3>2, <3>4, <1>KaiocbTypes
    <2>4. CASE ref[c] # 1
        <3>1. UNCHANGED <<mem, uid, cmd, list>>
            BY <2>4 DEF Deref
        <3> QED BY <2>2, <3>1, TypesSay
    <2> QED BY <2>3, <2>4
\* Where an actor goes.
<1>GotoTypes. ASSUME Types, NEW a \in Actors, NEW c \in Ctxs \cup {None},
                     NEW where \in {"idle", "set", "copy", "del", "found", "held", "put", "out"}, Goto(a, where, c),
                     where \in Somewhere => c \in Ctxs,
                     a \in Workers => where \in {"idle", "found", "held", "put"}
              PROVE  /\ pc' \in [Actors -> {"idle", "set", "copy", "del", "found", "held", "put", "out"}]
                     /\ at' \in [Actors -> Ctxs \cup {None}]
                     /\ \A b \in Actors : pc'[b] \in Somewhere => at'[b] \in Ctxs
                     /\ \A w \in Workers : pc'[w] \in {"idle", "found", "held", "put"}
    BY <1>GotoTypes, TypesSay DEF Goto, Actors
\* nvme_set_aioctx.
<1>SetTypes. ASSUME Types, NEW p \in Procs, SetBegin(p) \/ SetLocked(p) \/ SetEnd(p)
             PROVE  Types'
    <2> USE <1>SetTypes
    <2> USE DEF tableVars, ctxVars, actorVars, histVars
    <2>1. p \in Actors /\ p \notin Workers
        BY TableAssumption DEF Actors
    <2>2. MayAlloc(p) => Allocated \in Ctxs
        BY DEF MayAlloc, Allocated
    <2>3. CASE SetAlloc(p)
        <3>1. /\ UNCHANGED <<tableVars, ref, uid, list, cmd, hand, mine, histVars>>
              /\ mem' = [mem EXCEPT ![Allocated] = "new"] /\ Goto(p, "set", Allocated) /\ Allocated \in Ctxs
            BY <2>2, <2>3 DEF SetAlloc
        <3>2. mem' \in [Ctxs -> {"free", "new", "live", "leaked"}]
            BY <3>1, TypesSay
        <3> QED BY <2>1, <3>1, <3>2, <1>GotoTypes, TypesSay, <1>TypesKept, SMTT(20)
    <2>4. CASE SetBadArgument(p)
        <3>1. /\ UNCHANGED <<tableVars, ref, uid, list, cmd, actorVars, mine, histVars>>
              /\ mem' = [mem EXCEPT ![Allocated] = "leaked"]
            BY <2>4 DEF SetBadArgument
        <3>2. mem' \in [Ctxs -> {"free", "new", "live", "leaked"}]
            BY <3>1, TypesSay
        <3> QED BY <3>1, <3>2, TypesSay, <1>TypesKept, SMTT(20)
    <2>5. CASE SetEnter(p)
        <3>1. NextSlot \in Ids /\ at[p] \in Ctxs
            BY <2>1, <2>5, SlotVacant, TypesSay DEF SetEnter, Types, Somewhere
        <3>2. nextId' \in Ids
            <4> DEFINE n == Cardinality(Ids)
            <4>1. n \in Nat \ {0, 1} /\ Ids = 0 .. n - 1 /\ nextId' = (NextSlot + 1) % n
                BY <2>5, IdsFinite DEF SetEnter, Types
            <4> HIDE DEF n
            <4> QED BY <3>1, <4>1, SMTT(20)
        <3>3. DOMAIN tb' = DOMAIN tb /\ (\A i \in Ids : tb'[i] \in Ctxs \cup {None}) /\ tb' = [i \in DOMAIN tb' |-> tb'[i]]
            BY <2>5, <3>1, TypesSay DEF SetEnter
        <3>4. /\ mem' \in [Ctxs -> {"free", "new", "live", "leaked"}] /\ ref' \in [Ctxs -> Int]
              /\ uid' \in [Ctxs -> Ids]
            BY <2>5, <3>1, TypesSay, SMTT(20) DEF SetEnter
        <3>5. list' \in [Ctxs -> Seq(Cmds)]
            <4>1. list \in [Ctxs -> Seq(Cmds)] /\ list' = [list EXCEPT ![at[p]] = <<>>]
                BY <2>5, TypesSay DEF SetEnter
            <4>2. <<>> \in Seq(Cmds)
                BY SMTT(20)
            <4> QED BY <3>1, <4>1, <4>2
        <3>6. wrapped' \in BOOLEAN
            BY <2>5 DEF SetEnter
        <3>7. UNCHANGED <<lock, cmd, hand, mine, late, uncopied>> /\ Goto(p, "copy", at[p])
            BY <2>5 DEF SetEnter
        <3> QED BY <2>1, <3>1, <3>2, <3>3, <3>4, <3>5, <3>6, <3>7, <1>GotoTypes, TypesSay, <1>TypesKept
    <2>6. CASE SetFull(p)
        <3>1. /\ UNCHANGED <<tb, nextId, ref, uid, list, cmd, hand, mine, histVars>> /\ lock' = "lost"
              /\ mem' = [mem EXCEPT ![at[p]] = "leaked"] /\ Goto(p, "idle", None)
            BY <2>6 DEF SetFull
        <3>2. mem' \in [Ctxs -> {"free", "new", "live", "leaked"}]
            BY <3>1, TypesSay
        <3> QED BY <2>1, <3>1, <3>2, <1>GotoTypes, TypesSay, <1>TypesKept, SMTT(20) DEF Somewhere
    <2>7. CASE SetReturn(p)
        <3>1. UNCHANGED <<tableVars, ctxVars, cmd, hand, histVars>> /\ Goto(p, "idle", None)
            BY <2>7 DEF SetReturn
        <3>2. mine' \in [Procs -> Ids \cup {None}]
            BY <2>1, <2>7, TypesSay DEF SetReturn, Somewhere
        <3> QED BY <2>1, <3>1, <3>2, <1>GotoTypes, TypesSay, <1>TypesKept, SMTT(20) DEF Somewhere
    <2>8. CASE SetCopyFails(p)
        <3>1. /\ UNCHANGED <<nextId, lock, ref, uid, list, cmd, hand, mine, wrapped>> /\ uncopied' = TRUE
              /\ mem' = [mem EXCEPT ![at[p]] = "leaked"] /\ Goto(p, "idle", None)
            BY <2>8 DEF SetCopyFails
        <3>2. mem' \in [Ctxs -> {"free", "new", "live", "leaked"}]
            BY <3>1, TypesSay
        <3>3. late' \in BOOLEAN
            BY <2>8, TypesSay DEF SetCopyFails
        <3>4. DOMAIN tb' = DOMAIN tb /\ (\A i \in Ids : tb'[i] \in Ctxs \cup {None}) /\ tb' = [i \in DOMAIN tb' |-> tb'[i]]
            BY <2>8, TypesSay DEF SetCopyFails
        <3> QED BY <2>1, <3>1, <3>2, <3>3, <3>4, <1>GotoTypes, TypesSay, <1>TypesKept DEF Somewhere
    <2> QED BY <2>3, <2>4, <2>5, <2>6, <2>7, <2>8 DEF SetBegin, SetLocked, SetEnd
\* nvme_del_aioctx, and the end of a process.
<1>DelTypes. ASSUME Types, NEW p \in Procs, DelStep(p) \/ Die(p)
             PROVE  Types'
    <2> USE <1>DelTypes
    <2> USE DEF tableVars, ctxVars, actorVars, histVars
    <2>1. p \in Actors /\ p \notin Workers
        BY TableAssumption DEF Actors
    <2>2. CASE DelDeref(p)
        <3>1. mine[p] \in Ids /\ tb[mine[p]] \in Ctxs
            BY <2>2, TypesSay DEF DelDeref
        <3> DEFINE c == tb[mine[p]]
        <3>2. /\ UNCHANGED <<tb, nextId, hand, mine, uncopied, wrapped>> /\ lock' = "held" /\ Goto(p, "del", c)
              /\ IF mem[c] = "live" THEN Deref(c) ELSE late' = TRUE /\ UNCHANGED <<mem, ref, uid, list, cmd>>
            BY <2>2 DEF DelDeref
        <3> HIDE DEF c
        <3>3. CASE Deref(c)
            BY <2>1, <3>1, <3>2, <3>3, <1>DerefTypes, <1>GotoTypes, TypesSay, <1>TypesKept, SMTT(20) DEF c
        <3>4. CASE late' = TRUE /\ UNCHANGED <<mem, ref, uid, list, cmd>>
            BY <2>1, <3>1, <3>2, <3>4, <1>GotoTypes, TypesSay, <1>TypesKept, SMTT(20) DEF c
        <3> QED BY <3>2, <3>3, <3>4
    <2>3. CASE DelClear(p)
        <3>1. UNCHANGED <<nextId, ctxVars, cmd, hand, histVars>> /\ lock' = "free" /\ Goto(p, "idle", None)
            BY <2>3 DEF DelClear
        <3>2. DOMAIN tb' = DOMAIN tb /\ (\A i \in Ids : tb'[i] \in Ctxs \cup {None}) /\ tb' = [i \in DOMAIN tb' |-> tb'[i]]
            BY <2>3, TypesSay DEF DelClear
        <3>3. mine' \in [Procs -> Ids \cup {None}]
            BY <2>3, TypesSay DEF DelClear
        <3> QED BY <2>1, <3>1, <3>2, <3>3, <1>GotoTypes, TypesSay, <1>TypesKept DEF Somewhere
    <2>4. CASE DelNothing(p) \/ Die(p)
        <3>1. UNCHANGED <<tableVars, ctxVars, cmd, actorVars, histVars>>
            BY <2>4 DEF DelNothing, Die
        <3>2. mine' \in [Procs -> Ids \cup {None}]
            BY <2>4, TypesSay DEF DelNothing, Die
        <3> QED BY <3>1, <3>2, TypesSay, <1>TypesKept
    <2> QED BY <2>2, <2>3, <2>4 DEF DelStep
\* The first and the last events of a list.
<1>SplitTypes. ASSUME NEW l \in Seq(Cmds), NEW n \in 0 .. Len(l)
               PROVE  Fronted(SubSeq(l, 1, n)) \in Seq(Cmds) /\ SubSeq(l, n + 1, Len(l)) \in Seq(Cmds)
    <2> USE <1>SplitTypes
    <2>1. SubSeq(l, 1, n) \in Seq(Cmds) /\ SubSeq(l, n + 1, Len(l)) \in Seq(Cmds)
        BY SMTT(20)
    <2> DEFINE s == SubSeq(l, 1, n)
    <2>2. s \in Seq(Cmds)
        BY <2>1
    <2> HIDE DEF s
    <2>3. \A i \in 1 .. Len(s) : s[(Len(s) - i) + 1] \in Cmds
        BY <2>2, SMTT(20)
    <2>4. Fronted(s) \in Seq(Cmds)
        BY <2>2, <2>3, SMTT(20) DEF Fronted
    <2> QED BY <2>1, <2>4 DEF s
\* A lookup, and what it was for.
<1>UseTypes. ASSUME Types, NEW a \in Actors,
                    \/ a \in Procs /\ GetStep(a)
                    \/ a \in Workers /\ WorkerStep(a)
             PROVE  Types'
    <2> USE <1>UseTypes
    <2> USE DEF tableVars, ctxVars, actorVars, histVars
    <2>1. a \in Procs => a \notin Workers
        BY TableAssumption
    <2>2. CASE Ref(a)
        <3>1. UNCHANGED <<tableVars, mem, uid, list, cmd, hand, mine, histVars>> /\ Goto(a, "held", at[a])
            BY <2>2 DEF Ref
        <3>2. ref' \in [Ctxs -> Int] /\ at[a] \in Ctxs
            BY <2>2, TypesSay, SMTT(20) DEF Ref, Somewhere
        <3> QED BY <3>1, <3>2, <1>GotoTypes, TypesSay, <1>TypesKept
    <2>3. ASSUME NEW k \in Cmds, a \in Workers, Complete(a, k) PROVE Types'
        <3>1. UNCHANGED <<tableVars, ctxVars, mine, uncopied, wrapped>> /\ cmd[k].id \in Ids
            BY <2>3, TypesSay DEF Complete
        <3>2. CASE tb[cmd[k].id] = None
            <4>1. Release({k}) /\ UNCHANGED <<actorVars, late>>
                BY <2>3, <3>2 DEF Complete
            <4> QED BY <3>1, <4>1, <1>KaiocbTypes, TypesSay, <1>TypesKept
        <3>3. CASE tb[cmd[k].id] # None
            <4> DEFINE c == tb[cmd[k].id]
            <4>1. c \in Ctxs
                BY <3>1, <3>3, TypesSay
            <4>2. Move({k}, "held") /\ hand' = [hand EXCEPT ![a] = <<k>>] /\ Find(a, c)
                BY <2>3, <3>3 DEF Complete
            <4> HIDE DEF c
            <4>3. hand' \in [Actors -> Seq(Cmds)]
                <5>1. <<k>> \in Seq(Cmds) /\ hand \in [Actors -> Seq(Cmds)]
                    BY TypesSay, SMTT(20)
                <5> QED BY <4>2, <5>1
            <4>4. Goto(a, "found", c) /\ late' \in BOOLEAN
                BY <4>2 DEF Find
            <4> QED BY <2>3, <3>1, <4>1, <4>2, <4>3, <4>4, <1>KaiocbTypes, <1>GotoTypes, TypesSay, <1>TypesKept
        <3> QED BY <3>2, <3>3
    <2>4. CASE a \in Workers /\ Enlist(a)
        <3>1. /\ UNCHANGED <<tableVars, mem, ref, uid, mine, histVars>> /\ Goto(a, "put", at[a])
              /\ Move(Range(hand[a]), "listed")
              /\ list' = [list EXCEPT ![at[a]] = @ \o hand[a]] /\ hand' = [hand EXCEPT ![a] = <<>>]
            BY <2>4 DEF Enlist
        <3>2. at[a] \in Ctxs
            BY <2>4, TypesSay DEF Enlist, Somewhere
        <3>3. list \in [Ctxs -> Seq(Cmds)] /\ hand \in [Actors -> Seq(Cmds)] /\ <<>> \in Seq(Cmds)
            BY TypesSay, SMTT(20)
        <3>4. list[at[a]] \o hand[a] \in Seq(Cmds)
            BY <3>2, <3>3, SMTT(20)
        <3>5. list' \in [Ctxs -> Seq(Cmds)] /\ hand' \in [Actors -> Seq(Cmds)]
            BY <3>1, <3>2, <3>3, <3>4
        <3> QED BY <3>1, <3>2, <3>5, <1>KaiocbTypes, <1>GotoTypes, TypesSay, <1>TypesKept
    <2>5. CASE a \in Workers /\ WorkerPut(a)
        <3>1. UNCHANGED <<tableVars, hand, mine, uncopied, wrapped>> /\ Deref(at[a]) /\ Goto(a, "idle", None)
            BY <2>5 DEF WorkerPut
        <3>2. at[a] \in Ctxs
            BY <2>5, TypesSay DEF WorkerPut, Somewhere
        <3> QED BY <3>1, <3>2, <1>DerefTypes, <1>GotoTypes, TypesSay, <1>TypesKept DEF Somewhere
    <2>6. CASE a \in Procs /\ Get(a)
        <3>1. mine[a] \in Ids /\ tb[mine[a]] \in Ctxs
            BY <2>6, TypesSay DEF Get
        <3>2. /\ UNCHANGED <<tableVars, ctxVars, cmd, hand, mine, uncopied, wrapped>>
              /\ Goto(a, "found", tb[mine[a]]) /\ late' \in BOOLEAN
            BY <2>6 DEF Get, Find
        <3> QED BY <2>1, <2>6, <3>1, <3>2, <1>GotoTypes, TypesSay, <1>TypesKept, SMTT(20)
    <2>7. CASE a \in Procs /\ Take(a)
        <3>1. at[a] \in Ctxs
            BY <2>7, TypesSay DEF Take, Somewhere
        <3> DEFINE l == list[at[a]]
                   n == IF Len(l) < Nr THEN Len(l) ELSE Nr
        <3>2. l \in Seq(Cmds)
            BY <3>1, TypesSay
        <3>3. n \in 0 .. Len(l)
            BY <3>2, TableAssumption, SMTT(20)
        <3>4. /\ UNCHANGED <<tableVars, mem, ref, uid, mine, histVars>> /\ Goto(a, "put", at[a])
              /\ hand' = [hand EXCEPT ![a] = Fronted(SubSeq(l, 1, n))]
              /\ list' = [list EXCEPT ![at[a]] = SubSeq(l, n + 1, Len(l))]
              /\ Move(Range(SubSeq(l, 1, n)), "held")
            BY <2>7 DEF Take
        <3> HIDE DEF l, n
        <3>5. Fronted(SubSeq(l, 1, n)) \in Seq(Cmds) /\ SubSeq(l, n + 1, Len(l)) \in Seq(Cmds)
            BY <3>2, <3>3, <1>SplitTypes
        <3>6. hand' \in [Actors -> Seq(Cmds)] /\ list' \in [Ctxs -> Seq(Cmds)]
            BY <3>1, <3>4, <3>5, TypesSay
        <3> QED BY <2>1, <2>7, <3>1, <3>4, <3>6, <1>KaiocbTypes, <1>GotoTypes, TypesSay, <1>TypesKept
    <2>8. CASE a \in Procs /\ ProcPut(a)
        <3>1. UNCHANGED <<tableVars, hand, mine, uncopied, wrapped>> /\ Deref(at[a]) /\ Goto(a, "out", None)
            BY <2>8 DEF ProcPut
        <3>2. at[a] \in Ctxs
            BY <2>8, TypesSay DEF ProcPut, Somewhere
        <3> QED BY <2>1, <2>8, <3>1, <3>2, <1>DerefTypes, <1>GotoTypes, TypesSay, <1>TypesKept, SMTT(20) DEF Somewhere
    <2>9. CASE a \in Procs /\ CopyOut(a)
        <3>1. /\ UNCHANGED <<tableVars, ctxVars, mine, histVars>> /\ Release(Range(hand[a]))
              /\ Goto(a, "idle", None) /\ hand' = [hand EXCEPT ![a] = <<>>]
            BY <2>9 DEF CopyOut
        <3>2. hand \in [Actors -> Seq(Cmds)] /\ <<>> \in Seq(Cmds)
            BY TypesSay, SMTT(20)
        <3>3. hand' \in [Actors -> Seq(Cmds)]
            BY <3>1, <3>2
        <3> QED BY <2>1, <2>9, <3>1, <3>3, <1>KaiocbTypes, <1>GotoTypes, TypesSay, <1>TypesKept DEF Somewhere
    <2> QED BY <2>2, <2>3, <2>4, <2>5, <2>6, <2>7, <2>8, <2>9 DEF GetStep, WorkerStep
\* nvme_core_exit and nvme_core_init.
<1>ReloadTypes. ASSUME Types, Reload
                PROVE  Types'
    <2> USE <1>ReloadTypes
    <2>1. 0 \in Ids /\ 1 \in Ids
        BY IdsFinite, SMTT(20) DEF Types
    <2>2. UNCHANGED <<actorVars, mine, uncopied>> /\ Release({k \in Cmds : cmd[k].st = "listed"})
        BY DEF Reload
    <2>3. /\ tb' = [i \in Ids |-> None] /\ nextId' = 1 /\ lock' = "free" /\ wrapped' = FALSE
          /\ mem' = [c \in Ctxs |-> "free"] /\ ref' = [c \in Ctxs |-> 0]
          /\ uid' = [c \in Ctxs |-> 0] /\ list' = [c \in Ctxs |-> <<>>] /\ late' \in BOOLEAN
        BY DEF Reload
    <2>4. /\ mem' \in [Ctxs -> {"free", "new", "live", "leaked"}] /\ ref' \in [Ctxs -> Int]
          /\ uid' \in [Ctxs -> Ids]
        BY <2>1, <2>3, SMTT(20)
    <2>5. list' \in [Ctxs -> Seq(Cmds)]
        <3>1. <<>> \in Seq(Cmds)
            BY SMTT(20)
        <3> QED BY <2>3, <3>1
    <2>6. DOMAIN tb' = DOMAIN tb /\ (\A i \in Ids : tb'[i] \in Ctxs \cup {None}) /\ tb' = [i \in DOMAIN tb' |-> tb'[i]]
        BY <2>3, TypesSay
    <2> QED BY <2>1, <2>2, <2>3, <2>4, <2>5, <2>6, <1>KaiocbTypes, TypesSay, <1>TypesKept DEF actorVars
<1> SUFFICES ASSUME Types, [Next]_vars PROVE Types'
    OBVIOUS
<1>1. ASSUME NEW p \in Procs, SetBegin(p) \/ SetLocked(p) \/ SetEnd(p) PROVE Types'
    BY <1>1, <1>SetTypes
<1>2. ASSUME NEW p \in Procs, DelStep(p) \/ Die(p) PROVE Types'
    BY <1>2, <1>DelTypes
<1>3. ASSUME NEW p \in Procs, GetStep(p) PROVE Types'
    BY <1>3, <1>UseTypes DEF Actors
<1>4. ASSUME NEW w \in Workers, WorkerStep(w) PROVE Types'
    BY <1>4, <1>UseTypes DEF Actors
<1>5. ASSUME NEW p \in Procs, NEW k \in Cmds, Submit(p, k) PROVE Types'
    <2>1. UNCHANGED <<tableVars, ctxVars, actorVars, mine, histVars>> /\ mine[p] \in Ids
        BY <1>5, TypesSay DEF Submit
    <2> DEFINE K == [st : {"idle", "device", "held", "listed"}, id : Ids \cup {None}, by : Procs \cup {None}]
               new == Kaiocb("device", mine[p], p)
    <2>2. cmd' = [cmd EXCEPT ![k] = new] /\ cmd \in [Cmds -> K] /\ \A j \in Cmds : cmd[j].st = "device" => cmd[j].id \in Ids
        BY <1>5, TypesSay DEF Submit
    <2>3. new \in K /\ new.id \in Ids
        BY <2>1 DEF Kaiocb
    <2> HIDE DEF K, new
    <2>4. cmd' \in [Cmds -> K] /\ \A j \in Cmds : cmd'[j].st = "device" => cmd'[j].id \in Ids
        BY <2>2, <2>3
    <2> QED BY <2>1, <2>4, TypesSay, <1>TypesKept DEF K, tableVars, ctxVars, actorVars, histVars
<1>6. CASE Reload
    BY <1>6, <1>ReloadTypes
<1>7. CASE UNCHANGED vars
    BY <1>7, TypesSay, <1>TypesKept DEF vars, tableVars, ctxVars, actorVars, histVars
<1> QED BY <1>1, <1>2, <1>3, <1>4, <1>5, <1>6, <1>7 DEF Next

(***************************************************************************)
(* References and ids.                                                     *)
(***************************************************************************)
\* The count of a context is the number of its holders.
RefsHeld == \A c \in Ctxs : ref[c] = Cardinality(Holders(c)) /\ (mem[c] = "live" <=> Holders(c) # {})

\* A lookup that has no reference yet has found a live context.
FoundLive == \A a \in Actors : pc[a] = "found" => mem[at[a]] = "live"

\* A context that is about to enter the table belongs to one call.
NewOnes == /\ \A p \in Procs : pc[p] = "set" => mem[at[p]] = "new"
           /\ \A p, q \in Procs : pc[p] = "set" /\ pc[q] = "set" /\ at[p] = at[q] => p = q

\* One that has entered it, and whose id was not yet told, is in its slot; nobody
\* else has that id.
Untold == /\ \A p \in Procs : pc[p] = "copy" => /\ tb[uid[at[p]]] = at[p]
                                               /\ \A q \in Procs : mine[q] # uid[at[p]]
          /\ \A p, q \in Procs : pc[p] = "copy" /\ pc[q] = "copy" /\ at[p] = at[q] => p = q

\* A context in the table carries the id of its slot.
InPlace == \A i \in Ids : tb[i] # None /\ ~Clearing(i) => uid[tb[i]] = i

\* An id that a process was told is of one process, and its slot is taken.
Told == /\ \A p, q \in Procs : mine[p] # None /\ mine[p] = mine[q] => p = q
        /\ \A p \in Procs : mine[p] # None => tb[mine[p]] # None

\* nvme_del_aioctx has the spinlock.
Deleting == /\ \A p \in Procs : pc[p] = "del" => lock = "held" /\ mine[p] # None
            /\ \A p, q \in Procs : pc[p] = "del" /\ pc[q] = "del" => p = q

Struct == RefsHeld /\ FoundLive /\ NewOnes /\ Untold /\ InPlace /\ Told /\ Deleting

\* Slots and lookups are finitely many, so the holders of a context can be counted.
LEMMA HoldersFinite ==
    ASSUME Types, NEW c \in Ctxs
    PROVE  IsFiniteSet(Holders(c))
<1>1. IsFiniteSet(Ids) /\ IsFiniteSet(Actors)
    BY IdsFinite, TableAssumption DEF Types, Actors
<1>2. IsFiniteSet(Ids \cup Actors)
    BY <1>1, FS_Union
<1>3. Holders(c) \in SUBSET (Ids \cup Actors)
    BY DEF Holders
<1> QED BY <1>2, <1>3, FS_Subset

\* Slots and threads are told apart.
LEMMA SlotsNoActors ==
    ASSUME Types
    PROVE  Ids \cap Actors = {} /\ None \notin Ids /\ None \notin Ctxs
BY IdsFinite, TableAssumption, SMTT(20) DEF Types, Actors

\* The inductive invariant.
Table == Types /\ (Sane => Struct)

\* The table is exact when aio_service_init has run.
LEMMA InitTable == Init => Table
<1> SUFFICES ASSUME Init PROVE Table
    OBVIOUS
<1>1. Types
    BY InitTypes
<1>2. /\ \A a \in Actors : pc[a] = "idle"
      /\ \A p \in Procs : mine[p] = None /\ pc[p] = "idle"
      /\ \A i \in Ids : tb[i] = None
      /\ mem = [c \in Ctxs |-> "free"] /\ ref = [c \in Ctxs |-> 0]
    BY DEF Init, Actors, Ids
<1>3. \A c \in Ctxs : Holders(c) = {}
    BY <1>1, <1>2, SlotsNoActors DEF Holders
<1>4. RefsHeld
    BY <1>2, <1>3, FS_EmptySet DEF RefsHeld
<1>5. Struct
    BY <1>2, <1>4 DEF Struct, FoundLive, NewOnes, Untold, InPlace, Told, Deleting
<1> QED BY <1>1, <1>5 DEF Table

\* Every step keeps the table exact.
LEMMA NextTable == Table /\ [Next]_vars => Table'
\* Without a deletion under way no slot is being cleared.
<1>NotClearing. ASSUME Types, Deleting, lock # "held"
                PROVE  \A i \in Ids : ~Clearing(i)
    BY <1>NotClearing DEF Deleting, Clearing
\* A step of actor a that changes no context and no slot, and gives or takes no
\* reference.
<1>FrameStruct. ASSUME Types, Struct, NEW a \in Actors, NEW where, NEW c,
                       UNCHANGED <<tb, lock, mem, ref, uid, mine>>,
                       Goto(a, where, c),
                       pc[a] # "del", where \notin {"set", "copy", "del"},
                       pc[a] \in {"held", "put"} <=> where \in {"held", "put"},
                       where \in {"held", "put"} => c = at[a],
                       where = "found" => mem[c] = "live"
                PROVE  Struct'
    <2> USE <1>FrameStruct
    <2>1. /\ pc \in [Actors -> {"idle", "set", "copy", "del", "found", "held", "put", "out"}]
          /\ at \in [Actors -> Ctxs \cup {None}] /\ Ids' = Ids /\ Procs \subseteq Actors
        BY TypesSay DEF Ids, Actors
    <2>2. /\ pc'[a] = where /\ at'[a] = c
          /\ \A b \in Actors : b # a => pc'[b] = pc[b] /\ at'[b] = at[b]
        BY <2>1 DEF Goto
    <2>3. \A i : Clearing(i)' <=> Clearing(i)
        BY <2>1, <2>2 DEF Clearing
    <2>4. \A d \in Ctxs : Holders(d)' = Holders(d)
        <3> SUFFICES ASSUME NEW d \in Ctxs PROVE Holders(d)' = Holders(d)
            OBVIOUS
        <3>1. \A b \in Actors : at'[b] = d /\ pc'[b] \in {"held", "put"} <=> at[b] = d /\ pc[b] \in {"held", "put"}
            BY <2>2
        <3> QED BY <2>1, <2>3, <3>1 DEF Holders
    <2>5. RefsHeld'
        BY <2>4 DEF Struct, RefsHeld
    <2>6. FoundLive'
        BY <2>2 DEF Struct, FoundLive
    <2>7. NewOnes'
        BY <2>1, <2>2, SMTT(20) DEF Struct, NewOnes
    <2>8. Untold'
        BY <2>1, <2>2, SMTT(20) DEF Struct, Untold
    <2>9. InPlace' /\ Told'
        BY <2>1, <2>3 DEF Struct, InPlace, Told
    <2>10. Deleting'
        BY <2>1, <2>2 DEF Struct, Deleting
    <2> QED BY <2>5, <2>6, <2>7, <2>8, <2>9, <2>10 DEF Struct
\* A step after which every call that has to tell its id is one that had to before, and
\* that leaves its context and its slot alone.
<1>UntoldStays. ASSUME Untold,
                       \A q \in Procs : pc'[q] = "copy" =>
                           /\ pc[q] = "copy" /\ at'[q] = at[q] /\ uid'[at[q]] = uid[at[q]]
                           /\ tb'[uid[at[q]]] = tb[uid[at[q]]] /\ \A r \in Procs : mine'[r] # uid[at[q]]
                PROVE  Untold'
    <2> USE <1>UntoldStays
    <2>1. ASSUME NEW q \in Procs, pc'[q] = "copy"
          PROVE  tb'[uid'[at'[q]]] = at'[q] /\ \A r \in Procs : mine'[r] # uid'[at'[q]]
        BY <2>1, SMTT(20) DEF Untold
    <2>2. ASSUME NEW q \in Procs, NEW r \in Procs, pc'[q] = "copy", pc'[r] = "copy", at'[q] = at'[r]
          PROVE  q = r
        BY <2>2, SMTT(20) DEF Untold
    <2> QED BY <2>1, <2>2 DEF Untold
\* Dropping the reference of holder x: if it is the last one, no lookup, no call and
\* no slot is left with the context.
<1>DerefStruct. ASSUME Types, Struct, NEW c \in Ctxs, NEW x \in Holders(c), Deref(c), ~late',
                       UNCHANGED <<tb, mine>>,
                       \A d \in Ctxs : Holders(d)' = IF d = c THEN Holders(c) \ {x} ELSE Holders(d),
                       \A b \in Actors : pc'[b] \in {"found", "set", "copy"} => pc'[b] = pc[b] /\ at'[b] = at[b],
                       \A i \in Ids : Clearing(i) => Clearing(i)',
                       x \in Ids => Clearing(x)' /\ \E p \in Procs : mine[p] = x,
                       Deleting'
                PROVE  Struct'
    <2> USE <1>DerefStruct
    <2>1. /\ mem \in [Ctxs -> {"free", "new", "live", "leaked"}] /\ ref \in [Ctxs -> Int] /\ uid \in [Ctxs -> Ids]
          /\ Ids' = Ids /\ Procs \subseteq Actors /\ \A i \in Ids : tb[i] \in Ctxs \cup {None}
          /\ \A a \in Actors : pc[a] \in Somewhere => at[a] \in Ctxs
        BY TypesSay DEF Ids, Actors
    <2>2. IsFiniteSet(Holders(c)) /\ Cardinality(Holders(c)) \in Nat /\ ref[c] = Cardinality(Holders(c))
        BY HoldersFinite, FS_CardinalityType DEF Struct, RefsHeld
    <2>3. IsFiniteSet(Holders(c) \ {x}) /\ Cardinality(Holders(c) \ {x}) = Cardinality(Holders(c)) - 1
        BY <2>2, FS_RemoveElement
    <2>4. /\ ref' = [ref EXCEPT ![c] = @ - 1]
          /\ ref[c] = 1 => /\ mem' = [mem EXCEPT ![c] = "free"] /\ uid' = [uid EXCEPT ![c] = 0]
                           /\ \A b \in Actors : ~(pc[b] = "found" /\ at[b] = c)
          /\ ref[c] # 1 => mem' = mem /\ uid' = uid
        BY DEF Deref, Finding
    <2>5. ref[c] = 1 <=> Holders(c) = {x}
        <3>1. Cardinality(Holders(c) \ {x}) = 0 <=> Holders(c) \ {x} = {}
            BY <2>3, FS_EmptySet
        <3> QED BY <2>2, <2>3, <3>1, SMTT(20)
    <2>6. mem[c] = "live"
        BY DEF Struct, RefsHeld
    <2>7. RefsHeld'
        <3> SUFFICES ASSUME NEW d \in Ctxs
                     PROVE  ref'[d] = Cardinality(Holders(d)') /\ (mem'[d] = "live" <=> Holders(d)' # {})
            BY DEF RefsHeld
        <3>1. CASE d = c
            <4>1. ref'[c] = ref[c] - 1 /\ Holders(c)' = Holders(c) \ {x}
                BY <2>1, <2>4
            <4>2. ref'[c] = Cardinality(Holders(c)')
                BY <2>2, <2>3, <4>1
            <4>3. Holders(c)' # {} <=> ref[c] # 1
                BY <2>5, <4>1
            <4>4. mem'[c] = "live" <=> ref[c] # 1
                BY <2>1, <2>4, <2>6
            <4> QED BY <3>1, <4>2, <4>3, <4>4
        <3>2. CASE d # c
            <4>1. ref'[d] = ref[d] /\ mem'[d] = mem[d] /\ Holders(d)' = Holders(d)
                BY <2>1, <2>4, <3>2
            <4> QED BY <4>1 DEF Struct, RefsHeld
        <3> QED BY <3>1, <3>2
    <2>8. FoundLive'
        <3> SUFFICES ASSUME NEW b \in Actors, pc'[b] = "found" PROVE mem'[at'[b]] = "live"
            BY DEF FoundLive
        <3>1. pc[b] = "found" /\ at'[b] = at[b] /\ mem[at[b]] = "live" /\ at[b] \in Ctxs
            BY <2>1 DEF Struct, FoundLive, Somewhere
        <3> QED BY <2>1, <2>4, <3>1, SMTT(20)
    <2>9. NewOnes'
        <3>1. \A p \in Procs : pc'[p] = "set" => pc[p] = "set" /\ at'[p] = at[p] /\ mem[at[p]] = "new" /\ at[p] \in Ctxs
            BY <2>1 DEF Struct, NewOnes, Somewhere
        <3>2. \A p \in Procs : pc'[p] = "set" => mem'[at'[p]] = "new"
            <4> SUFFICES ASSUME NEW p \in Procs, pc'[p] = "set" PROVE mem'[at'[p]] = "new"
                OBVIOUS
            <4>1. at'[p] = at[p] /\ mem[at[p]] = "new" /\ at[p] \in Ctxs
                BY <3>1
            <4>2. at[p] # c
                BY <2>6, <4>1
            <4> QED BY <2>1, <2>4, <4>1, <4>2, SMTT(20)
        <3>3. \A p, q \in Procs : pc[p] = "set" /\ pc[q] = "set" /\ at[p] = at[q] => p = q
            BY DEF Struct, NewOnes
        <3>4. \A p, q \in Procs : pc'[p] = "set" /\ pc'[q] = "set" /\ at'[p] = at'[q] => p = q
            BY <3>1, <3>3, SMTT(20)
        <3> QED BY <3>2, <3>4 DEF NewOnes
    <2>10. \A q \in Procs : pc[q] = "copy" => uid'[at[q]] = uid[at[q]]
        <3> SUFFICES ASSUME NEW q \in Procs, pc[q] = "copy", at[q] = c, ref[c] = 1 PROVE FALSE
            BY <2>1, <2>4 DEF Somewhere
        <3>1. uid[c] \in Ids /\ tb[uid[c]] = c /\ ~Clearing(uid[c]) /\ \A p \in Procs : mine[p] # uid[c]
            BY <2>1, SMTT(20) DEF Struct, Untold, Clearing
        <3>2. uid[c] = x
            BY <2>5, <3>1 DEF Holders
        <3> QED BY <3>1, <3>2
    <2>11. Untold'
        <3>1. \A q \in Procs : pc'[q] = "copy" => pc[q] = "copy" /\ at'[q] = at[q]
            BY <2>1
        <3>2. \A q \in Procs : pc[q] = "copy" => \A r \in Procs : mine[r] # uid[at[q]]
            BY DEF Struct, Untold
        <3> QED BY <2>10, <3>1, <3>2, <1>UntoldStays DEF Struct
    <2>12. InPlace'
        <3> SUFFICES ASSUME NEW i \in Ids, tb[i] # None, ~Clearing(i)' PROVE uid'[tb[i]] = i
            BY <2>1 DEF InPlace
        <3>1. uid[tb[i]] = i /\ ~Clearing(i) /\ i # x /\ tb[i] \in Ctxs
            BY <2>1 DEF Struct, InPlace
        <3>2. tb[i] = c => ref[c] # 1
            BY <2>5, <3>1 DEF Holders
        <3> QED BY <2>1, <2>4, <3>1, <3>2
    <2>13. Told'
        BY DEF Struct, Told
    <2> QED BY <2>7, <2>8, <2>9, <2>11, <2>12, <2>13 DEF Struct
\* A lookup gives its reference back.
<1>PutStruct. ASSUME Types, Struct, NEW a \in Actors, NEW where \in {"idle", "out"},
                     pc[a] = "put", Deref(at[a]), Goto(a, where, None), UNCHANGED <<tb, lock, mine>>, ~late'
              PROVE  Struct'
    <2> USE <1>PutStruct
    <2>1. /\ pc \in [Actors -> {"idle", "set", "copy", "del", "found", "held", "put", "out"}]
          /\ at \in [Actors -> Ctxs \cup {None}] /\ Ids' = Ids /\ Procs \subseteq Actors /\ at[a] \in Ctxs
        BY TypesSay DEF Ids, Actors, Somewhere
    <2>2. /\ pc'[a] = where /\ at'[a] = None
          /\ \A b \in Actors : b # a => pc'[b] = pc[b] /\ at'[b] = at[b]
        BY <2>1 DEF Goto
    <2>3. \A i : Clearing(i)' <=> Clearing(i)
        BY <2>1, <2>2 DEF Clearing
    <2>4. a \in Holders(at[a]) /\ a \notin Ids
        BY SlotsNoActors DEF Holders
    <2>5. ASSUME NEW d \in Ctxs PROVE Holders(d)' = IF d = at[a] THEN Holders(at[a]) \ {a} ELSE Holders(d)
        <3>1. \A b \in Actors : at'[b] = d /\ pc'[b] \in {"held", "put"} <=> b # a /\ at[b] = d /\ pc[b] \in {"held", "put"}
            BY <2>2
        <3>2. Holders(d)' = Holders(d) \ {a}
            BY <2>1, <2>3, <2>4, <3>1 DEF Holders
        <3>3. d # at[a] => a \notin Holders(d)
            BY <2>4 DEF Holders
        <3> QED BY <3>2, <3>3
    <2>6. Deleting'
        BY <2>1, <2>2 DEF Struct, Deleting
    <2>7. \A b \in Actors : pc'[b] \in {"found", "set", "copy"} => pc'[b] = pc[b] /\ at'[b] = at[b]
        BY <2>2
    <2> QED BY <2>1, <2>3, <2>4, <2>5, <2>6, <2>7, <1>DerefStruct
\* A lookup takes its reference on a context that is still live.
<1>RefStruct. ASSUME Types, Struct, NEW a \in Actors, Ref(a)
              PROVE  Struct'
    <2> USE <1>RefStruct
    <2> PICK c \in Ctxs : c = at[a]
        BY TypesSay DEF Ref, Somewhere
    <2>1. /\ pc \in [Actors -> {"idle", "set", "copy", "del", "found", "held", "put", "out"}]
          /\ at \in [Actors -> Ctxs \cup {None}] /\ ref \in [Ctxs -> Int] /\ Procs \subseteq Actors
        BY TypesSay DEF Actors
    <2>2. /\ pc[a] = "found" /\ ref' = [ref EXCEPT ![c] = @ + 1]
          /\ UNCHANGED <<tb, lock, mem, uid, mine>> /\ Goto(a, "held", c) /\ Ids' = Ids
        BY TypesSay DEF Ref, Somewhere, tableVars, Ids
    <2>3. /\ pc'[a] = "held" /\ at'[a] = c /\ at[a] = c
          /\ \A b \in Actors : b # a => pc'[b] = pc[b] /\ at'[b] = at[b]
        BY <2>1, <2>2 DEF Goto
    <2>4. \A i : Clearing(i)' <=> Clearing(i)
        BY <2>1, <2>2, <2>3 DEF Clearing
    <2>5. a \notin Ids
        BY SlotsNoActors
    <2>6. a \notin Holders(c) /\ Holders(c)' = Holders(c) \cup {a}
        <3>1. \A b \in Actors : at'[b] = c /\ pc'[b] \in {"held", "put"} <=> (b = a \/ (at[b] = c /\ pc[b] \in {"held", "put"}))
            BY <2>3
        <3> QED BY <2>2, <2>4, <2>5, <3>1 DEF Holders
    <2>7. \A d \in Ctxs : d # c => Holders(d)' = Holders(d)
        <3> SUFFICES ASSUME NEW d \in Ctxs, d # c PROVE Holders(d)' = Holders(d)
            OBVIOUS
        <3>1. \A b \in Actors : at'[b] = d /\ pc'[b] \in {"held", "put"} <=> at[b] = d /\ pc[b] \in {"held", "put"}
            BY <2>3
        <3> QED BY <2>2, <2>4, <3>1 DEF Holders
    <2>8. mem[c] = "live"
        BY <2>2, <2>3 DEF Struct, FoundLive
    <2>9. RefsHeld'
        <3>1. Cardinality(Holders(c) \cup {a}) = Cardinality(Holders(c)) + 1
            BY <2>2, <2>6, HoldersFinite, FS_AddElement
        <3>2. ref'[c] = ref[c] + 1 /\ \A d \in Ctxs : d # c => ref'[d] = ref[d]
            BY <2>1, <2>2
        <3>3. ref'[c] = Cardinality(Holders(c)') /\ Holders(c)' # {}
            BY <2>2, <2>6, <3>1, <3>2 DEF Struct, RefsHeld
        <3>4. \A d \in Ctxs : d # c => ref'[d] = Cardinality(Holders(d)') /\ (mem'[d] = "live" <=> Holders(d)' # {})
            BY <2>2, <2>7, <3>2 DEF Struct, RefsHeld
        <3>5. ref'[c] = Cardinality(Holders(c)') /\ (mem'[c] = "live" <=> Holders(c)' # {})
            BY <2>2, <2>8, <3>3
        <3> QED BY <3>4, <3>5 DEF RefsHeld
    <2>10. FoundLive' /\ NewOnes' /\ Untold' /\ Deleting'
        BY <2>1, <2>2, <2>3, SMTT(20) DEF Struct, FoundLive, NewOnes, Untold, Deleting
    <2>11. InPlace' /\ Told'
        BY <2>2, <2>4 DEF Struct, InPlace, Told
    <2> QED BY <2>9, <2>10, <2>11 DEF Struct
\* The context that enters the table has no holder, its slot no owner.
<1>EnterStruct. ASSUME Types, Struct, NEW p \in Procs, SetEnter(p)
                PROVE  Struct'
    <2> USE <1>EnterStruct
    <2> PICK c \in Ctxs : c = at[p]
        BY TypesSay DEF SetEnter, Somewhere, Actors
    <2> PICK n \in Ids : n = NextSlot
        BY SlotVacant DEF SetEnter, Types
    <2>1. /\ pc \in [Actors -> {"idle", "set", "copy", "del", "found", "held", "put", "out"}]
          /\ at \in [Actors -> Ctxs \cup {None}] /\ ref \in [Ctxs -> Int] /\ Procs \subseteq Actors /\ p \in Actors
          /\ mem \in [Ctxs -> {"free", "new", "live", "leaked"}] /\ uid \in [Ctxs -> Ids]
          /\ DOMAIN tb = Ids /\ \A i \in Ids : tb[i] \in Ctxs \cup {None}
          /\ \A a \in Actors : pc[a] \in Somewhere => at[a] \in Ctxs
          /\ mine \in [Procs -> Ids \cup {None}] /\ None \notin Ctxs /\ None \notin Ids
        BY TypesSay, SlotsNoActors DEF Actors
    <2>2. /\ pc[p] = "set" /\ lock = "free" /\ c \in Ctxs /\ n \in Ids /\ tb[n] = None
          /\ tb' = [tb EXCEPT ![n] = c] /\ mem' = [mem EXCEPT ![c] = "live"]
          /\ ref' = [ref EXCEPT ![c] = 1] /\ uid' = [uid EXCEPT ![c] = n]
          /\ Goto(p, "copy", c) /\ UNCHANGED <<lock, mine>>
        BY <2>1, SlotVacant DEF SetEnter, Somewhere, Types
    <2>3. /\ pc'[p] = "copy" /\ at'[p] = c /\ at[p] = c
          /\ \A b \in Actors : b # p => pc'[b] = pc[b] /\ at'[b] = at[b]
        BY <2>1, <2>2 DEF Goto
    <2>4. Ids' = Ids /\ tb'[n] = c /\ \A i \in Ids : i # n => tb'[i] = tb[i]
        BY <2>1, <2>2 DEF Ids
    <2>5. (\A i \in Ids : ~Clearing(i)) /\ \A q \in Procs : pc[q] # "del"
        BY <2>2, <1>NotClearing DEF Struct, Deleting
    <2>6. \A i \in Ids : ~Clearing(i)'
        BY <2>1, <2>3, <2>5 DEF Clearing
    <2>7. /\ mem[c] = "new" /\ Holders(c) = {}
          /\ \A i \in Ids : tb[i] # c
          /\ \A a \in Actors : at[a] = c => pc[a] \notin {"held", "put", "found"}
        <3>1. mem[c] = "new"
            BY <2>2, <2>3 DEF Struct, NewOnes
        <3>2. Holders(c) = {}
            BY <2>2, <3>1 DEF Struct, RefsHeld
        <3>3. \A i \in Ids : tb[i] # c
            BY <2>5, <3>2 DEF Holders
        <3>4. \A a \in Actors : at[a] = c => pc[a] \notin {"held", "put"}
            BY <3>2 DEF Holders
        <3>5. \A a \in Actors : at[a] = c => pc[a] # "found"
            BY <3>1 DEF Struct, FoundLive
        <3> QED BY <3>1, <3>2, <3>3, <3>4, <3>5
    <2>8. \A q \in Procs : pc[q] = "copy" => at[q] # c /\ at[q] \in Ctxs /\ uid[at[q]] \in Ids /\ uid[at[q]] # n
        BY <2>1, <2>2, <2>7, SMTT(20) DEF Struct, Untold, Somewhere
    <2>9. \A q \in Procs : mine[q] # n
        BY <2>1, <2>2 DEF Struct, Told
    <2>10. RefsHeld'
        <3>1. \A a \in Actors, d \in Ctxs : at'[a] = d /\ pc'[a] \in {"held", "put"} <=> at[a] = d /\ pc[a] \in {"held", "put"}
            BY <2>2, <2>3
        <3>2. Holders(c)' = {n}
            <4>1. {i \in Ids : tb'[i] = c /\ ~Clearing(i)'} = {n}
                BY <2>2, <2>4, <2>6, <2>7
            <4>2. {a \in Actors : at'[a] = c /\ pc'[a] \in {"held", "put"}} = {}
                BY <2>2, <2>7, <3>1
            <4> QED BY <2>4, <4>1, <4>2 DEF Holders
        <3>3. ref'[c] = Cardinality(Holders(c)') /\ (mem'[c] = "live" <=> Holders(c)' # {})
            BY <2>1, <2>2, <3>2, FS_Singleton
        <3>4. ASSUME NEW d \in Ctxs, d # c
              PROVE  ref'[d] = Cardinality(Holders(d)') /\ (mem'[d] = "live" <=> Holders(d)' # {})
            <4>1. \A i \in Ids : tb'[i] = d <=> tb[i] = d
                BY <2>1, <2>2, <2>4, <3>4
            <4>2. Holders(d)' = Holders(d)
                BY <2>4, <2>5, <2>6, <3>1, <4>1 DEF Holders
            <4>3. ref'[d] = ref[d] /\ mem'[d] = mem[d]
                BY <2>1, <2>2, <3>4
            <4> QED BY <4>2, <4>3 DEF Struct, RefsHeld
        <3> QED BY <3>3, <3>4 DEF RefsHeld
    <2>11. FoundLive'
        <3> SUFFICES ASSUME NEW b \in Actors, pc'[b] = "found" PROVE mem'[at'[b]] = "live"
            BY DEF FoundLive
        <3>1. b # p /\ pc[b] = "found" /\ at'[b] = at[b] /\ at[b] \in Ctxs /\ mem[at[b]] = "live"
            BY <2>1, <2>3 DEF Struct, FoundLive, Somewhere
        <3> QED BY <2>1, <2>2, <3>1
    <2>12. NewOnes'
        <3>1. \A q \in Procs : pc'[q] = "set" => /\ q # p /\ pc[q] = "set" /\ at'[q] = at[q] /\ at[q] # c /\ at[q] \in Ctxs
                                                 /\ mem[at[q]] = "new"
            BY <2>1, <2>2, <2>3, SMTT(20) DEF Struct, NewOnes, Somewhere
        <3>2. \A q \in Procs : pc'[q] = "set" => mem'[at'[q]] = "new"
            BY <2>1, <2>2, <3>1
        <3> QED BY <3>1, <3>2, SMTT(20) DEF Struct, NewOnes
    <2>13. Untold'
        <3>1. ASSUME NEW q \in Procs, pc'[q] = "copy"
              PROVE  tb'[uid'[at'[q]]] = at'[q] /\ \A r \in Procs : mine'[r] # uid'[at'[q]]
            <4>1. CASE q = p
                <5>1. uid'[at'[q]] = n
                    BY <2>1, <2>2, <2>3, <4>1
                <5> QED BY <2>2, <2>3, <2>4, <2>9, <4>1, <5>1
            <4>2. CASE q # p
                <5>1. pc[q] = "copy" /\ at'[q] = at[q]
                    BY <2>1, <2>3, <3>1, <4>2
                <5>2. uid'[at'[q]] = uid[at[q]] /\ uid[at[q]] \in Ids /\ uid[at[q]] # n
                    BY <2>1, <2>2, <2>8, <5>1
                <5>3. tb[uid[at[q]]] = at[q] /\ \A r \in Procs : mine[r] # uid[at[q]]
                    BY <5>1 DEF Struct, Untold
                <5> QED BY <2>2, <2>4, <5>1, <5>2, <5>3
            <4> QED BY <4>1, <4>2
        <3>2. \A q, r \in Procs : pc'[q] = "copy" /\ pc'[r] = "copy" /\ at'[q] = at'[r] => q = r
            BY <2>1, <2>3, <2>8, SMTT(20) DEF Struct, Untold
        <3> QED BY <3>1, <3>2 DEF Untold
    <2>14. InPlace'
        <3> SUFFICES ASSUME NEW i \in Ids, tb'[i] # None PROVE uid'[tb'[i]] = i
            BY <2>4 DEF InPlace
        <3>1. CASE i = n
            BY <2>1, <2>2, <2>4, <3>1
        <3>2. CASE i # n
            <4>1. tb'[i] = tb[i] /\ tb[i] # c /\ tb[i] \in Ctxs /\ uid[tb[i]] = i
                BY <2>1, <2>4, <2>5, <2>7, <3>2 DEF Struct, InPlace
            <4> QED BY <2>1, <2>2, <4>1
        <3> QED BY <3>1, <3>2
    <2>15. Told'
        BY <2>1, <2>2, <2>4, <2>9 DEF Struct, Told
    <2>16. Deleting'
        BY <2>1, <2>3, <2>5 DEF Deleting
    <2> QED BY <2>10, <2>11, <2>12, <2>13, <2>14, <2>15, <2>16 DEF Struct
\* The other steps of nvme_set_aioctx, the failing copy to the user excepted.
<1>SetStruct. ASSUME Types, Struct, NEW p \in Procs, SetAlloc(p) \/ SetBadArgument(p) \/ SetFull(p) \/ SetReturn(p)
              PROVE  Struct'
    <2> USE <1>SetStruct
    <2> USE DEF tableVars, ctxVars, actorVars
    <2>1. /\ pc \in [Actors -> {"idle", "set", "copy", "del", "found", "held", "put", "out"}]
          /\ at \in [Actors -> Ctxs \cup {None}] /\ Procs \subseteq Actors /\ p \in Actors
          /\ mem \in [Ctxs -> {"free", "new", "live", "leaked"}] /\ uid \in [Ctxs -> Ids]
          /\ \A a \in Actors : pc[a] \in Somewhere => at[a] \in Ctxs
          /\ mine \in [Procs -> Ids \cup {None}] /\ None \notin Ctxs /\ None \notin Ids
        BY TypesSay, SlotsNoActors DEF Actors
    <2>2. CASE SetReturn(p)
        <3> PICK c \in Ctxs : c = at[p]
            BY <2>1, <2>2 DEF SetReturn, Somewhere
        <3>1. /\ UNCHANGED <<tb, lock, mem, ref, uid>> /\ mine' = [mine EXCEPT ![p] = uid[c]]
              /\ pc[p] = "copy" /\ Goto(p, "idle", None) /\ Ids' = Ids
            BY <2>2 DEF SetReturn, Ids
        <3>2. /\ pc'[p] = "idle" /\ at'[p] = None /\ mine'[p] = uid[c] /\ \A q \in Procs : q # p => mine'[q] = mine[q]
              /\ \A b \in Actors : b # p => pc'[b] = pc[b] /\ at'[b] = at[b]
            BY <2>1, <3>1 DEF Goto
        <3>3. uid[c] \in Ids /\ tb[uid[c]] = c /\ \A q \in Procs : mine[q] # uid[c]
            BY <2>1, <3>1 DEF Struct, Untold
        <3>4. \A i : Clearing(i)' <=> Clearing(i)
            BY <2>1, <3>1, <3>2 DEF Clearing
        <3>5. \A d \in Ctxs : Holders(d)' = Holders(d)
            <4> SUFFICES ASSUME NEW d \in Ctxs PROVE Holders(d)' = Holders(d)
                OBVIOUS
            <4>1. \A b \in Actors : at'[b] = d /\ pc'[b] \in {"held", "put"} <=> at[b] = d /\ pc[b] \in {"held", "put"}
                BY <3>1, <3>2
            <4> QED BY <3>1, <3>4, <4>1 DEF Holders
        <3>6. RefsHeld'
            BY <3>1, <3>5 DEF Struct, RefsHeld
        <3>7. FoundLive' /\ NewOnes' /\ Deleting'
            BY <2>1, <3>1, <3>2, SMTT(20) DEF Struct, FoundLive, NewOnes, Deleting
        <3>8. Untold'
            <4>1. \A q \in Procs : pc'[q] = "copy" => /\ q # p /\ pc[q] = "copy" /\ at'[q] = at[q] /\ tb[uid[at[q]]] = at[q]
                                                      /\ at[q] # c
                BY <2>1, <3>1, <3>2, SMTT(20) DEF Struct, Untold
            <4>2. \A q \in Procs : pc'[q] = "copy" => uid[at[q]] # uid[c]
                <5> SUFFICES ASSUME NEW q \in Procs, pc'[q] = "copy" PROVE uid[at[q]] # uid[c]
                    OBVIOUS
                <5>1. tb[uid[at[q]]] = at[q] /\ at[q] # c
                    BY <4>1
                <5> QED BY <3>3, <5>1
            <4>3. \A q \in Procs : pc'[q] = "copy" => \A r \in Procs : mine'[r] # uid[at[q]]
                <5> SUFFICES ASSUME NEW q \in Procs, pc'[q] = "copy", NEW r \in Procs PROVE mine'[r] # uid[at[q]]
                    OBVIOUS
                <5>1. mine[r] # uid[at[q]]
                    BY <4>1 DEF Struct, Untold
                <5> QED BY <3>2, <4>2, <5>1
            <4>4. uid' = uid /\ tb' = tb
                BY <3>1
            <4> QED BY <4>1, <4>3, <4>4, <1>UntoldStays DEF Struct
        <3>9. InPlace'
            BY <3>1, <3>4 DEF Struct, InPlace
        <3>10. Told'
            BY <2>1, <3>1, <3>2, <3>3 DEF Struct, Told
        <3> QED BY <3>6, <3>7, <3>8, <3>9, <3>10 DEF Struct
    <2>3. CASE SetAlloc(p) \/ SetBadArgument(p) \/ SetFull(p)
        <3> PICK c \in Ctxs : /\ c = IF pc[p] = "set" THEN at[p] ELSE Allocated
                              /\ mem[c] = IF pc[p] = "set" THEN "new" ELSE "free"
            BY <2>1, <2>3 DEF SetAlloc, SetBadArgument, SetFull, MayAlloc, Allocated, Somewhere, Struct, NewOnes
        <3>1. /\ UNCHANGED <<tb, ref, uid, mine>> /\ Ids' = Ids
              /\ pc[p] \in {"idle", "set"} /\ pc'[p] \in {"idle", "set"}
              /\ \A b \in Actors : b # p => pc'[b] = pc[b] /\ at'[b] = at[b]
              /\ pc'[p] = "set" => pc[p] = "idle" /\ at'[p] = c /\ mem' = [mem EXCEPT ![c] = "new"]
              /\ pc'[p] = "idle" => mem' = [mem EXCEPT ![c] = "leaked"]
            <4>1. CASE SetAlloc(p)
                BY <2>1, <4>1 DEF SetAlloc, MayAlloc, Goto, Ids
            <4>2. CASE SetBadArgument(p)
                BY <2>1, <4>2 DEF SetBadArgument, MayAlloc, Ids
            <4>3. CASE SetFull(p)
                BY <2>1, <4>3 DEF SetFull, Goto, Ids
            <4> QED BY <2>3, <4>1, <4>2, <4>3
        <3>2. lock' = lock \/ lock = "free"
            BY <2>3 DEF SetAlloc, SetBadArgument, SetFull
        <3>3. \A i : Clearing(i)' <=> Clearing(i)
            BY <2>1, <3>1 DEF Clearing
        <3>4. \A d \in Ctxs : Holders(d)' = Holders(d)
            <4> SUFFICES ASSUME NEW d \in Ctxs PROVE Holders(d)' = Holders(d)
                OBVIOUS
            <4>1. \A b \in Actors : at'[b] = d /\ pc'[b] \in {"held", "put"} <=> at[b] = d /\ pc[b] \in {"held", "put"}
                BY <3>1
            <4> QED BY <3>1, <3>3, <4>1 DEF Holders
        <3>5. \A d \in Ctxs : mem'[d] = "live" <=> mem[d] = "live"
            BY <2>1, <3>1
        <3>6. RefsHeld'
            <4>1. ref' = ref
                BY <3>1
            <4>2. \A d \in Ctxs : ref[d] = Cardinality(Holders(d)) /\ (mem[d] = "live" <=> Holders(d) # {})
                BY DEF Struct, RefsHeld
            <4> QED BY <3>4, <3>5, <4>1, <4>2 DEF RefsHeld
        <3>7. FoundLive'
            <4> SUFFICES ASSUME NEW b \in Actors, pc'[b] = "found" PROVE mem'[at'[b]] = "live"
                BY DEF FoundLive
            <4>1. pc[b] = "found" /\ at'[b] = at[b]
                BY <3>1
            <4>2. at[b] \in Ctxs /\ mem[at[b]] = "live"
                BY <2>1, <4>1 DEF Struct, FoundLive, Somewhere
            <4> QED BY <3>5, <4>1, <4>2
        <3>8. NewOnes'
            <4>1. \A q \in Procs : q # p /\ pc[q] = "set" => at[q] # c /\ at[q] \in Ctxs /\ mem'[at[q]] = "new"
                <5> SUFFICES ASSUME NEW q \in Procs, q # p, pc[q] = "set"
                             PROVE  at[q] # c /\ at[q] \in Ctxs /\ mem'[at[q]] = "new"
                    OBVIOUS
                <5>1. mem[at[q]] = "new" /\ at[q] \in Ctxs
                    BY <2>1 DEF Struct, NewOnes, Somewhere
                <5>2. at[q] # c
                    BY <5>1 DEF Struct, NewOnes
                <5> QED BY <2>1, <3>1, <5>1, <5>2
            <4>2. pc'[p] = "set" => mem'[at'[p]] = "new" /\ at'[p] = c
                <5> SUFFICES ASSUME pc'[p] = "set" PROVE mem'[at'[p]] = "new" /\ at'[p] = c
                    OBVIOUS
                <5>1. at'[p] = c /\ mem' = [mem EXCEPT ![c] = "new"]
                    BY <3>1
                <5> QED BY <2>1, <5>1
            <4>3. \A q \in Procs : q # p => pc'[q] = pc[q] /\ at'[q] = at[q]
                BY <2>1, <3>1
            <4>4. ASSUME NEW q \in Procs, pc'[q] = "set" PROVE mem'[at'[q]] = "new"
                <5>1. CASE q = p BY <4>2, <4>4, <5>1
                <5>2. CASE q # p BY <4>1, <4>3, <4>4, <5>2
                <5> QED BY <5>1, <5>2
            <4>5. ASSUME NEW q \in Procs, NEW r \in Procs, pc'[q] = "set", pc'[r] = "set", at'[q] = at'[r]
                  PROVE  q = r
                <5>1. q # p /\ r # p => q = r
                    BY <4>3, <4>5 DEF Struct, NewOnes
                <5>2. q = p => r = p
                    BY <4>1, <4>2, <4>3, <4>5
                <5>3. r = p => q = p
                    BY <4>1, <4>2, <4>3, <4>5
                <5> QED BY <5>1, <5>2, <5>3
            <4> QED BY <4>4, <4>5 DEF NewOnes
        <3>9. Untold'
            <4>1. \A q \in Procs : pc'[q] = "copy" => pc[q] = "copy" /\ at'[q] = at[q]
                BY <2>1, <3>1
            <4>2. \A q \in Procs : pc[q] = "copy" => \A r \in Procs : mine[r] # uid[at[q]]
                BY DEF Struct, Untold
            <4>3. tb' = tb /\ uid' = uid /\ mine' = mine
                BY <3>1
            <4> QED BY <4>1, <4>2, <4>3, <1>UntoldStays DEF Struct
        <3>10. InPlace' /\ Told'
            BY <3>1, <3>3 DEF Struct, InPlace, Told
        <3>11. Deleting'
            <4>1. mine' = mine /\ \A q \in Procs : pc'[q] = "del" => pc[q] = "del"
                BY <2>1, <3>1
            <4>2. \A q \in Procs : pc[q] = "del" => lock = "held" /\ lock' = lock
                BY <3>2 DEF Struct, Deleting
            <4> QED BY <4>1, <4>2 DEF Struct, Deleting
        <3> QED BY <3>6, <3>7, <3>8, <3>9, <3>10, <3>11 DEF Struct
    <2> QED BY <2>2, <2>3
\* nvme_del_aioctx, and the end of a process.
<1>DelStruct. ASSUME Types, Struct, NEW p \in Procs, DelStep(p) \/ Die(p), ~late'
              PROVE  Struct'
    <2> USE <1>DelStruct
    <2> USE DEF tableVars, ctxVars, actorVars
    <2>1. /\ pc \in [Actors -> {"idle", "set", "copy", "del", "found", "held", "put", "out"}]
          /\ at \in [Actors -> Ctxs \cup {None}] /\ Procs \subseteq Actors /\ p \in Actors
          /\ DOMAIN tb = Ids /\ \A i \in Ids : tb[i] \in Ctxs \cup {None}
          /\ mine \in [Procs -> Ids \cup {None}] /\ None \notin Ctxs /\ None \notin Ids
        BY TypesSay, SlotsNoActors DEF Actors
    <2>2. CASE DelDeref(p)
        <3> PICK i \in Ids : i = mine[p]
            BY <2>1, <2>2 DEF DelDeref
        <3> PICK c \in Ctxs : c = tb[i]
            BY <2>1, <2>2 DEF DelDeref
        <3>1. /\ UNCHANGED <<tb, mine>> /\ lock = "free" /\ lock' = "held" /\ Goto(p, "del", c) /\ Deref(c)
              /\ pc[p] = "idle" /\ Ids' = Ids
            BY <2>2 DEF DelDeref, Ids
        <3>2. /\ pc'[p] = "del" /\ \A b \in Actors : b # p => pc'[b] = pc[b] /\ at'[b] = at[b]
            BY <2>1, <3>1 DEF Goto
        <3>3. (\A j \in Ids : ~Clearing(j)) /\ \A q \in Procs : pc[q] # "del"
            BY <3>1, <1>NotClearing DEF Struct, Deleting
        <3>4. \A j \in Ids : Clearing(j)' <=> j = i
            BY <2>1, <3>1, <3>2, <3>3 DEF Clearing
        <3>5. i \in Holders(c)
            BY <3>3 DEF Holders
        <3>6. ASSUME NEW d \in Ctxs PROVE Holders(d)' = IF d = c THEN Holders(c) \ {i} ELSE Holders(d)
            <4>1. \A b \in Actors : at'[b] = d /\ pc'[b] \in {"held", "put"} <=> at[b] = d /\ pc[b] \in {"held", "put"}
                BY <3>1, <3>2
            <4>2. i \notin Actors
                BY SlotsNoActors
            <4>3. Holders(d)' = Holders(d) \ {i}
                BY <3>1, <3>3, <3>4, <4>1, <4>2 DEF Holders
            <4>4. d # c => i \notin Holders(d)
                BY <4>2 DEF Holders
            <4> QED BY <4>3, <4>4
        <3>7. Deleting'
            BY <2>1, <3>1, <3>2, <3>3 DEF Deleting
        <3>8. \A b \in Actors : pc'[b] \in {"found", "set", "copy"} => pc'[b] = pc[b] /\ at'[b] = at[b]
            BY <3>2
        <3>9. \A j \in Ids : Clearing(j) => Clearing(j)'
            BY <3>3
        <3>10. Clearing(i)' /\ \E q \in Procs : mine[q] = i
            BY <3>4
        <3> QED BY <3>1, <3>5, <3>6, <3>7, <3>8, <3>9, <3>10, <1>DerefStruct
    <2>3. CASE DelClear(p)
        <3> PICK i \in Ids : i = mine[p]
            BY <2>1, <2>3 DEF DelClear, Struct, Deleting
        <3>1. /\ tb' = [tb EXCEPT ![i] = None] /\ mine' = [mine EXCEPT ![p] = None] /\ lock' = "free"
              /\ Goto(p, "idle", None) /\ UNCHANGED <<mem, ref, uid>> /\ pc[p] = "del" /\ Ids' = Ids
            BY <2>1, <2>3 DEF DelClear, Ids
        <3>2. /\ pc'[p] = "idle" /\ mine'[p] = None /\ \A q \in Procs : q # p => mine'[q] = mine[q]
              /\ \A b \in Actors : b # p => pc'[b] = pc[b] /\ at'[b] = at[b]
              /\ tb'[i] = None /\ \A j \in Ids : j # i => tb'[j] = tb[j]
            BY <2>1, <3>1 DEF Goto
        <3>3. \A q \in Procs : pc[q] = "del" <=> q = p
            BY <3>1 DEF Struct, Deleting
        <3>4. (\A j \in Ids : Clearing(j) <=> j = i) /\ \A j \in Ids : ~Clearing(j)'
            BY <2>1, <3>1, <3>2, <3>3, SMTT(20) DEF Clearing
        <3>5. \A d \in Ctxs : Holders(d)' = Holders(d)
            <4> SUFFICES ASSUME NEW d \in Ctxs PROVE Holders(d)' = Holders(d)
                OBVIOUS
            <4>1. \A b \in Actors : at'[b] = d /\ pc'[b] \in {"held", "put"} <=> at[b] = d /\ pc[b] \in {"held", "put"}
                BY <3>1, <3>2
            <4>2. \A j \in Ids : tb'[j] = d /\ ~Clearing(j)' <=> tb[j] = d /\ ~Clearing(j)
                BY <2>1, <3>2, <3>4
            <4> QED BY <3>1, <4>1, <4>2 DEF Holders
        <3>6. RefsHeld'
            BY <3>1, <3>5 DEF Struct, RefsHeld
        <3>7. FoundLive' /\ NewOnes' /\ Deleting'
            <4>1. mem' = mem /\ \A b \in Actors : pc'[b] \in {"found", "set"} => pc'[b] = pc[b] /\ at'[b] = at[b]
                BY <3>1, <3>2
            <4>2. FoundLive'
                BY <4>1 DEF Struct, FoundLive
            <4>3. NewOnes'
                BY <2>1, <4>1 DEF Struct, NewOnes
            <4>4. \A q \in Procs : pc'[q] # "del"
                BY <2>1, <3>2, <3>3
            <4> QED BY <4>2, <4>3, <4>4 DEF Deleting
        <3>8. Untold'
            <4>1. \A q \in Procs : pc'[q] = "copy" => q # p /\ pc[q] = "copy" /\ at'[q] = at[q] /\ at[q] \in Ctxs
                BY <2>1, <3>2, TypesSay DEF Somewhere
            <4>2. \A q \in Procs : pc[q] = "copy" /\ at[q] \in Ctxs => uid[at[q]] \in Ids /\ uid[at[q]] # i
                BY TypesSay DEF Struct, Untold
            <4>3. \A q \in Procs : pc'[q] = "copy" => \A r \in Procs : mine'[r] # uid[at[q]]
                BY <2>1, <3>2, <4>1, <4>2, SMTT(20) DEF Struct, Untold
            <4>4. \A q \in Procs : pc'[q] = "copy" => tb'[uid[at[q]]] = tb[uid[at[q]]]
                BY <3>2, <4>1, <4>2
            <4>5. uid' = uid
                BY <3>1
            <4> QED BY <4>1, <4>3, <4>4, <4>5, <1>UntoldStays DEF Struct
        <3>9. InPlace'
            <4> SUFFICES ASSUME NEW j \in Ids, tb'[j] # None PROVE uid'[tb'[j]] = j
                BY <3>1 DEF InPlace
            <4>1. j # i /\ tb'[j] = tb[j] /\ ~Clearing(j)
                BY <3>2, <3>4
            <4>2. uid[tb[j]] = j
                BY <4>1 DEF Struct, InPlace
            <4> QED BY <3>1, <4>1, <4>2
        <3>10. Told'
            <4>1. \A q \in Procs : q # p => mine[q] # i
                BY <2>1 DEF Struct, Told
            <4> QED BY <2>1, <3>2, <4>1, SMTT(20) DEF Struct, Told
        <3> QED BY <3>6, <3>7, <3>8, <3>9, <3>10 DEF Struct
    <2>4. CASE DelNothing(p) \/ Die(p)
        <3>1. /\ UNCHANGED <<tb, lock, mem, ref, uid, pc, at>> /\ mine' = [mine EXCEPT ![p] = None]
              /\ pc[p] = "idle" /\ Ids' = Ids
            BY <2>4 DEF DelNothing, Die, Ids
        <3>2. mine'[p] = None /\ \A q \in Procs : q # p => mine'[q] = mine[q]
            BY <2>1, <3>1
        <3>3. \A i : Clearing(i)' <=> Clearing(i)
            BY <3>1, <3>2 DEF Clearing
        <3>4. \A d \in Ctxs : Holders(d)' = Holders(d)
            BY <3>1, <3>3 DEF Holders
        <3>5. RefsHeld' /\ FoundLive' /\ NewOnes' /\ InPlace'
            BY <3>1, <3>3, <3>4 DEF Struct, RefsHeld, FoundLive, NewOnes, InPlace
        <3>6. Untold'
            <4>1. \A q \in Procs : pc[q] = "copy" => uid[at[q]] # None
                BY <2>1, TypesSay, SMTT(20) DEF Somewhere
            <4>2. \A q, r \in Procs : pc[q] = "copy" => mine'[r] # uid[at[q]]
                <5> SUFFICES ASSUME NEW q \in Procs, NEW r \in Procs, pc[q] = "copy" PROVE mine'[r] # uid[at[q]]
                    OBVIOUS
                <5>1. mine[r] # uid[at[q]]
                    BY DEF Struct, Untold
                <5> QED BY <3>2, <4>1, <5>1
            <4>3. tb' = tb /\ uid' = uid /\ pc' = pc /\ at' = at
                BY <3>1
            <4> QED BY <4>2, <4>3, <1>UntoldStays DEF Struct
        <3>7. Told'
            <4>1. tb' = tb
                BY <3>1
            <4> QED BY <3>2, <4>1 DEF Struct, Told
        <3>8. Deleting'
            BY <3>1, <3>2 DEF Struct, Deleting
        <3> QED BY <3>5, <3>6, <3>7, <3>8 DEF Struct
    <2> QED BY <2>2, <2>3, <2>4 DEF DelStep
\* nvme_core_exit and nvme_core_init.
<1>ReloadStruct. ASSUME Types, Reload
                 PROVE  Struct'
    <2> USE <1>ReloadStruct
    <2>1. /\ tb' = [i \in Ids |-> None] /\ Ids' = Ids
          /\ mem' = [c \in Ctxs |-> "free"] /\ ref' = [c \in Ctxs |-> 0]
          /\ UNCHANGED <<pc, at, mine>>
          /\ (\A a \in Actors : pc[a] = "idle") /\ \A p \in Procs : mine[p] = None /\ pc[p] = "idle"
        BY DEF Reload, actorVars, Ids, Actors
    <2>2. \A c \in Ctxs : Holders(c)' = {}
        BY <2>1, SlotsNoActors DEF Holders
    <2>3. RefsHeld'
        BY <2>1, <2>2, FS_EmptySet DEF RefsHeld
    <2> QED BY <2>1, <2>3 DEF Struct, FoundLive, NewOnes, Untold, InPlace, Told, Deleting
<1> SUFFICES ASSUME Table, [Next]_vars PROVE Table'
    OBVIOUS
<1> USE DEF tableVars, ctxVars, actorVars, histVars
<1>1. Types /\ Types'
    BY NextTypes DEF Table
<1> SUFFICES ASSUME Sane' PROVE Struct'
    BY <1>1 DEF Table
<1>2. ~late' /\ ~uncopied'
    BY DEF Sane
<1>3. CASE UNCHANGED vars
    <2>1. Sane
        BY <1>2, <1>3 DEF vars, Sane
    <2>2. Struct
        BY <2>1 DEF Table
    <2>3. Ids' = Ids /\ \A c : Holders(c)' = Holders(c)
        BY <1>3 DEF vars, Ids, Holders, Clearing
    <2>4. \A i : Clearing(i)' <=> Clearing(i)
        BY <1>3 DEF vars, Clearing
    <2> QED BY <1>3, <2>2, <2>3, <2>4
            DEF vars, Struct, RefsHeld, FoundLive, NewOnes, Untold, InPlace, Told, Deleting
<1>4. CASE Next
    <2>1. ~late
        BY <1>4 DEF Next
    <2>2. ASSUME NEW p \in Procs, SetCopyFails(p) PROVE FALSE
        BY <1>2, <2>2 DEF SetCopyFails
    <2>3. CASE Reload
        BY <1>1, <2>3, <1>ReloadStruct
    <2>4. CASE ~Reload
        <3>1. UNCHANGED uncopied
            BY <1>2, <1>4, <2>2, <2>4
               DEF Next, SetBegin, SetLocked, SetEnd, DelStep, GetStep, WorkerStep, SetAlloc, SetBadArgument, SetEnter,
                   SetFull, SetReturn, DelDeref, DelClear, DelNothing, Die, Get, Ref, Take, ProcPut, CopyOut, Submit,
                   Complete, Enlist, WorkerPut
        <3>2. Struct
            BY <1>2, <2>1, <3>1 DEF Table, Sane
        <3>3. ASSUME NEW p \in Procs, SetBegin(p) \/ SetLocked(p) \/ SetEnd(p) PROVE Struct'
            BY <1>1, <2>2, <3>2, <3>3, <1>EnterStruct, <1>SetStruct DEF SetBegin, SetLocked, SetEnd
        <3>4. ASSUME NEW p \in Procs, DelStep(p) \/ Die(p) PROVE Struct'
            BY <1>1, <1>2, <3>2, <3>4, <1>DelStruct
        <3>5. ASSUME NEW a \in Actors, Ref(a) PROVE Struct'
            BY <1>1, <3>2, <3>5, <1>RefStruct
        <3>6. ASSUME NEW a \in Actors, WorkerPut(a) \/ ProcPut(a) PROVE Struct'
            BY <1>1, <1>2, <3>2, <3>6, <1>PutStruct DEF WorkerPut, ProcPut
        <3>7. ASSUME NEW a \in Actors, Enlist(a) \/ Take(a) PROVE Struct'
            <4>1. pc[a] = "held" /\ Goto(a, "put", at[a]) /\ UNCHANGED <<tb, lock, mem, ref, uid, mine>>
                BY <3>7 DEF Enlist, Take
            <4> QED BY <1>1, <3>2, <4>1, <1>FrameStruct
        <3>8. ASSUME NEW p \in Procs, Get(p) PROVE Struct'
            <4>1. /\ pc[p] = "idle" /\ Goto(p, "found", tb[mine[p]]) /\ mem[tb[mine[p]]] = "live"
                  /\ UNCHANGED <<tb, lock, mem, ref, uid, mine>> /\ p \in Actors
                BY <1>2, <3>8 DEF Get, Find, Actors
            <4> QED BY <1>1, <3>2, <4>1, <1>FrameStruct, SMTT(20)
        <3>9. ASSUME NEW p \in Procs, CopyOut(p) PROVE Struct'
            <4>1. /\ pc[p] = "out" /\ Goto(p, "idle", None) /\ UNCHANGED <<tb, lock, mem, ref, uid, mine>>
                  /\ p \in Actors
                BY <3>9 DEF CopyOut, Actors
            <4> QED BY <1>1, <3>2, <4>1, <1>FrameStruct
        <3>10. ASSUME NEW w \in Workers, NEW k \in Cmds, Complete(w, k), tb[cmd[k].id] # None PROVE Struct'
            <4>1. /\ pc[w] = "idle" /\ Goto(w, "found", tb[cmd[k].id]) /\ mem[tb[cmd[k].id]] = "live"
                  /\ UNCHANGED <<tb, lock, mem, ref, uid, mine>> /\ w \in Actors
                BY <1>2, <3>10 DEF Complete, Find, Actors
            <4> QED BY <1>1, <3>2, <4>1, <1>FrameStruct, SMTT(20)
        <3>11. ASSUME UNCHANGED <<tb, lock, mem, ref, uid, mine, pc, at>> PROVE Struct'
            <4>1. Ids' = Ids /\ \A c : Holders(c)' = Holders(c)
                BY <3>11 DEF Ids, Holders, Clearing
            <4>2. \A i : Clearing(i)' <=> Clearing(i)
                BY <3>11 DEF Clearing
            <4> QED BY <3>2, <3>11, <4>1, <4>2
                    DEF Struct, RefsHeld, FoundLive, NewOnes, Untold, InPlace, Told, Deleting
        <3>12. ASSUME NEW w \in Workers, NEW k \in Cmds, Complete(w, k) PROVE Struct'
            <4>1. CASE tb[cmd[k].id] # None
                BY <3>10, <3>12, <4>1
            <4>2. CASE tb[cmd[k].id] = None
                <5>1. UNCHANGED <<tb, lock, mem, ref, uid, mine, pc, at>>
                    BY <3>12, <4>2 DEF Complete
                <5> QED BY <5>1, <3>11
            <4> QED BY <4>1, <4>2
        <3>13. ASSUME NEW p \in Procs, NEW k \in Cmds, Submit(p, k) PROVE Struct'
            <4>1. UNCHANGED <<tb, lock, mem, ref, uid, mine, pc, at>>
                BY <3>13 DEF Submit
            <4> QED BY <4>1, <3>11
        <3>14. ASSUME NEW p \in Procs, GetStep(p) PROVE Struct'
            BY <3>5, <3>6, <3>7, <3>8, <3>9, <3>14 DEF GetStep, Actors
        <3>15. ASSUME NEW w \in Workers, WorkerStep(w) PROVE Struct'
            BY <3>5, <3>6, <3>7, <3>12, <3>15 DEF WorkerStep, Actors
        <3> QED BY <1>4, <2>4, <3>3, <3>4, <3>13, <3>14, <3>15 DEF Next
    <2> QED BY <2>3, <2>4
<1> QED BY <1>3, <1>4

\* Every variable of the driver's table has its type.
THEOREM TableTypes == Spec => []TypeOK
<1>1. Table => TypeOK
    BY DEF Table, Types
<1> QED BY <1>1, InitTable, NextTable, PTL DEF Spec

\* kref_get, kref_put and remove_kaioctx: the count of a context is the number of
\* slots and lookups that hold it, and it is freed with the last of them.
THEOREM RefsCorrect == Spec => []RefsExact
<1>1. Table => RefsExact
    BY DEF Table, Struct, RefsHeld, RefsExact
<1> QED BY <1>1, InitTable, NextTable, PTL DEF Spec

\* nvme_set_aioctx and nvme_del_aioctx: an id that a process was told is of no other
\* process and names the slot of the context that carries it.
THEOREM IdsCorrect == Spec => []IdsExact
<1>1. Table => IdsExact
    <2> SUFFICES ASSUME Types, Struct
                 PROVE  /\ \A p, q \in Procs : mine[p] # None /\ mine[p] = mine[q] => p = q
                        /\ \A p \in Procs : mine[p] # None /\ pc[p] # "del" =>
                               tb[mine[p]] # None /\ uid[tb[mine[p]]] = mine[p]
        BY DEF Table, IdsExact
    <2>1. \A p \in Procs : mine[p] # None /\ pc[p] # "del" => mine[p] \in Ids /\ ~Clearing(mine[p])
        BY TypesSay DEF Struct, Told, Clearing
    <2> QED BY <2>1 DEF Struct, Told, InPlace
<1> QED BY <1>1, InitTable, NextTable, PTL DEF Spec

============================================================================
